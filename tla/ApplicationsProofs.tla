------------------------- MODULE ApplicationsProofs -------------------------
(***************************************************************************)
(* Proofs about Applications, for any applications, environment codes,     *)
(* requests and number of tokens.                                          *)
(***************************************************************************)
EXTENDS Applications, TLAPS

-----------------------------------------------------------------------------
(* The invariant.                                                          *)

StoredFor(s, t) == \E n \in DOMAIN issued[s] : issued[s][n] = t

\* An application is known by the token stored last, and audited since the first.
LastTokenStored ==
  \A s \in Slug :
    /\ Exists(s) <=> issued[s] # <<>>
    /\ Exists(s) => /\ apps[s] = HashToken(issued[s][Len(issued[s])])
                    /\ audits[s] = Len(issued[s]) - 1
    /\ ~Exists(s) => audits[s] = 0

\* A request is about an application that it has seen, unless it creates it.
KnowsApplication ==
  \A p \in Req : pc[p] \notin {"idle", "get"} /\ call[p].op # "create" => Exists(call[p].slug)

\* A request has a token from the moment it stored it until it ends.
OwnsToken ==
  \A p \in Req :
    /\ seen[p].token # 0 => pc[p] = "answer" /\ call[p].op \in {"create", "reset"}
    /\ pc[p] = "answer" /\ call[p].op \in {"create", "reset"} =>
         StoredFor(call[p].slug, seen[p].token)

\* Each token stored was told, is about to be, or is lost.
NoneUnaccounted ==
  \A s \in Slug :
    /\ \A t \in told[s] : StoredFor(s, t)
    /\ \A t \in Token : StoredFor(s, t) =>
         \/ t \in told[s] \cup lost
         \/ \E p \in Req : Holds(p, s) /\ seen[p].token = t

\* Tokens and environments are only added after a request has arrived.
ArrivedEarlier ==
  \A p \in Req : pc[p] # "idle" =>
    /\ seen[p].since <= Len(issued[call[p].slug])
    /\ seen[p].known \subseteq Codes(call[p].slug)

AppInv ==
  /\ TypeOK /\ LastTokenStored /\ KnowsApplication /\ OwnsToken /\ NoneUnaccounted
  /\ ArrivedEarlier /\ NoDeadTokenPasses /\ ListsAreCurrent
-----------------------------------------------------------------------------
(* Types.                                                                  *)

LEMMA NothingType == NoCall \in Call /\ NothingSeen \in Seen
PROOF
  BY ConstantsAssumption DEF NoCall, NothingSeen, Call, Seen

LEMMA InitType == Init => TypeOK
PROOF
  <1> SUFFICES ASSUME Init PROVE TypeOK
    OBVIOUS
  <1>1. DOMAIN apps = {} /\ (DOMAIN apps) \X Code = {}
    BY DEF Init
  <1> QED
    BY <1>1, NothingType, ConstantsAssumption DEF Init, TypeOK, PC

\* A request that ends keeps the types of its variables.
LEMMA AnswerType ==
  ASSUME TypeOK, NEW p \in Req, Answer(p)
  PROVE  pc' \in [Req -> PC] /\ call' \in [Req -> Call] /\ seen' \in [Req -> Seen]
PROOF
  BY NothingType DEF TypeOK, Answer, PC

\* A request that goes on keeps them.
LEMMA GotoType ==
  ASSUME TypeOK, NEW p \in Req, NEW label \in PC, Goto(p, label)
  PROVE  pc' \in [Req -> PC] /\ call' \in [Req -> Call]
PROOF
  BY DEF TypeOK, Goto

\* A token that was generated and stored is a token.
LEMMA StoreType ==
  ASSUME TypeOK, NEW p \in Req, NEW s \in Slug, Generate,
         Store(p, s, With(s, HashToken(generated')))
  PROVE  /\ DOMAIN apps' = DOMAIN apps \cup {s}
         /\ \A r \in DOMAIN apps' : apps'[r] \in {HashToken(t) : t \in Token}
         /\ generated' \in 0 .. MaxTokens
         /\ issued' \in [Slug -> Seq(Token)]
         /\ pc' \in [Req -> PC] /\ call' \in [Req -> Call] /\ seen' \in [Req -> Seen]
         /\ UNCHANGED <<told, lost>>
PROOF
  <1>1. generated + 1 \in Token /\ generated' = generated + 1
    BY ConstantsAssumption DEF Generate, TypeOK, Token
  <1>2. apps' = With(s, HashToken(generated'))
    BY DEF Store
  <1>3. DOMAIN apps' = DOMAIN apps \cup {s}
    BY <1>2 DEF With
  <1>4. \A r \in DOMAIN apps' : apps'[r] \in {HashToken(t) : t \in Token}
    BY <1>1, <1>2, <1>3 DEF With, TypeOK
  <1>5. issued' \in [Slug -> Seq(Token)]
    BY <1>1 DEF Store, TypeOK
  <1>6. seen' \in [Req -> Seen]
    <2>1. [seen[p] EXCEPT !.token = generated + 1] \in Seen
      BY <1>1 DEF TypeOK, Seen
    <2>2. seen' = [seen EXCEPT ![p] = [seen[p] EXCEPT !.token = generated + 1]]
      BY <2>1 DEF Store, TypeOK
    <2> QED BY <2>1, <2>2 DEF TypeOK
  <1>7. pc' \in [Req -> PC] /\ call' \in [Req -> Call]
    BY GotoType DEF Store, PC
  <1> QED
    BY <1>1, <1>3, <1>4, <1>5, <1>6, <1>7, ConstantsAssumption
    DEF Store, Generate, TypeOK

LEMMA StoredType ==
  ASSUME TypeOK, NEW p \in Req, NEW s \in Slug, Generate,
         Store(p, s, With(s, HashToken(generated'))),
         UNCHANGED envs, audits' \in [Slug -> Nat]
  PROVE  TypeOK'
PROOF
  <1>1. DOMAIN apps' = DOMAIN apps \cup {s} /\ UNCHANGED <<told, lost>>
    BY StoreType
  <1>2. DOMAIN apps' \subseteq Slug /\ envs' \subseteq (DOMAIN apps') \X Code
    BY <1>1 DEF TypeOK
  <1>3. told' \in [Slug -> SUBSET Token] /\ lost' \subseteq Token
    BY <1>1 DEF TypeOK
  <1>4. /\ \A r \in DOMAIN apps' : apps'[r] \in {HashToken(t) : t \in Token}
        /\ generated' \in 0 .. MaxTokens /\ issued' \in [Slug -> Seq(Token)]
        /\ pc' \in [Req -> PC] /\ call' \in [Req -> Call] /\ seen' \in [Req -> Seen]
    BY StoreType
  <1> QED BY <1>2, <1>3, <1>4 DEF TypeOK

\* A step that changes only the variables of requests.
LEMMA FrameType ==
  ASSUME TypeOK, UNCHANGED <<db, generated, history>>, pc' \in [Req -> PC],
         call' \in [Req -> Call], seen' \in [Req -> Seen]
  PROVE  TypeOK'
PROOF
  BY DEF TypeOK, db, history

LEMMA NextType == TypeOK /\ KnowsApplication /\ OwnsToken /\ [Next]_vars => TypeOK'
PROOF
  <1> SUFFICES ASSUME TypeOK, KnowsApplication, OwnsToken, [Next]_vars PROVE TypeOK'
    OBVIOUS
  <1>1. CASE UNCHANGED vars
    BY <1>1 DEF vars, db, history, TypeOK
  <1>2. CASE Crash
    BY <1>2, NothingType DEF Crash, TypeOK, db, PC, Seen
  <1> SUFFICES ASSUME NEW p \in Req, Arrive(p) \/ Step(p) \/ Fail(p)
               PROVE  TypeOK'
    BY <1>1, <1>2 DEF Next
  <1>3. CASE Arrive(p)
    <2>1. PICK c \in Calls :
            /\ call' = [call EXCEPT ![p] = c]
            /\ seen' = [seen EXCEPT ![p].since = Len(issued[c.slug]),
                                    ![p].known = Codes(c.slug)]
      BY <1>3 DEF Arrive
    <2>2. c \in Call
      BY ConstantsAssumption DEF Calls, Call, NoCall, Token, TypeOK
    <2>3. Len(issued[c.slug]) \in Nat /\ Codes(c.slug) \in SUBSET Code
      BY <2>2 DEF TypeOK, Call, Codes
    <2>4. call' \in [Req -> Call] /\ seen' \in [Req -> Seen]
      <3>1. seen[p] \in Seen /\ [seen[p] EXCEPT !.since = Len(issued[c.slug]),
                                              !.known = Codes(c.slug)] \in Seen
        BY <2>3 DEF TypeOK, Seen
      <3>2. seen' = [seen EXCEPT ![p] = [seen[p] EXCEPT !.since = Len(issued[c.slug]),
                                                        !.known = Codes(c.slug)]]
        BY <2>1, <3>1
      <3> QED BY <2>1, <2>2, <3>1, <3>2 DEF TypeOK
    <2>5. pc' \in [Req -> PC] /\ UNCHANGED <<db, generated, history>>
      BY <1>3 DEF Arrive, TypeOK, PC
    <2> QED BY <2>4, <2>5 DEF TypeOK, db, history
  <1>4. CASE Fail(p)
    <2>1. pc' \in [Req -> PC] /\ call' \in [Req -> Call] /\ seen' \in [Req -> Seen]
      BY <1>4, AnswerType DEF Fail, Refuse
    <2>2. lost' \subseteq Token
      BY <1>4 DEF Fail, TypeOK, Seen
    <2> QED BY <1>4, <2>1, <2>2 DEF Fail, TypeOK, db
  <1>5. CASE Create(p)
    <2> DEFINE s == call[p].slug
    <2>1. /\ s \in Slug /\ Generate /\ UNCHANGED <<envs, audits>>
          /\ audits' \in [Slug -> Nat]
      BY <1>5 DEF Create, TypeOK, Call
    <2>2. CASE Answer(p) /\ UNCHANGED <<apps, history>>
      <3>1. generated' \in 0 .. MaxTokens
        BY <2>1, ConstantsAssumption DEF Generate, TypeOK
      <3>2. pc' \in [Req -> PC] /\ call' \in [Req -> Call] /\ seen' \in [Req -> Seen]
        BY <2>2, AnswerType
      <3> QED BY <2>1, <2>2, <3>1, <3>2 DEF TypeOK, history
    <2>3. CASE Store(p, s, With(s, HashToken(generated')))
      <3> HIDE DEF s
      <3> QED BY <2>1, <2>3, StoredType
    <2> QED BY <1>5, <2>2, <2>3 DEF Create, Refuse
  <1>6. CASE Reset(p)
    <2> DEFINE s == call[p].slug
    <2>1. /\ s \in Slug /\ Generate /\ UNCHANGED envs
          /\ Store(p, s, With(s, HashToken(generated')))
          /\ audits' = [audits EXCEPT ![s] = @ + 1]
      BY <1>6 DEF Reset, Update, TypeOK, Call
    <2>2. audits' \in [Slug -> Nat]
      BY <2>1 DEF TypeOK
    <2> HIDE DEF s
    <2> QED BY <2>1, <2>2, StoredType
  <1>7. CASE TellToken(p)
    <2>1. pc' \in [Req -> PC] /\ call' \in [Req -> Call] /\ seen' \in [Req -> Seen]
      BY <1>7, AnswerType DEF TellToken
    <2>2. seen[p].token \in Token
      BY <1>7 DEF TellToken, OwnsToken, StoredFor, TypeOK, Call
    <2>3. told' \in [Slug -> SUBSET Token]
      BY <1>7, <2>2 DEF TellToken, TypeOK, Call
    <2> QED BY <1>7, <2>1, <2>3 DEF TellToken, TypeOK, db
  <1>8. CASE CreateEnvironment(p)
    <2>1. pc' \in [Req -> PC] /\ call' \in [Req -> Call] /\ seen' \in [Req -> Seen]
      <3>1. CASE Answer(p)
        BY <3>1, AnswerType
      <3>2. CASE Goto(p, "answer") /\ UNCHANGED seen
        BY <3>2, GotoType DEF PC, TypeOK
      <3> QED BY <1>8, <3>1, <3>2 DEF CreateEnvironment, Refuse
    <2>2. envs' \subseteq (DOMAIN apps) \X Code
      <3>1. call[p].slug \in DOMAIN apps /\ call[p].code \in Code
        BY <1>8 DEF CreateEnvironment, At, KnowsApplication, Exists, TypeOK, Call
      <3>2. envs' = envs \/ envs' = envs \cup {<<call[p].slug, call[p].code>>}
        BY <1>8 DEF CreateEnvironment
      <3> QED BY <3>1, <3>2 DEF TypeOK
    <2> QED BY <1>8, <2>1, <2>2 DEF CreateEnvironment, TypeOK, history
  <1>9. CASE List(p)
    <2>1. ListEnvironments(call[p].slug) \in SUBSET Code
      BY DEF ListEnvironments
    <2>2. seen[p] \in Seen
      BY DEF TypeOK
    <2>3. [seen[p] EXCEPT !.codes = ListEnvironments(call[p].slug)] \in Seen
      BY <2>1, <2>2 DEF Seen
    <2>4. seen' = [seen EXCEPT ![p] =
                     [seen[p] EXCEPT !.codes = ListEnvironments(call[p].slug)]]
      BY <1>9, <2>2 DEF List
    <2>5. seen' \in [Req -> Seen]
      BY <2>3, <2>4 DEF TypeOK
    <2>6. pc' \in [Req -> PC] /\ call' \in [Req -> Call]
      BY <1>9, GotoType DEF List, PC
    <2> QED BY <1>9, <2>5, <2>6, FrameType DEF List
  <1>10. CASE Answer(p) /\ UNCHANGED <<db, generated, history>>
    BY <1>10, AnswerType, FrameType
  <1>11. ASSUME NEW label \in PC, Goto(p, label), UNCHANGED <<seen, db, generated, history>>
         PROVE  TypeOK'
    BY <1>11, GotoType, FrameType DEF TypeOK
  <1>12. CASE ResetGet(p) \/ EnvironmentGet(p) \/ AppGet(p) \/ ListGet(p)
    BY <1>10, <1>11, <1>12 DEF PC, ResetGet, EnvironmentGet, AppGet, Get, ListGet, Refuse
  <1>13. CASE TellEnvironment(p) \/ TellApp(p) \/ GetRelease(p)
    BY <1>10, <1>13 DEF TellEnvironment, TellApp, GetRelease
  <1>14. CASE Authenticate(p) \/ GetEnvironment(p)
    BY <1>10, <1>11, <1>14 DEF PC, Authenticate, GetEnvironment, Refuse
  <1> QED
    BY <1>3, <1>4, <1>5, <1>6, <1>7, <1>8, <1>9, <1>12, <1>13, <1>14 DEF Step
-----------------------------------------------------------------------------
(* The kinds of steps a request makes after it has arrived.                *)

\* It goes on to another query; an environment may have been added.
Advances(p) ==
  LET s == call[p].slug IN
  /\ pc[p] \notin {"idle", "answer"} /\ call[p].op # "create" /\ Exists(s)
  /\ \E label \in PC \ {"idle", "get"} : Goto(p, label)
  /\ pc'[p] = "answer" => call[p].op \in {"environment", "app"}
  /\ pc'[p] \in {"environment", "release"} =>
       pc[p] = "environment" \/ Authentic(s, call[p].token)
  /\ \A q \in Req \ {p} : seen'[q] = seen[q]
  /\ seen'[p].token = seen[p].token
  /\ seen'[p].since = seen[p].since /\ seen'[p].known = seen[p].known
  /\ At(p, "answer", "app")' => seen'[p].codes = Codes(s)
  /\ UNCHANGED <<apps, audits, history>> /\ envs \subseteq envs'

\* It stores a new token.
Stores(p) ==
  LET s == call[p].slug IN
  /\ pc[p] = "write" /\ call[p].op \in {"create", "reset"}
  /\ Generate
  /\ Store(p, s, With(s, HashToken(generated')))
  /\ audits' = IF Exists(s) THEN [audits EXCEPT ![s] = @ + 1] ELSE audits
  /\ UNCHANGED envs

\* It ends; the token it stored, if any, is told or lost.
Ends(p) ==
  /\ pc[p] # "idle" /\ Answer(p)
  /\ UNCHANGED <<db, issued>>
  /\ \/ /\ pc[p] = "answer" /\ call[p].op \in {"create", "reset"} /\ UNCHANGED lost
        /\ told' = [told EXCEPT ![call[p].slug] = @ \cup {seen[p].token}]
     \/ lost' = lost \cup ({seen[p].token} \ {0}) /\ UNCHANGED told

LEMMA Kinds ==
  ASSUME AppInv, NEW p \in Req, Step(p) \/ Fail(p)
  PROVE  Advances(p) \/ Stores(p) \/ Ends(p)
PROOF
  <1> DEFINE s == call[p].slug
  <1> USE DEF AppInv
  <1>1. pc[p] # "answer" => seen[p].token = 0
    BY DEF OwnsToken
  <1>2. ASSUME NEW label \in PC \ {"idle", "get"}, Goto(p, label), UNCHANGED seen,
               UNCHANGED <<apps, audits, history>>, envs \subseteq envs',
               pc[p] \notin {"idle", "answer"}, call[p].op # "create", Exists(s),
               label = "answer" => call[p].op = "environment",
               label \in {"environment", "release"} =>
                 pc[p] = "environment" \/ Authentic(s, call[p].token)
        PROVE  Advances(p)
    BY <1>2 DEF Advances, Goto, At, TypeOK
  <1>3. ASSUME pc[p] # "idle", Answer(p), UNCHANGED <<db, history>>, seen[p].token = 0
        PROVE  Ends(p)
    BY <1>3 DEF Ends, history
  <1>4. CASE Create(p)
    BY <1>1, <1>3, <1>4 DEF Create, At, Refuse, Taken, Stores, db
  <1>5. CASE Reset(p)
    <2>1. Exists(s)
      BY <1>5 DEF Reset, At, KnowsApplication
    <2> QED BY <1>5, <2>1 DEF Reset, At, Update, Stores
  <1>6. CASE TellToken(p)
    BY <1>6 DEF TellToken, Ends, db
  <1>7. CASE ResetGet(p) \/ EnvironmentGet(p) \/ AppGet(p)
    BY <1>1, <1>2, <1>3, <1>7
    DEF ResetGet, EnvironmentGet, AppGet, Get, At, Refuse, PC, db
  <1>8. CASE CreateEnvironment(p)
    BY <1>1, <1>2, <1>3, <1>8 DEF CreateEnvironment, At, Refuse, PC, db, KnowsApplication
  <1>9. CASE ListGet(p) \/ Authenticate(p) \/ GetEnvironment(p)
    BY <1>1, <1>2, <1>3, <1>9
    DEF ListGet, Authenticate, GetEnvironment, Authentic, At, Refuse, PC, db,
        KnowsApplication
  <1>10. CASE List(p)
    <2>1. Exists(s) /\ ListEnvironments(s) = Codes(s)
      BY <1>10 DEF List, At, KnowsApplication, ListEnvironments, Codes
    <2> QED BY <1>10, <2>1 DEF List, Advances, At, Goto, PC, TypeOK, Seen, db
  <1>11. CASE TellEnvironment(p) \/ TellApp(p) \/ GetRelease(p)
    <2>1. seen[p].token = 0
      BY <1>11 DEF TellEnvironment, TellApp, GetRelease, At, OwnsToken
    <2> QED BY <1>3, <1>11, <2>1 DEF TellEnvironment, TellApp, GetRelease, At
  <1>12. CASE Fail(p)
    BY <1>12 DEF Fail, Refuse, Ends, db
  <1> QED
    BY <1>4, <1>5, <1>6, <1>7, <1>8, <1>9, <1>10, <1>11, <1>12 DEF Step
-----------------------------------------------------------------------------
(* Each kind of step keeps the invariant.                                  *)

\* The variables of the requests that do not move.
LEMMA OthersKept ==
  ASSUME TypeOK, NEW p \in Req, Arrive(p) \/ Advances(p) \/ Stores(p) \/ Ends(p),
         NEW q \in Req \ {p}
  PROVE  pc'[q] = pc[q] /\ call'[q] = call[q] /\ seen'[q] = seen[q]
PROOF
  BY DEF TypeOK, Arrive, Advances, Stores, Store, Ends, Answer, Goto

\* A token that is stored leaves what was stored before.
LEMMA Grows ==
  ASSUME AppInv, NEW p \in Req, Stores(p), NEW s \in Slug
  PROVE  /\ Exists(s) => Exists(s)'
         /\ issued[s] \in Seq(Token) /\ issued'[s] \in Seq(Token)
         /\ Len(issued[s]) <= Len(issued'[s])
         /\ \A n \in DOMAIN issued[s] :
              n \in DOMAIN issued'[s] /\ issued'[s][n] = issued[s][n]
PROOF
  <1> DEFINE t == generated + 1
             r == call[p].slug
  <1> USE DEF AppInv
  <1>1. t \in Token /\ r \in Slug /\ issued[s] \in Seq(Token)
    BY ConstantsAssumption DEF Stores, Generate, TypeOK, Token, Call
  <1>2. issued' = [issued EXCEPT ![r] = Append(@, t)]
    BY DEF Stores, Store
  <1>3. issued'[s] = issued[s] \/ issued'[s] = Append(issued[s], t)
    BY <1>1, <1>2 DEF TypeOK
  <1>4. Exists(s) => Exists(s)'
    BY DEF Stores, Store, With, Exists
  <1> HIDE DEF t
  <1>5. CASE issued'[s] = issued[s]
    BY <1>1, <1>4, <1>5
  <1>6. CASE issued'[s] = Append(issued[s], t)
    <2>1. /\ issued'[s] \in Seq(Token) /\ Len(issued'[s]) = Len(issued[s]) + 1
          /\ Len(issued[s]) \in Nat
      BY <1>1, <1>6
    <2>2. \A n \in 1 .. Len(issued[s]) : issued'[s][n] = issued[s][n]
      BY <1>1, <1>6
    <2> QED BY <1>1, <1>4, <2>1, <2>2
  <1> QED BY <1>3, <1>5, <1>6

LEMMA ArriveKeeps ==
  ASSUME AppInv, NEW p \in Req, Arrive(p)
  PROVE  /\ LastTokenStored' /\ KnowsApplication' /\ OwnsToken' /\ NoneUnaccounted'
         /\ ArrivedEarlier' /\ NoDeadTokenPasses' /\ ListsAreCurrent'
PROOF
  <1> USE DEF AppInv
  <1>1. PICK c \in Calls :
          /\ call' = [call EXCEPT ![p] = c]
          /\ seen' = [seen EXCEPT ![p].since = Len(issued[c.slug]),
                                  ![p].known = Codes(c.slug)]
          /\ pc' = [pc EXCEPT ![p] = IF c.op = "create" THEN "write" ELSE "get"]
    BY DEF Arrive
  <1>2. pc[p] = "idle" /\ UNCHANGED <<db, generated, history>>
    BY DEF Arrive
  <1>3. /\ pc'[p] \in {"write", "get"} /\ (pc'[p] = "write" => call'[p].op = "create")
        /\ call'[p].slug \in Slug /\ seen'[p].token = 0
        /\ seen'[p].since = Len(issued[call'[p].slug])
        /\ seen'[p].known = Codes(call'[p].slug)
    <2>1. c.slug \in Slug
      BY DEF Calls
    <2>2. seen[p].token = 0
      BY <1>2 DEF OwnsToken
    <2> QED BY <1>1, <2>1, <2>2 DEF TypeOK, Seen
  <1>4. UNCHANGED <<apps, envs, audits, issued, told, lost>>
    BY <1>2 DEF db, history
  <1>5. \A q \in Req \ {p} : pc'[q] = pc[q] /\ call'[q] = call[q] /\ seen'[q] = seen[q]
    BY OthersKept
  <1>6. LastTokenStored'
    BY <1>4 DEF LastTokenStored, Exists
  <1>7. KnowsApplication'
    BY <1>3, <1>4, <1>5 DEF KnowsApplication, Exists
  <1>8. OwnsToken'
    BY <1>3, <1>4, <1>5 DEF OwnsToken, StoredFor
  <1>9. NoneUnaccounted'
    <2>1. \A s \in Slug, q \in Req : Holds(q, s) => q # p /\ Holds(q, s)'
      BY <1>2, <1>5 DEF Holds
    <2> QED BY <1>4, <1>5, <2>1 DEF NoneUnaccounted, StoredFor
  <1>10. ArrivedEarlier'
    <2>1. \A s \in Slug : Len(issued[s]) \in Nat
      BY DEF TypeOK
    <2> QED BY <1>3, <1>4, <1>5, <2>1 DEF ArrivedEarlier, Codes
  <1>11. NoDeadTokenPasses'
    <2>1. \A q \in Req : pc'[q] \in {"environment", "release"} => q # p
      BY <1>3
    <2> QED BY <1>4, <1>5, <2>1 DEF NoDeadTokenPasses
  <1>12. ListsAreCurrent'
    BY <1>3, <1>4, <1>5 DEF ListsAreCurrent, At, Codes
  <1> QED BY <1>6, <1>7, <1>8, <1>9, <1>10, <1>11, <1>12
LEMMA AdvanceKeeps ==
  ASSUME AppInv, NEW p \in Req, Advances(p)
  PROVE  /\ LastTokenStored' /\ KnowsApplication' /\ OwnsToken' /\ NoneUnaccounted'
         /\ ArrivedEarlier' /\ NoDeadTokenPasses' /\ ListsAreCurrent'
PROOF
  <1> USE DEF AppInv
  <1>1. \A q \in Req \ {p} : pc'[q] = pc[q] /\ call'[q] = call[q] /\ seen'[q] = seen[q]
    BY OthersKept
  <1>2. UNCHANGED <<apps, audits, issued, told, lost>> /\ envs \subseteq envs'
    BY DEF Advances, history
  <1>3. /\ pc[p] \notin {"idle", "answer"} /\ pc'[p] # "idle" /\ call'[p] = call[p]
        /\ Exists(call[p].slug)
        /\ pc'[p] = "answer" => call[p].op \in {"environment", "app"}
        /\ seen'[p].token = seen[p].token /\ seen'[p].since = seen[p].since
        /\ seen'[p].known = seen[p].known
        /\ call[p].slug \in Slug
    BY DEF Advances, Goto, TypeOK, Call
  <1>4. LastTokenStored'
    BY <1>2 DEF LastTokenStored, Exists
  <1>5. KnowsApplication'
    BY <1>1, <1>2, <1>3 DEF KnowsApplication, Exists
  <1>6. OwnsToken'
    BY <1>1, <1>2, <1>3 DEF OwnsToken, StoredFor
  <1>7. NoneUnaccounted'
    <2>1. \A s \in Slug, q \in Req : Holds(q, s) => q # p /\ Holds(q, s)'
      BY <1>1, <1>3 DEF Holds
    <2> QED BY <1>1, <1>2, <2>1 DEF NoneUnaccounted, StoredFor
  <1>8. ArrivedEarlier'
    BY <1>1, <1>2, <1>3 DEF ArrivedEarlier, Codes
  <1>9. NoDeadTokenPasses'
    <2> DEFINE s == call[p].slug
               last == Len(issued[s])
    <2>1. ASSUME Authentic(s, call[p].token)
          PROVE  last \in DOMAIN issued[s] /\ issued[s][last] = call[p].token
      <3>1. HashToken(call[p].token) = HashToken(issued[s][last]) /\ issued[s] # <<>>
        BY <1>3, <2>1 DEF Authentic, StoredHash, LastTokenStored
      <3>2. issued[s] \in Seq(Token)
        BY <1>3 DEF TypeOK
      <3>3. last \in DOMAIN issued[s]
        BY <3>1, <3>2
      <3>4. HashToken(call[p].token).sha256 = HashToken(issued[s][last]).sha256
        BY <3>1
      <3> QED BY <3>3, <3>4 DEF HashToken
    <2>2. seen[p].since <= last
      BY <1>3 DEF ArrivedEarlier
    <2>3. last \in Nat /\ seen[p].since \in Nat
      BY <1>3 DEF TypeOK, Seen
    <2>4. pc'[p] \in {"environment", "release"} =>
            pc[p] = "environment" \/ Authentic(s, call[p].token)
      BY DEF Advances
    <2>5. pc'[p] \in {"environment", "release"} =>
            \E n \in DOMAIN issued[s] : n >= seen[p].since /\ issued[s][n] = call[p].token
      BY <2>1, <2>2, <2>3, <2>4 DEF NoDeadTokenPasses
    <2> QED BY <1>1, <1>2, <1>3, <2>5 DEF NoDeadTokenPasses
  <1>10. ListsAreCurrent'
    <2>1. At(p, "answer", "app")' => seen'[p].codes = Codes(call[p].slug)
      BY DEF Advances
    <2>2. seen[p].known \subseteq Codes(call[p].slug)
      BY <1>3 DEF ArrivedEarlier
    <2> QED BY <1>1, <1>2, <1>3, <2>1, <2>2 DEF ListsAreCurrent, At, Codes
  <1> QED BY <1>4, <1>5, <1>6, <1>7, <1>8, <1>9, <1>10

LEMMA EndKeeps ==
  ASSUME AppInv, NEW p \in Req, Ends(p)
  PROVE  /\ LastTokenStored' /\ KnowsApplication' /\ OwnsToken' /\ NoneUnaccounted'
         /\ ArrivedEarlier' /\ NoDeadTokenPasses' /\ ListsAreCurrent'
PROOF
  <1> USE DEF AppInv
  <1>1. \A q \in Req \ {p} : pc'[q] = pc[q] /\ call'[q] = call[q] /\ seen'[q] = seen[q]
    BY OthersKept
  <1>2. UNCHANGED <<apps, envs, audits, issued>>
    BY DEF Ends, db
  <1>3. pc'[p] = "idle" /\ seen'[p].token = 0
    BY DEF Ends, Answer, TypeOK, NothingSeen
  <1>4. LastTokenStored'
    BY <1>2 DEF LastTokenStored, Exists
  <1>5. KnowsApplication'
    BY <1>1, <1>2, <1>3 DEF KnowsApplication, Exists
  <1>6. OwnsToken'
    BY <1>1, <1>2, <1>3 DEF OwnsToken, StoredFor
  <1>7. NoneUnaccounted'
    <2> SUFFICES ASSUME NEW s \in Slug
                 PROVE  /\ \A t \in told'[s] : StoredFor(s, t)
                        /\ \A t \in Token : StoredFor(s, t) =>
                             \/ t \in told'[s] \cup lost'
                             \/ \E q \in Req : Holds(q, s)' /\ seen'[q].token = t
      BY <1>2 DEF NoneUnaccounted, StoredFor
    <2>1. CASE /\ pc[p] = "answer" /\ call[p].op \in {"create", "reset"} /\ UNCHANGED lost
               /\ told' = [told EXCEPT ![call[p].slug] = @ \cup {seen[p].token}]
      <3>1. StoredFor(call[p].slug, seen[p].token)
        BY <2>1 DEF OwnsToken
      <3>2. told'[s] = told[s] \cup (IF s = call[p].slug THEN {seen[p].token} ELSE {})
        BY <2>1 DEF TypeOK
      <3>3. \A q \in Req \ {p} : Holds(q, s) => Holds(q, s)'
        BY <1>1 DEF Holds
      <3> QED BY <1>1, <2>1, <3>1, <3>2, <3>3 DEF NoneUnaccounted, Holds
    <2>2. CASE lost' = lost \cup ({seen[p].token} \ {0}) /\ UNCHANGED told
      <3>1. \A q \in Req \ {p} : Holds(q, s) => Holds(q, s)'
        BY <1>1 DEF Holds
      <3>2. \A t \in Token : t # 0
        BY DEF Token
      <3> QED BY <1>1, <2>2, <3>1, <3>2 DEF NoneUnaccounted
    <2> QED BY <2>1, <2>2 DEF Ends
  <1>8. ArrivedEarlier'
    BY <1>1, <1>2, <1>3 DEF ArrivedEarlier, Codes
  <1>9. NoDeadTokenPasses'
    BY <1>1, <1>2, <1>3 DEF NoDeadTokenPasses
  <1>10. ListsAreCurrent'
    BY <1>1, <1>2, <1>3 DEF ListsAreCurrent, At, Codes
  <1> QED BY <1>4, <1>5, <1>6, <1>7, <1>8, <1>9, <1>10
LEMMA StoreKeeps ==
  ASSUME AppInv, NEW p \in Req, Stores(p),
         NEW r \in Slug, r = call[p].slug, NEW t \in Token, t = generated + 1
  PROVE  /\ LastTokenStored' /\ KnowsApplication' /\ OwnsToken' /\ NoneUnaccounted'
         /\ ArrivedEarlier' /\ NoDeadTokenPasses' /\ ListsAreCurrent'
PROOF
  <1> USE DEF AppInv
  <1>1. \A q \in Req \ {p} : pc'[q] = pc[q] /\ call'[q] = call[q] /\ seen'[q] = seen[q]
    BY OthersKept
  <1>2. generated' = t /\ pc[p] = "write" /\ call[p].op \in {"create", "reset"}
    BY DEF Stores, Generate
  <1>3. /\ apps' = With(r, HashToken(t)) /\ UNCHANGED <<envs, told, lost>>
        /\ issued' = [issued EXCEPT ![r] = Append(@, t)]
        /\ audits' = IF Exists(r) THEN [audits EXCEPT ![r] = @ + 1] ELSE audits
    BY <1>2 DEF Stores, Store
  <1>4. /\ pc'[p] = "answer" /\ call'[p] = call[p] /\ seen'[p].token = t
        /\ seen'[p].since = seen[p].since /\ seen'[p].known = seen[p].known
    BY <1>2 DEF Stores, Store, Goto, TypeOK, Seen
  <1>5. \A s \in Slug \ {r} :
          issued'[s] = issued[s] /\ Exists(s)' = Exists(s) /\ audits'[s] = audits[s]
    BY <1>3 DEF TypeOK, Exists, With
  <1>6. Exists(r)' /\ apps'[r] = HashToken(t)
    BY <1>3 DEF Exists, With
  <1>7. /\ issued[r] \in Seq(Token) /\ issued'[r] = Append(issued[r], t)
        /\ issued'[r] # <<>> /\ Len(issued'[r]) = Len(issued[r]) + 1
        /\ issued'[r][Len(issued'[r])] = t
        /\ Len(issued'[r]) \in DOMAIN issued'[r]
    <2>1. issued[r] \in Seq(Token) /\ issued'[r] = Append(issued[r], t)
      BY <1>3 DEF TypeOK
    <2>2. Len(issued'[r]) = Len(issued[r]) + 1 /\ Len(issued[r]) \in Nat
      BY <2>1
    <2>3. issued'[r] \in Seq(Token) /\ issued'[r][Len(issued[r]) + 1] = t
      BY <2>1
    <2> QED BY <2>1, <2>2, <2>3
  <1>8. LastTokenStored'
    <2> SUFFICES ASSUME NEW s \in Slug
                 PROVE  /\ Exists(s)' <=> issued'[s] # <<>>
                        /\ Exists(s)' =>
                             /\ apps'[s] = HashToken(issued'[s][Len(issued'[s])])
                             /\ audits'[s] = Len(issued'[s]) - 1
                        /\ ~Exists(s)' => audits'[s] = 0
      BY DEF LastTokenStored
    <2>1. CASE s # r
      <3>1. apps'[s] = apps[s] \/ ~Exists(s)
        BY <1>3, <2>1 DEF With, Exists
      <3> QED BY <1>5, <2>1, <3>1 DEF LastTokenStored
    <2>2. CASE s = r
      <3>1. audits'[r] = IF Exists(r) THEN audits[r] + 1 ELSE audits[r]
        BY <1>2, <1>3 DEF TypeOK
      <3>2. audits'[r] = Len(issued[r])
        <4>1. Len(issued[r]) \in Nat /\ (issued[r] = <<>> => Len(issued[r]) = 0)
          BY <1>7
        <4> QED BY <1>2, <3>1, <4>1 DEF LastTokenStored
      <3> QED BY <1>6, <1>7, <2>2, <3>2
    <2> QED BY <2>1, <2>2
  <1>9. \A s \in Slug :
          /\ Exists(s) => Exists(s)'
          /\ Len(issued[s]) <= Len(issued'[s])
          /\ Len(issued[s]) \in Nat /\ Len(issued'[s]) \in Nat
          /\ \A n \in DOMAIN issued[s] :
               n \in DOMAIN issued'[s] /\ issued'[s][n] = issued[s][n]
    <2>1. \A s \in Slug :
            /\ Exists(s) => Exists(s)'
            /\ Len(issued[s]) <= Len(issued'[s])
            /\ issued[s] \in Seq(Token) /\ issued'[s] \in Seq(Token)
            /\ \A n \in DOMAIN issued[s] :
                 n \in DOMAIN issued'[s] /\ issued'[s][n] = issued[s][n]
      BY Grows
    <2> QED BY <2>1
  <1>10. \A s \in Slug : \A u : StoredFor(s, u) => StoredFor(s, u)'
    BY <1>9 DEF StoredFor
  <1>11. \A s \in Slug : \A u : StoredFor(s, u)' => StoredFor(s, u) \/ (s = r /\ u = t)
    <2>1. \A n \in DOMAIN issued'[r] : n \in DOMAIN issued[r] \/ issued'[r][n] = t
      BY <1>2, <1>7
    <2> QED BY <1>5, <1>9, <2>1 DEF StoredFor
  <1>12. StoredFor(r, t)'
    BY <1>7 DEF StoredFor
  <1>13. \A q \in Req : call[q].slug \in Slug /\ seen[q].since \in Nat
    BY DEF TypeOK, Call, Seen
  <1>14. KnowsApplication'
    BY <1>1, <1>4, <1>6, <1>9, <1>13 DEF KnowsApplication, Exists
  <1>15. OwnsToken'
    <2>1. ASSUME NEW q \in Req \ {p}, StoredFor(call[q].slug, seen[q].token)
          PROVE  StoredFor(call[q].slug, seen[q].token)'
      <3>1. PICK n \in DOMAIN issued[call[q].slug] : issued[call[q].slug][n] = seen[q].token
        BY <2>1 DEF StoredFor
      <3>2. n \in DOMAIN issued'[call[q].slug] /\ issued'[call[q].slug][n] = seen[q].token
        BY <1>9, <1>13, <3>1
      <3> QED BY <1>1, <3>2 DEF StoredFor
    <2>2. StoredFor(call[p].slug, seen[p].token)'
      BY <1>4, <1>7 DEF StoredFor
    <2> QED BY <1>1, <1>2, <1>4, <2>1, <2>2 DEF OwnsToken
  <1>16. NoneUnaccounted'
    <2> SUFFICES ASSUME NEW s \in Slug
                 PROVE  /\ \A u \in told'[s] : StoredFor(s, u)'
                        /\ \A u \in Token : StoredFor(s, u)' =>
                             \/ u \in told'[s] \cup lost'
                             \/ \E q \in Req : Holds(q, s)' /\ seen'[q].token = u
      BY DEF NoneUnaccounted
    <2>1. \A q \in Req : Holds(q, s) => q # p /\ Holds(q, s)'
      BY <1>1, <1>2 DEF Holds
    <2>2. Holds(p, r)'
      BY <1>4 DEF Holds
    <2> QED BY <1>1, <1>3, <1>4, <1>10, <1>11, <2>1, <2>2 DEF NoneUnaccounted
  <1>17. ArrivedEarlier'
    BY <1>1, <1>2, <1>3, <1>4, <1>9, <1>13 DEF ArrivedEarlier, Codes
  <1>18. NoDeadTokenPasses'
    <2> SUFFICES ASSUME NEW q \in Req, pc'[q] \in {"environment", "release"}
                 PROVE  \E n \in DOMAIN issued'[call'[q].slug] :
                          /\ n >= seen'[q].since
                          /\ issued'[call'[q].slug][n] = call'[q].token
      BY DEF NoDeadTokenPasses
    <2>1. q # p /\ pc[q] \in {"environment", "release"}
      BY <1>1, <1>4
    <2>2. PICK n \in DOMAIN issued[call[q].slug] :
            n >= seen[q].since /\ issued[call[q].slug][n] = call[q].token
      BY <2>1 DEF NoDeadTokenPasses
    <2>3. n \in DOMAIN issued'[call[q].slug] /\ issued'[call[q].slug][n] = call[q].token
      BY <1>9, <1>13, <2>2
    <2> QED BY <1>1, <2>1, <2>2, <2>3
  <1>19. ListsAreCurrent'
    BY <1>1, <1>2, <1>3, <1>4 DEF ListsAreCurrent, At, Codes
  <1> QED BY <1>8, <1>14, <1>15, <1>16, <1>17, <1>18, <1>19

LEMMA CrashKeeps ==
  ASSUME AppInv, Crash
  PROVE  /\ LastTokenStored' /\ KnowsApplication' /\ OwnsToken' /\ NoneUnaccounted'
         /\ ArrivedEarlier' /\ NoDeadTokenPasses' /\ ListsAreCurrent'
PROOF
  <1> USE DEF AppInv
  <1>1. \A p \in Req : pc'[p] = "idle" /\ seen'[p].token = 0
    BY DEF Crash, NothingSeen
  <1>2. UNCHANGED <<apps, envs, audits, issued, told>>
    BY DEF Crash, db
  <1>3. lost' = lost \cup ({seen[p].token : p \in Req} \ {0})
    BY DEF Crash
  <1>4. LastTokenStored'
    BY <1>2 DEF LastTokenStored, Exists
  <1>5. NoneUnaccounted'
    <2>1. \A t \in Token : t # 0
      BY DEF Token
    <2> QED BY <1>2, <1>3, <2>1 DEF NoneUnaccounted, StoredFor
  <1> QED
    BY <1>1, <1>4, <1>5
    DEF KnowsApplication, OwnsToken, ArrivedEarlier, NoDeadTokenPasses, ListsAreCurrent, At

LEMMA NextInv == AppInv /\ [Next]_vars => AppInv'
PROOF
  <1> SUFFICES ASSUME AppInv, [Next]_vars PROVE AppInv'
    OBVIOUS
  <1>1. TypeOK'
    BY NextType DEF AppInv
  <1>2. CASE UNCHANGED vars
    BY <1>1, <1>2
    DEF vars, db, history, AppInv, LastTokenStored, KnowsApplication, OwnsToken,
        NoneUnaccounted, ArrivedEarlier, NoDeadTokenPasses, ListsAreCurrent, Exists,
        StoredFor, Holds, Codes, At
  <1>3. CASE Crash
    BY <1>1, <1>3, CrashKeeps DEF AppInv
  <1>4. ASSUME NEW p \in Req, Arrive(p)
        PROVE  AppInv'
    BY <1>1, <1>4, ArriveKeeps DEF AppInv
  <1>5. ASSUME NEW p \in Req, Step(p) \/ Fail(p)
        PROVE  AppInv'
    <2>1. CASE Stores(p)
      <3>1. call[p].slug \in Slug /\ generated + 1 \in Token
        BY <2>1, ConstantsAssumption DEF Stores, Generate, AppInv, TypeOK, Token, Call
      <3> QED BY <1>1, <2>1, <3>1, StoreKeeps DEF AppInv
    <2> QED BY <1>1, <1>5, <2>1, Kinds, AdvanceKeeps, EndKeeps DEF AppInv
  <1> QED BY <1>2, <1>3, <1>4, <1>5 DEF Next

LEMMA Invariance == Spec => []AppInv
PROOF
  <1>1. Init => AppInv
    <2> SUFFICES ASSUME Init PROVE AppInv
      OBVIOUS
    <2>1. /\ \A p \in Req : pc[p] = "idle" /\ seen[p].token = 0
          /\ DOMAIN apps = {}
          /\ \A s \in Slug : issued[s] = <<>> /\ audits[s] = 0 /\ told[s] = {}
      BY DEF Init, NothingSeen
    <2>2. \A s \in Slug : \A t : ~StoredFor(s, t)
      BY <2>1 DEF StoredFor
    <2> QED
      BY <2>1, <2>2, InitType
      DEF AppInv, LastTokenStored, KnowsApplication, OwnsToken, NoneUnaccounted,
          ArrivedEarlier, NoDeadTokenPasses, ListsAreCurrent, Exists, At
  <1> QED BY <1>1, NextInv, PTL DEF Spec

-----------------------------------------------------------------------------
(* Theorems.                                                               *)

\* The tables and the variables of the requests are of their types; so no request
\* adds an environment to an application that does not exist.
THEOREM TypeCorrect == Spec => []TypeOK
PROOF
  BY Invariance, PTL DEF AppInv

\* The token stored last is the one that works, and every token ever stored was
\* told, is about to be, or was lost with its request, however many requests
\* create and reset at once and wherever they fail.
THEOREM TokensAreAccounted == Spec => []TokensAccounted
PROOF
  <1>1. AppInv => TokensAccounted
    <2> SUFFICES ASSUME AppInv, NEW s \in Slug,
                        NEW tokens, tokens = {issued[s][n] : n \in DOMAIN issued[s]}
                 PROVE  /\ told[s] \subseteq tokens
                        /\ tokens \subseteq
                             told[s] \cup lost \cup
                             {seen[p].token : p \in {q \in Req : Holds(q, s)}}
      BY DEF AppInv, LastTokenStored, TokensAccounted
    <2>1. issued[s] \in Seq(Token)
      BY DEF AppInv, TypeOK
    <2>2. \A t : t \in tokens <=> StoredFor(s, t)
      BY DEF StoredFor
    <2>3. \A t \in tokens : t \in Token
      BY <2>1
    <2> QED BY <2>2, <2>3 DEF AppInv, NoneUnaccounted
  <1> QED BY <1>1, Invariance, PTL

\* A client that is let in has used a token that was the application's at some
\* moment since its request arrived.
THEOREM DeadTokensDoNotPass == Spec => []NoDeadTokenPasses
PROOF
  BY Invariance, PTL DEF AppInv

\* A list of environments has all that existed when it was asked for, and none of
\* another application.
THEOREM ListsStayCurrent == Spec => []ListsAreCurrent
PROOF
  BY Invariance, PTL DEF AppInv
=============================================================================
