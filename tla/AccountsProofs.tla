--------------------------- MODULE AccountsProofs ---------------------------
(***************************************************************************)
(* The invariants of the parts that know people before they buy, Sessions, *)
(* Prelaunch and LaunchMarkets, and of the office that runs the clubs and  *)
(* the platform, Staff, BusinessAccess, AuditLog, PlatformAdmin and Inbox, *)
(* for any phones, requests, markets, workers and rows.                    *)
(***************************************************************************)
EXTENDS MCPlatform, SumTheorems, SequenceTheorems

-----------------------------------------------------------------------------
(***************************************************************************)
(* Sessions                                                                *)
(***************************************************************************)
-----------------------------------------------------------------------------
(* The inductive invariant.                                                *)

\* The types, and that what a token or a request descends from was given.
SessionTypes ==
    /\ SessionTypeOK /\ knew \in [Tokens -> 0..MaxResets]
    /\ overlapped \in BOOLEAN /\ died \in BOOLEAN
    /\ \A t \in Tokens : token[t] # "NONE" => login[t] \in Tokens /\ token[login[t]] # "NONE"

\* Who replaces a token was given one, which is live and nobody else's as long
\* as nothing overlapped; who issues knows the password of then.
RequestsKnow ==
    /\ \A h \in Handlers :
        /\ handler[h].of # NoToken => token[handler[h].of] # "NONE" /\ handler[h].pc \in {"issue", "revoke"}
        /\ handler[h].pc = "revoke" => handler[h].of # NoToken
    /\ ~overlapped =>
        /\ \A h \in Handlers : /\ handler[h].of # NoToken => token[handler[h].of] = "LIVE"
                               /\ handler[h].pc = "issue" => handler[h].pass = password
        /\ \A h, i \in Handlers : h # i /\ handler[h].of # NoToken => handler[i].of # handler[h].of

\* A token that is neither revoked nor about to be.
Stays(u) == token[u] = "LIVE" /\ \A h \in Handlers : handler[h].pc = "revoke" => handler[h].of # u

\* A session that was not ended keeps a token that stays.
SessionsStay ==
    \A t \in Tokens : login[t] = t /\ t \notin ended => \E u \in Tokens : login[u] = t /\ Stays(u)

\* Who is about to revoke a token of session t.
RevokersOf(t) == {h \in Handlers : handler[h].pc = "revoke" /\ login[handler[h].of] = t}

\* Without overlaps and deaths, every live token but one is about to be revoked.
OneEach ==
    ~overlapped /\ ~died => \A t \in Tokens : Cardinality(LiveOf(t)) <= 1 + Cardinality(RevokersOf(t))

\* Who read the present code of a purpose and will find it wrong.
Guessing(p) == {h \in Handlers : /\ handler[h].pc = "guess" /\ handler[h].purpose = p
                                 /\ handler[h].number = code[p].number}

\* The attempts counted, and those still to count.
GuessesAreLimited ==
    \A p \in Purposes :
        code[p].attempts + Cardinality(Guessing(p)) <= MaxAttempts - 1 + Cardinality(Handlers)

\* The inductive invariant of the sessions.
SessionIInv ==
    /\ SessionTypes /\ RequestsKnow /\ SessionsStay /\ OneEach /\ GuessesAreLimited
    /\ ResetEndsSessions
    /\ account = "ACTIVE" <=> hasWallet

-----------------------------------------------------------------------------
(* Sets that grow or shrink by one.                                        *)

\* A part of a set has no more elements than it.
LEMMA PartCounts ==
    ASSUME NEW S, IsFiniteSet(S), NEW T, T \subseteq S
    PROVE  IsFiniteSet(T) /\ Cardinality(T) <= Cardinality(S) /\ Cardinality(T) \in Nat /\ Cardinality(S) \in Nat
BY FS_Subset, FS_CardinalityType

\* With one element more, it has one more at most.
LEMMA OneMoreCounts ==
    ASSUME NEW S, IsFiniteSet(S), NEW x, NEW T, T \subseteq S \cup {x}
    PROVE  Cardinality(T) <= Cardinality(S) + 1 /\ Cardinality(T) \in Nat /\ Cardinality(S) \in Nat
<1>1. IsFiniteSet(S \cup {x}) /\ Cardinality(S \cup {x}) <= Cardinality(S) + 1 /\ Cardinality(S) \in Nat
    BY FS_AddElement, FS_CardinalityType
<1>2. Cardinality(T) <= Cardinality(S \cup {x}) /\ Cardinality(T) \in Nat /\ Cardinality(S \cup {x}) \in Nat
    BY <1>1, PartCounts
<1> QED
    BY <1>1, <1>2

\* Without one of its elements, it has one less at least.
LEMMA OneLessCounts ==
    ASSUME NEW S, IsFiniteSet(S), NEW x \in S, NEW T, T \subseteq S \ {x}
    PROVE  Cardinality(T) + 1 <= Cardinality(S) /\ Cardinality(T) \in Nat /\ Cardinality(S) \in Nat
<1>1. IsFiniteSet(S \ {x}) /\ Cardinality(S \ {x}) = Cardinality(S) - 1 /\ Cardinality(S) \in Nat
    BY FS_RemoveElement, FS_CardinalityType
<1>2. Cardinality(T) <= Cardinality(S \ {x}) /\ Cardinality(T) \in Nat
    BY <1>1, PartCounts
<1> QED
    BY <1>1, <1>2

-----------------------------------------------------------------------------
(* The steps.                                                              *)

\* The writes of a refresh, and what follows each.
LEMMA StepsAre ==
    ASSUME NEW h \in Handlers
    PROVE  /\ RefreshSteps[1] = "issue" /\ RefreshSteps[2] = "revoke"
           /\ Then(h, "issue") <=> IF handler[h].of # NoToken
                                   THEN handler' = [handler EXCEPT ![h].pc = "revoke"]
                                   ELSE handler' = [handler EXCEPT ![h] = NoRequestYet]
           /\ Then(h, "revoke") <=> handler' = [handler EXCEPT ![h] = NoRequestYet]
BY DEF Then, Done, RefreshSteps

\* The request of which nothing is known.
LEMMA NoRequestIs ==
    NoRequestYet \in [pc : HandlerPCs, of : Tokens \cup {NoToken}, purpose : Purposes,
                      number : 0..MaxCodes, pass : 0..MaxResets]
BY SessionAssumption DEF NoRequestYet, HandlerPCs, Purposes

\* What changes the codes.
LEMMA CodeSteps ==
    ASSUME [SessionNext]_sessionVars
    PROVE  \/ UNCHANGED code
           \/ \E p \in Purposes : NewCode(p) \/ CodeExpires(p)
           \/ \E h \in Handlers : WrongCode(h) \/ code' = Consumed(h)
<1>1. CASE UNCHANGED sessionVars
    BY <1>1 DEF sessionVars
<1>2. CASE Register
    BY <1>2 DEF Register, Purposes
<1>3. ASSUME NEW p \in Purposes, SendCode(p) PROVE NewCode(p)
    BY <1>3 DEF SendCode
<1>4. ASSUME NEW h \in Handlers, NEW p \in Purposes, ReadCode(h, p) PROVE UNCHANGED code
    BY <1>4 DEF ReadCode
<1>5. ASSUME NEW h \in Handlers, ConfirmPhone(h) \/ ResetPassword(h) PROVE code' = Consumed(h)
    BY <1>5 DEF ConfirmPhone, ResetPassword
<1>6. ASSUME NEW h \in Handlers, Login(h) \/ RevokeToken(h) \/ HandlerDies(h) PROVE UNCHANGED code
    BY <1>6 DEF Login, RevokeToken, HandlerDies
<1>7. ASSUME NEW h \in Handlers, NEW t \in Tokens, ReadToken(h, t) \/ IssueTokens(h, t)
      PROVE  UNCHANGED code
    BY <1>7 DEF ReadToken, IssueTokens
<1>8. ASSUME NEW t \in Tokens, EndToken(t) PROVE UNCHANGED code
    BY <1>8 DEF EndToken
<1> QED
    BY <1>1, <1>2, <1>3, <1>4, <1>5, <1>6, <1>7, <1>8 DEF SessionNext

\* What changes the requests.
LEMMA RequestSteps ==
    ASSUME [SessionNext]_sessionVars
    PROVE  \/ UNCHANGED handler
           \/ \E h \in Handlers : Done(h) \/ Then(h, "issue") \/ Then(h, "revoke") \/ Login(h)
           \/ \E h \in Handlers, p \in Purposes : ReadCode(h, p)
           \/ \E h \in Handlers, t \in Tokens : ReadToken(h, t)
<1>1. CASE UNCHANGED sessionVars
    BY <1>1 DEF sessionVars
<1>2. CASE Register
    BY <1>2 DEF Register
<1>3. ASSUME NEW p \in Purposes, SendCode(p) \/ CodeExpires(p) PROVE UNCHANGED handler
    BY <1>3 DEF SendCode, CodeExpires
<1>4. ASSUME NEW h \in Handlers, WrongCode(h) \/ ConfirmPhone(h) \/ ResetPassword(h) \/ HandlerDies(h)
      PROVE  Done(h)
    BY <1>4 DEF WrongCode, ConfirmPhone, ResetPassword, HandlerDies
<1>5. ASSUME NEW h \in Handlers, NEW t \in Tokens, IssueTokens(h, t) PROVE Then(h, "issue")
    BY <1>5 DEF IssueTokens
<1>6. ASSUME NEW h \in Handlers, RevokeToken(h) PROVE Then(h, "revoke")
    BY <1>6 DEF RevokeToken
<1>7. ASSUME NEW t \in Tokens, EndToken(t) PROVE UNCHANGED handler
    BY <1>7 DEF EndToken
<1> QED
    BY <1>1, <1>2, <1>3, <1>4, <1>5, <1>6, <1>7 DEF SessionNext

\* What changes the tokens.
LEMMA TokenSteps ==
    ASSUME [SessionNext]_sessionVars
    PROVE  \/ UNCHANGED <<token, login, knew, ended>>
           \/ \E h \in Handlers : ResetPassword(h) \/ RevokeToken(h) \/ \E t \in Tokens : IssueTokens(h, t)
           \/ \E t \in Tokens : EndToken(t)
<1>1. CASE UNCHANGED sessionVars
    BY <1>1 DEF sessionVars, tokenVars
<1>2. CASE Register
    BY <1>2 DEF Register, tokenVars
<1>3. ASSUME NEW p \in Purposes, SendCode(p) \/ CodeExpires(p) PROVE UNCHANGED <<token, login, knew, ended>>
    BY <1>3 DEF SendCode, CodeExpires, tokenVars
<1>4. ASSUME NEW h \in Handlers, WrongCode(h) \/ ConfirmPhone(h) \/ Login(h) \/ HandlerDies(h)
      PROVE  UNCHANGED <<token, login, knew, ended>>
    BY <1>4 DEF WrongCode, ConfirmPhone, Login, HandlerDies, tokenVars
<1>5. ASSUME NEW h \in Handlers, NEW p \in Purposes, ReadCode(h, p)
      PROVE  UNCHANGED <<token, login, knew, ended>>
    BY <1>5 DEF ReadCode, tokenVars
<1>6. ASSUME NEW h \in Handlers, NEW t \in Tokens, ReadToken(h, t)
      PROVE  UNCHANGED <<token, login, knew, ended>>
    BY <1>6 DEF ReadToken, tokenVars
<1> QED
    BY <1>1, <1>2, <1>3, <1>4, <1>5, <1>6 DEF SessionNext

\* What changes the account, and what is remembered of the history.
LEMMA AccountSteps ==
    ASSUME SessionTypes, [SessionNext]_sessionVars
    PROVE  /\ account' \in UserStatuses /\ hasWallet' \in BOOLEAN /\ password' \in 0..MaxResets
           /\ overlapped' \in BOOLEAN /\ died' \in BOOLEAN
           /\ overlapped => overlapped'
           /\ died => died'
           /\ (account = "ACTIVE" <=> hasWallet) => (account' = "ACTIVE" <=> hasWallet')
<1> USE DEF accountVars, UserStatuses
<1>0. /\ account \in UserStatuses /\ hasWallet \in BOOLEAN /\ password \in 0..MaxResets
      /\ overlapped \in BOOLEAN /\ died \in BOOLEAN /\ MaxResets \in Nat
    BY SessionAssumption DEF SessionTypes, SessionTypeOK
<1>1. CASE UNCHANGED sessionVars
    BY <1>0, <1>1 DEF sessionVars
<1>2. CASE Register
    BY <1>0, <1>2 DEF Register
<1>3. ASSUME NEW p \in Purposes, SendCode(p) \/ CodeExpires(p)
      PROVE  UNCHANGED <<accountVars, overlapped, died>>
    BY <1>3 DEF SendCode, CodeExpires
<1>4. ASSUME NEW h \in Handlers, NEW p \in Purposes, ReadCode(h, p)
      PROVE  UNCHANGED <<accountVars, overlapped, died>>
    BY <1>4 DEF ReadCode
<1>5. ASSUME NEW h \in Handlers, WrongCode(h) \/ Login(h) \/ RevokeToken(h)
      PROVE  UNCHANGED <<accountVars, overlapped, died>>
    BY <1>5 DEF WrongCode, Login, RevokeToken
<1>6. ASSUME NEW h \in Handlers, ConfirmPhone(h)
      PROVE  account' = "ACTIVE" /\ hasWallet' = TRUE /\ UNCHANGED <<password, overlapped, died>>
    BY <1>6 DEF ConfirmPhone
<1>7. ASSUME NEW h \in Handlers, ResetPassword(h)
      PROVE  /\ UNCHANGED <<account, hasWallet, died>> /\ password' \in 0..MaxResets
             /\ overlapped' \in BOOLEAN /\ (overlapped => overlapped')
    BY <1>0, <1>7 DEF ResetPassword
<1>8. ASSUME NEW h \in Handlers, NEW t \in Tokens, ReadToken(h, t) \/ IssueTokens(h, t)
      PROVE  UNCHANGED <<accountVars, died>> /\ overlapped' \in BOOLEAN /\ (overlapped => overlapped')
    BY <1>0, <1>8 DEF ReadToken, IssueTokens
<1>9. ASSUME NEW t \in Tokens, EndToken(t)
      PROVE  UNCHANGED <<accountVars, died>> /\ overlapped' \in BOOLEAN /\ (overlapped => overlapped')
    BY <1>0, <1>9 DEF EndToken
<1>10. ASSUME NEW h \in Handlers, HandlerDies(h)
       PROVE  UNCHANGED <<accountVars, overlapped>> /\ died' = TRUE
    BY <1>10 DEF HandlerDies
<1> QED
    BY <1>0, <1>1, <1>2, <1>3, <1>4, <1>5, <1>6, <1>7, <1>8, <1>9, <1>10 DEF SessionNext

\* Every step keeps the types.
LEMMA TypesKept ==
    ASSUME SessionIInv, [SessionNext]_sessionVars
    PROVE  SessionTypes'
<1> DEFINE Requests == [pc : HandlerPCs, of : Tokens \cup {NoToken}, purpose : Purposes,
                        number : 0..MaxCodes, pass : 0..MaxResets]
           Codes == [number : 0..MaxCodes, state : CodeStates, attempts : Nat]
<1>1. /\ account \in UserStatuses /\ hasWallet \in BOOLEAN /\ password \in 0..MaxResets
      /\ code \in [Purposes -> Codes] /\ token \in [Tokens -> TokenStates]
      /\ login \in [Tokens -> Tokens \cup {NoToken}] /\ knew \in [Tokens -> 0..MaxResets]
      /\ handler \in [Handlers -> Requests] /\ ended \subseteq Tokens
      /\ overlapped \in BOOLEAN /\ died \in BOOLEAN /\ NoRequestYet \in Requests
      /\ MaxResets \in Nat /\ MaxCodes \in Nat /\ NoToken \notin Tokens
      /\ \A t \in Tokens : token[t] # "NONE" => login[t] \in Tokens /\ token[login[t]] # "NONE"
    BY NoRequestIs, SessionAssumption DEF SessionIInv, SessionTypes, SessionTypeOK
<1>2. /\ \A h \in Handlers : handler[h] = [handler[h] EXCEPT !.pc = handler[h].pc]
      /\ \A p \in Purposes : code[p].number \in 0..MaxCodes /\ code[p].state \in CodeStates
                             /\ code[p].attempts \in Nat
      /\ \A h \in Handlers : handler[h].of \in Tokens \cup {NoToken} /\ handler[h].purpose \in Purposes
                             /\ handler[h].number \in 0..MaxCodes /\ handler[h].pass \in 0..MaxResets
    BY <1>1
<1>3. /\ account' \in UserStatuses /\ hasWallet' \in BOOLEAN /\ password' \in 0..MaxResets
      /\ overlapped' \in BOOLEAN /\ died' \in BOOLEAN
    BY AccountSteps DEF SessionIInv
<1>4. code' \in [Purposes -> Codes]
    <2>1. ASSUME NEW p \in Purposes, NewCode(p) PROVE code' \in [Purposes -> Codes]
        BY <1>1, <1>2, <2>1 DEF NewCode, CodeStates
    <2>2. ASSUME NEW h \in Handlers PROVE Consumed(h) \in [Purposes -> Codes]
        BY <1>1, <1>2 DEF Consumed, CodeStates
    <2>3. ASSUME NEW h \in Handlers, WrongCode(h) PROVE code' \in [Purposes -> Codes]
        BY <1>1, <1>2, <2>3 DEF WrongCode
    <2>4. ASSUME NEW p \in Purposes, CodeExpires(p) PROVE code' \in [Purposes -> Codes]
        BY <1>1, <1>2, <2>4 DEF CodeExpires, CodeStates
    <2> QED
        BY <1>1, <2>1, <2>2, <2>3, <2>4, CodeSteps
<1>5. handler' \in [Handlers -> Requests]
    <2>1. ASSUME NEW h \in Handlers, Done(h) PROVE handler' \in [Handlers -> Requests]
        BY <1>1, <2>1 DEF Done
    <2>2. ASSUME NEW h \in Handlers, NEW p \in Purposes, ReadCode(h, p)
          PROVE  handler' \in [Handlers -> Requests]
        <3>1. PICK pc \in {"guess", "consume"} :
                  handler' = [handler EXCEPT ![h] = [@ EXCEPT !.pc = pc, !.purpose = p,
                                                              !.number = code[p].number]]
            BY <2>2 DEF ReadCode
        <3>2. pc \in HandlerPCs
            BY DEF HandlerPCs
        <3> QED BY <1>1, <1>2, <3>1, <3>2
    <2>3. ASSUME NEW h \in Handlers, Login(h) PROVE handler' \in [Handlers -> Requests]
        BY <1>1, <1>2, <2>3 DEF Login, HandlerPCs
    <2>4. ASSUME NEW h \in Handlers, NEW t \in Tokens, ReadToken(h, t)
          PROVE  handler' \in [Handlers -> Requests]
        BY <1>1, <1>2, <2>4, StepsAre DEF ReadToken, HandlerPCs
    <2>5. ASSUME NEW h \in Handlers, Then(h, "issue") \/ Then(h, "revoke")
          PROVE  handler' \in [Handlers -> Requests]
        BY <1>1, <1>2, <2>5, StepsAre DEF HandlerPCs
    <2> QED
        BY <1>1, <2>1, <2>2, <2>3, <2>4, <2>5, RequestSteps
<1>6. /\ token' \in [Tokens -> TokenStates] /\ login' \in [Tokens -> Tokens \cup {NoToken}]
      /\ knew' \in [Tokens -> 0..MaxResets] /\ ended' \subseteq Tokens
      /\ \A t \in Tokens : token'[t] # "NONE" => login'[t] \in Tokens /\ token'[login'[t]] # "NONE"
    <2>1. ASSUME NEW h \in Handlers, ResetPassword(h)
          PROVE  /\ token' \in [Tokens -> TokenStates] /\ UNCHANGED <<login, knew>> /\ ended' \subseteq Tokens
                 /\ \A t \in Tokens : token'[t] # "NONE" <=> token[t] # "NONE"
        BY <1>1, <2>1 DEF ResetPassword, EndsSessions, TokenStates
    <2>2. ASSUME NEW h \in Handlers, RevokeToken(h)
          PROVE  /\ token' \in [Tokens -> TokenStates] /\ UNCHANGED <<login, knew>> /\ ended' \subseteq Tokens
                 /\ \A t \in Tokens : token'[t] # "NONE" <=> token[t] # "NONE"
        <3>1. handler[h].of \in Tokens /\ token[handler[h].of] # "NONE"
            BY <1>2, <2>2 DEF RevokeToken, SessionIInv, RequestsKnow
        <3> QED BY <1>1, <2>2, <3>1 DEF RevokeToken, TokenStates
    <2>3. ASSUME NEW t \in Tokens, EndToken(t)
          PROVE  /\ token' \in [Tokens -> TokenStates] /\ UNCHANGED <<login, knew>> /\ ended' \subseteq Tokens
                 /\ \A x \in Tokens : token'[x] # "NONE" <=> token[x] # "NONE"
        BY <1>1, <2>3 DEF EndToken, TokenStates
    <2>4. ASSUME NEW h \in Handlers, NEW t \in Tokens, IssueTokens(h, t)
          PROVE  /\ token' \in [Tokens -> TokenStates] /\ login' \in [Tokens -> Tokens \cup {NoToken}]
                 /\ knew' \in [Tokens -> 0..MaxResets] /\ ended' \subseteq Tokens
                 /\ \A x \in Tokens : token'[x] # "NONE" => login'[x] \in Tokens /\ token'[login'[x]] # "NONE"
        <3>1. handler[h].of # NoToken => handler[h].of \in Tokens /\ token[handler[h].of] # "NONE"
            BY <1>2 DEF SessionIInv, RequestsKnow
        <3> QED BY <1>1, <1>2, <2>4, <3>1 DEF IssueTokens, TokenStates
    <2> QED
        BY <1>1, <2>1, <2>2, <2>3, <2>4, TokenSteps
<1> QED
    BY <1>3, <1>4, <1>5, <1>6 DEF SessionTypes, SessionTypeOK

-----------------------------------------------------------------------------
(* The attempts.                                                           *)

\* What a step does to the attempts of a code, and to those still to count.
LEMMA GuessMoves ==
    ASSUME SessionTypes, [SessionNext]_sessionVars, NEW p \in Purposes
    PROVE  \/ code'[p].attempts \in 0..(MaxAttempts - 1)
           \/ code'[p].attempts = code[p].attempts /\ Guessing(p)' \subseteq Guessing(p)
           \/ \E h \in Guessing(p) : /\ code'[p].attempts = code[p].attempts + 1
                                     /\ Guessing(p)' \subseteq Guessing(p) \ {h}
<1> USE DEF Guessing
<1>0. /\ code \in [Purposes -> [number : 0..MaxCodes, state : CodeStates, attempts : Nat]]
      /\ handler \in [Handlers -> [pc : HandlerPCs, of : Tokens \cup {NoToken}, purpose : Purposes,
                                   number : 0..MaxCodes, pass : 0..MaxResets]]
      /\ MaxAttempts \in Nat \ {0} /\ MaxCodes \in Nat
    BY SessionAssumption DEF SessionTypes, SessionTypeOK
<1>1. CASE UNCHANGED <<code, handler>>
    BY <1>1
<1>2. ASSUME NEW q \in Purposes, NewCode(q), UNCHANGED handler
      PROVE  \/ code'[p].attempts \in 0..(MaxAttempts - 1)
             \/ code'[p].attempts = code[p].attempts /\ Guessing(p)' \subseteq Guessing(p)
    <2>1. CASE q = p
        BY <1>0, <1>2, <2>1 DEF NewCode
    <2>2. CASE q # p
        BY <1>0, <1>2, <2>2 DEF NewCode
    <2> QED BY <2>1, <2>2
<1>3. ASSUME NEW q \in Purposes, CodeExpires(q)
      PROVE  code'[p].attempts = code[p].attempts /\ Guessing(p)' \subseteq Guessing(p)
    BY <1>0, <1>3 DEF CodeExpires
<1>4. ASSUME NEW h \in Handlers, NEW q \in Purposes, ReadCode(h, q)
      PROVE  \/ code'[p].attempts \in 0..(MaxAttempts - 1)
             \/ code'[p].attempts = code[p].attempts /\ Guessing(p)' \subseteq Guessing(p)
    <2>1. CASE q = p
        <3>1. code' = code /\ code[p].attempts \in Nat /\ code[p].attempts < MaxAttempts
            BY <1>0, <1>4, <2>1 DEF ReadCode, TakesAttempts
        <3> QED BY <1>0, <3>1
    <2>2. CASE q # p
        <3>1. PICK pc \in {"guess", "consume"} :
                  handler' = [handler EXCEPT ![h] = [@ EXCEPT !.pc = pc, !.purpose = q,
                                                              !.number = code[q].number]]
            BY <1>4 DEF ReadCode
        <3>2. code' = code
            BY <1>4 DEF ReadCode
        <3> QED BY <1>0, <2>2, <3>1, <3>2
    <2> QED BY <2>1, <2>2
<1>5. ASSUME NEW h \in Handlers, Done(h), code' = code \/ code' = Consumed(h)
      PROVE  code'[p].attempts = code[p].attempts /\ Guessing(p)' \subseteq Guessing(p)
    <2>1. code'[p].attempts = code[p].attempts /\ code'[p].number = code[p].number
        BY <1>0, <1>5 DEF Consumed
    <2>2. /\ handler'[h].pc = "idle"
          /\ \A i \in Handlers \ {h} : handler'[i] = handler[i]
        BY <1>0, <1>5 DEF Done, NoRequestYet
    <2> QED BY <2>1, <2>2
<1>6. ASSUME NEW h \in Handlers, WrongCode(h)
      PROVE  \/ code'[p].attempts = code[p].attempts /\ Guessing(p)' \subseteq Guessing(p)
             \/ \E i \in Guessing(p) : /\ code'[p].attempts = code[p].attempts + 1
                                       /\ Guessing(p)' \subseteq Guessing(p) \ {i}
    <2>1. /\ handler'[h].pc = "idle"
          /\ \A i \in Handlers \ {h} : handler'[i] = handler[i]
        BY <1>0, <1>6 DEF WrongCode, Done, NoRequestYet
    <2>2. code'[p].number = code[p].number
        BY <1>0, <1>6 DEF WrongCode
    <2>3. Guessing(p)' \subseteq Guessing(p) \ {h}
        BY <2>1, <2>2
    <2>4. CASE h \in Guessing(p)
        <3>1. code'[p].attempts = code[p].attempts + 1
            BY <1>0, <1>6, <2>4 DEF WrongCode
        <3> QED BY <2>3, <2>4, <3>1
    <2>5. CASE h \notin Guessing(p)
        <3>1. code'[p].attempts = code[p].attempts
            BY <1>0, <1>6, <2>5 DEF WrongCode
        <3> QED BY <2>3, <3>1
    <2> QED BY <2>4, <2>5
<1>7. ASSUME NEW h \in Handlers, code' = code, NEW pc \in {"issue", "revoke"},
             handler'[h].pc = pc, \A i \in Handlers \ {h} : handler'[i] = handler[i]
      PROVE  code'[p].attempts = code[p].attempts /\ Guessing(p)' \subseteq Guessing(p)
    BY <1>7
<1> DEFINE Tried == \/ code'[p].attempts \in 0..(MaxAttempts - 1)
                    \/ code'[p].attempts = code[p].attempts /\ Guessing(p)' \subseteq Guessing(p)
                    \/ \E h \in Guessing(p) : /\ code'[p].attempts = code[p].attempts + 1
                                              /\ Guessing(p)' \subseteq Guessing(p) \ {h}
<1>8. ASSUME UNCHANGED sessionVars PROVE Tried
    BY <1>1, <1>8 DEF sessionVars
<1>9. ASSUME Register PROVE Tried
    BY <1>2, <1>9 DEF Register, Purposes
<1>10. ASSUME NEW q \in Purposes, SendCode(q) PROVE Tried
    BY <1>2, <1>10 DEF SendCode
<1>11. ASSUME NEW h \in Handlers, ConfirmPhone(h) \/ ResetPassword(h) \/ HandlerDies(h) PROVE Tried
    BY <1>5, <1>11 DEF ConfirmPhone, ResetPassword, HandlerDies
<1>12. ASSUME NEW h \in Handlers, Then(h, "issue") \/ Then(h, "revoke"), code' = code PROVE Tried
    <2>1. CASE Done(h)
        BY <1>5, <1>12, <2>1
    <2>2. CASE handler' = [handler EXCEPT ![h].pc = "revoke"]
        BY <1>0, <1>7, <1>12, <2>2
    <2> QED BY <1>12, <2>1, <2>2, StepsAre DEF Done
<1>13. ASSUME NEW h \in Handlers, NEW t \in Tokens, IssueTokens(h, t) PROVE Tried
    BY <1>12, <1>13 DEF IssueTokens
<1>14. ASSUME NEW h \in Handlers, RevokeToken(h) PROVE Tried
    BY <1>12, <1>14 DEF RevokeToken
<1>15. ASSUME NEW h \in Handlers, Login(h) PROVE Tried
    <2>1. /\ code' = code /\ handler'[h].pc = "issue"
          /\ \A i \in Handlers \ {h} : handler'[i] = handler[i]
        BY <1>0, <1>15 DEF Login
    <2> QED BY <1>7, <2>1
<1>16. ASSUME NEW h \in Handlers, NEW t \in Tokens, ReadToken(h, t) PROVE Tried
    <2>1. /\ code' = code
          /\ handler' = [handler EXCEPT ![h] = [@ EXCEPT !.pc = "issue", !.of = t, !.pass = knew[t]]]
        BY <1>16, StepsAre DEF ReadToken
    <2>2. /\ handler'[h].pc = "issue"
          /\ \A i \in Handlers \ {h} : handler'[i] = handler[i]
        BY <1>0, <2>1
    <2> QED BY <1>7, <2>1, <2>2
<1>17. ASSUME NEW t \in Tokens, EndToken(t) PROVE Tried
    BY <1>1, <1>17 DEF EndToken
<1>18. ASSUME NEW h \in Handlers, WrongCode(h) PROVE Tried
    BY <1>6, <1>18
<1>19. ASSUME NEW q \in Purposes, CodeExpires(q) PROVE Tried
    BY <1>3, <1>19
<1>20. ASSUME NEW h \in Handlers, NEW q \in Purposes, ReadCode(h, q) PROVE Tried
    BY <1>4, <1>20
<1> HIDE DEF Guessing, Tried
<1>21. Tried
    <2>1. CASE SessionNext
        BY <2>1, <1>9, <1>10, <1>11, <1>13, <1>14, <1>15, <1>16, <1>17, <1>18, <1>19, <1>20
           DEF SessionNext
    <2> QED BY <1>8, <2>1
<1> QED
    BY <1>21 DEF Tried

\* Wrong codes are counted after bcrypt, by as many as read the code before.
LEMMA GuessesKept ==
    ASSUME SessionIInv, [SessionNext]_sessionVars
    PROVE  GuessesAreLimited'
<1> SUFFICES ASSUME NEW p \in Purposes
             PROVE  code'[p].attempts + Cardinality(Guessing(p)')
                        <= MaxAttempts - 1 + Cardinality(Handlers)
    BY DEF GuessesAreLimited, Guessing
<1>1. /\ code[p].attempts \in Nat /\ code'[p].attempts \in Nat /\ IsFiniteSet(Handlers)
      /\ MaxAttempts \in Nat /\ SessionTypes
    BY SessionAssumption, TypesKept DEF SessionIInv, SessionTypes, SessionTypeOK
<1>2. /\ Guessing(p) \subseteq Handlers /\ IsFiniteSet(Guessing(p))
      /\ Cardinality(Guessing(p)) \in Nat /\ Cardinality(Handlers) \in Nat
    BY <1>1, PartCounts DEF Guessing
<1>3. /\ Guessing(p)' \subseteq Handlers /\ Cardinality(Guessing(p)') \in Nat
      /\ Cardinality(Guessing(p)') <= Cardinality(Handlers)
    <2>1. Guessing(p)' \subseteq Handlers
        BY DEF Guessing
    <2> QED BY <1>1, <2>1, PartCounts
<1>4. code[p].attempts + Cardinality(Guessing(p)) <= MaxAttempts - 1 + Cardinality(Handlers)
    BY DEF SessionIInv, GuessesAreLimited
<1>5. CASE code'[p].attempts \in 0..(MaxAttempts - 1)
    BY <1>1, <1>2, <1>3, <1>5
<1>6. CASE code'[p].attempts = code[p].attempts /\ Guessing(p)' \subseteq Guessing(p)
    <2>1. Cardinality(Guessing(p)') <= Cardinality(Guessing(p))
        BY <1>2, <1>6, PartCounts
    <2> QED BY <1>1, <1>2, <1>3, <1>4, <1>6, <2>1
<1>7. ASSUME NEW h \in Guessing(p), code'[p].attempts = code[p].attempts + 1,
             Guessing(p)' \subseteq Guessing(p) \ {h}
      PROVE  code'[p].attempts + Cardinality(Guessing(p)') <= MaxAttempts - 1 + Cardinality(Handlers)
    <2>1. Cardinality(Guessing(p)') + 1 <= Cardinality(Guessing(p))
        BY <1>2, <1>7, OneLessCounts
    <2> QED BY <1>1, <1>2, <1>3, <1>4, <1>7, <2>1
<1> QED
    BY <1>1, <1>5, <1>6, <1>7, GuessMoves

-----------------------------------------------------------------------------
(* The sessions.                                                           *)

\* A step that is about no session.
SessionsRest ==
    /\ UNCHANGED <<token, login, knew, ended, password, overlapped, died>>
    /\ \A h \in Handlers :
        /\ handler'[h].of = handler[h].of
        /\ handler[h].pc \in {"issue", "revoke"} \/ handler'[h].pc \in {"issue", "revoke"} =>
               handler'[h] = handler[h]

\* Whatever a request does about a code, it is given no token.
LEMMA SessionSteps ==
    ASSUME SessionTypes, RequestsKnow, [SessionNext]_sessionVars
    PROVE  \/ SessionsRest
           \/ \E h \in Handlers : Login(h) \/ RevokeToken(h) \/ ResetPassword(h) \/ HandlerDies(h)
           \/ \E h \in Handlers, t \in Tokens : ReadToken(h, t)
           \/ \E h \in Handlers, t \in Tokens : IssueTokens(h, t)
           \/ \E t \in Tokens : EndToken(t)
<1> USE DEF SessionsRest
<1>0. /\ handler \in [Handlers -> [pc : HandlerPCs, of : Tokens \cup {NoToken}, purpose : Purposes,
                                   number : 0..MaxCodes, pass : 0..MaxResets]]
      /\ \A h \in Handlers : handler[h].of # NoToken => handler[h].pc \in {"issue", "revoke"}
    BY DEF SessionTypes, SessionTypeOK, RequestsKnow
<1>1. CASE UNCHANGED sessionVars
    BY <1>1 DEF sessionVars, accountVars, tokenVars
<1>2. CASE Register
    BY <1>2 DEF Register, tokenVars
<1>3. ASSUME NEW p \in Purposes, SendCode(p) \/ CodeExpires(p) PROVE SessionsRest
    BY <1>3 DEF SendCode, CodeExpires, accountVars, tokenVars
<1>4. ASSUME NEW h \in Handlers, NEW p \in Purposes, ReadCode(h, p) PROVE SessionsRest
    <2>1. PICK pc \in {"guess", "consume"} :
              handler' = [handler EXCEPT ![h] = [@ EXCEPT !.pc = pc, !.purpose = p,
                                                          !.number = code[p].number]]
        BY <1>4 DEF ReadCode
    <2>2. /\ handler'[h].of = handler[h].of /\ handler'[h].pc = pc
          /\ \A i \in Handlers \ {h} : handler'[i] = handler[i]
        BY <1>0, <2>1
    <2>3. handler[h].pc = "idle" /\ UNCHANGED <<accountVars, tokenVars, overlapped, died>>
        BY <1>4 DEF ReadCode
    <2> QED BY <2>2, <2>3 DEF accountVars, tokenVars
<1>5. ASSUME NEW h \in Handlers, WrongCode(h) \/ ConfirmPhone(h) PROVE SessionsRest
    <2>1. /\ handler[h].pc \in {"guess", "consume"} /\ Done(h)
          /\ UNCHANGED <<password, tokenVars, overlapped, died>>
        BY <1>5 DEF WrongCode, ConfirmPhone, accountVars
    <2>2. /\ handler'[h].of = NoToken /\ handler'[h].pc = "idle"
          /\ \A i \in Handlers \ {h} : handler'[i] = handler[i]
        BY <1>0, <2>1 DEF Done, NoRequestYet
    <2> QED BY <1>0, <2>1, <2>2 DEF tokenVars
<1> HIDE DEF SessionsRest
<1> QED
    BY <1>1, <1>2, <1>3, <1>4, <1>5 DEF SessionNext

\* What each of the other steps does to the requests.
LEMMA RequestsMove ==
    ASSUME SessionTypes, NEW h \in Handlers
    PROVE  /\ Done(h) =>
               /\ handler'[h].pc = "idle" /\ handler'[h].of = NoToken
               /\ \A i \in Handlers \ {h} : handler'[i] = handler[i]
           /\ Login(h) =>
               /\ handler'[h].pc = "issue" /\ handler'[h].of = handler[h].of
               /\ handler'[h].pass = password
               /\ \A i \in Handlers \ {h} : handler'[i] = handler[i]
               /\ handler[h].pc = "idle"
               /\ UNCHANGED <<token, login, knew, ended, password, overlapped, died>>
           /\ \A t \in Tokens : ReadToken(h, t) =>
               /\ handler'[h].pc = "issue" /\ handler'[h].of = t /\ handler'[h].pass = knew[t]
               /\ \A i \in Handlers \ {h} : handler'[i] = handler[i]
               /\ handler[h].pc = "idle" /\ token[t] = "LIVE"
               /\ ~overlapped' => ~overlapped /\ \A i \in Handlers : handler[i].of # t
               /\ UNCHANGED <<token, login, knew, ended, password, died>>
           /\ Then(h, "issue") =>
               /\ \A i \in Handlers \ {h} : handler'[i] = handler[i]
               /\ handler[h].of # NoToken =>
                      handler'[h].pc = "revoke" /\ handler'[h].of = handler[h].of
               /\ handler[h].of = NoToken => handler'[h].pc = "idle" /\ handler'[h].of = NoToken
<1>0. handler \in [Handlers -> [pc : HandlerPCs, of : Tokens \cup {NoToken}, purpose : Purposes,
                                number : 0..MaxCodes, pass : 0..MaxResets]]
    BY DEF SessionTypes, SessionTypeOK
<1>1. Done(h) => /\ handler'[h].pc = "idle" /\ handler'[h].of = NoToken
                 /\ \A i \in Handlers \ {h} : handler'[i] = handler[i]
    BY <1>0 DEF Done, NoRequestYet
<1>2. ASSUME Login(h)
      PROVE  /\ handler'[h].pc = "issue" /\ handler'[h].of = handler[h].of
             /\ handler'[h].pass = password
             /\ \A i \in Handlers \ {h} : handler'[i] = handler[i]
             /\ handler[h].pc = "idle"
             /\ UNCHANGED <<token, login, knew, ended, password, overlapped, died>>
    BY <1>0, <1>2 DEF Login, tokenVars, accountVars
<1>3. ASSUME NEW t \in Tokens, ReadToken(h, t)
      PROVE  /\ handler'[h].pc = "issue" /\ handler'[h].of = t /\ handler'[h].pass = knew[t]
             /\ \A i \in Handlers \ {h} : handler'[i] = handler[i]
             /\ handler[h].pc = "idle" /\ token[t] = "LIVE"
             /\ ~overlapped' => ~overlapped /\ \A i \in Handlers : handler[i].of # t
             /\ UNCHANGED <<token, login, knew, ended, password, died>>
    <2>1. handler' = [handler EXCEPT ![h] = [@ EXCEPT !.pc = "issue", !.of = t, !.pass = knew[t]]]
        BY <1>3, StepsAre DEF ReadToken
    <2>2. /\ handler'[h].pc = "issue" /\ handler'[h].of = t /\ handler'[h].pass = knew[t]
          /\ \A i \in Handlers \ {h} : handler'[i] = handler[i]
        BY <1>0, <2>1
    <2>3. /\ handler[h].pc = "idle" /\ token[t] = "LIVE"
          /\ UNCHANGED <<token, login, knew, ended, password, died>>
        BY <1>3 DEF ReadToken, tokenVars, accountVars
    <2>4. ~overlapped' => ~overlapped /\ \A i \in Handlers : handler[i].of # t
        BY <1>3 DEF ReadToken, Replacing
    <2> QED BY <2>2, <2>3, <2>4
<1>4. Then(h, "issue") =>
          /\ \A i \in Handlers \ {h} : handler'[i] = handler[i]
          /\ handler[h].of # NoToken => handler'[h].pc = "revoke" /\ handler'[h].of = handler[h].of
          /\ handler[h].of = NoToken => handler'[h].pc = "idle" /\ handler'[h].of = NoToken
    BY <1>0, <1>1, StepsAre DEF Done
<1> QED
    BY <1>1, <1>2, <1>3, <1>4

\* What a request that is replaced or ended does to the tokens.
LEMMA TokensMove ==
    ASSUME SessionTypes, RequestsKnow
    PROVE  /\ \A h \in Handlers : RevokeToken(h) =>
               /\ Done(h) /\ handler[h].pc = "revoke"
               /\ handler[h].of \in Tokens /\ token'[handler[h].of] = "REVOKED"
               /\ \A u \in Tokens \ {handler[h].of} : token'[u] = token[u]
               /\ UNCHANGED <<login, knew, ended, password, overlapped, died>>
           /\ \A t \in Tokens : EndToken(t) =>
               /\ token'[t] \in {"REVOKED", "EXPIRED"} /\ token[t] = "LIVE"
               /\ \A u \in Tokens \ {t} : token'[u] = token[u]
               /\ ended' = ended \cup {login[t]}
               /\ ~overlapped' => ~overlapped /\ \A i \in Handlers : handler[i].of # t
               /\ UNCHANGED <<handler, login, knew, password, died>>
           /\ \A h \in Handlers : ResetPassword(h) =>
               /\ Done(h) /\ handler[h].pc = "consume"
               /\ \A u \in Tokens : token'[u] # "LIVE" /\ (token[u] = "LIVE" => login[u] \in ended')
               /\ \A u \in Tokens : token'[u] = "NONE" <=> token[u] = "NONE"
               /\ ~overlapped' => ~overlapped /\ \A i \in Handlers : handler[i].pc \notin {"issue", "revoke"}
               /\ UNCHANGED <<login, knew, died>>
           /\ \A h \in Handlers, t \in Tokens : IssueTokens(h, t) =>
               /\ Then(h, "issue") /\ handler[h].pc = "issue"
               /\ token[t] = "NONE" /\ token'[t] = "LIVE" /\ knew'[t] = handler[h].pass
               /\ handler[h].of = NoToken => login'[t] = t
               /\ handler[h].of # NoToken => login'[t] = login[handler[h].of]
               /\ \A u \in Tokens \ {t} :
                      token'[u] = token[u] /\ login'[u] = login[u] /\ knew'[u] = knew[u]
               /\ UNCHANGED <<ended, password, overlapped, died>>
<1>0. /\ token \in [Tokens -> TokenStates] /\ login \in [Tokens -> Tokens \cup {NoToken}]
      /\ knew \in [Tokens -> 0..MaxResets]
      /\ \A h \in Handlers : handler[h].of \in Tokens \cup {NoToken}
      /\ \A h \in Handlers : handler[h].pc = "revoke" => handler[h].of # NoToken
    BY DEF SessionTypes, SessionTypeOK, RequestsKnow
<1>1. ASSUME NEW h \in Handlers, RevokeToken(h)
      PROVE  /\ Done(h) /\ handler[h].pc = "revoke"
             /\ handler[h].of \in Tokens /\ token'[handler[h].of] = "REVOKED"
             /\ \A u \in Tokens \ {handler[h].of} : token'[u] = token[u]
             /\ UNCHANGED <<login, knew, ended, password, overlapped, died>>
    <2>1. Done(h)
        BY <1>1, StepsAre DEF RevokeToken, Done
    <2> QED BY <1>0, <1>1, <2>1 DEF RevokeToken, accountVars
<1>2. ASSUME NEW t \in Tokens, EndToken(t)
      PROVE  /\ token'[t] \in {"REVOKED", "EXPIRED"} /\ token[t] = "LIVE"
             /\ \A u \in Tokens \ {t} : token'[u] = token[u]
             /\ ended' = ended \cup {login[t]}
             /\ ~overlapped' => ~overlapped /\ \A i \in Handlers : handler[i].of # t
             /\ UNCHANGED <<handler, login, knew, password, died>>
    <2>1. PICK end \in {"REVOKED", "EXPIRED"} : token' = [token EXCEPT ![t] = end]
        BY <1>2 DEF EndToken
    <2>2. ~overlapped' => ~overlapped /\ \A i \in Handlers : handler[i].of # t
        BY <1>2 DEF EndToken, Replacing
    <2>3. /\ token[t] = "LIVE" /\ ended' = ended \cup {login[t]}
          /\ UNCHANGED <<handler, login, knew, password, died>>
        BY <1>2 DEF EndToken, accountVars
    <2> QED BY <1>0, <2>1, <2>2, <2>3
<1>3. ASSUME NEW h \in Handlers, ResetPassword(h)
      PROVE  /\ Done(h) /\ handler[h].pc = "consume"
             /\ \A u \in Tokens : token'[u] # "LIVE" /\ (token[u] = "LIVE" => login[u] \in ended')
             /\ \A u \in Tokens : token'[u] = "NONE" <=> token[u] = "NONE"
             /\ ~overlapped' => ~overlapped /\ \A i \in Handlers : handler[i].pc \notin {"issue", "revoke"}
             /\ UNCHANGED <<login, knew, died>>
    <2>1. \A u \in Tokens : token'[u] = IF token[u] = "LIVE" THEN "REVOKED" ELSE token[u]
        BY <1>3 DEF ResetPassword, EndsSessions
    <2>2. \A u \in Tokens : token[u] = "LIVE" => login[u] \in ended'
        BY <1>3 DEF ResetPassword, EndsSessions
    <2>3. ~overlapped' => ~overlapped /\ \A i \in Handlers : handler[i].pc \notin {"issue", "revoke"}
        BY <1>3 DEF ResetPassword
    <2>4. Done(h) /\ handler[h].pc = "consume" /\ UNCHANGED <<login, knew, died>>
        BY <1>3 DEF ResetPassword
    <2> QED BY <2>1, <2>2, <2>3, <2>4
<1>4. ASSUME NEW h \in Handlers, NEW t \in Tokens, IssueTokens(h, t)
      PROVE  /\ Then(h, "issue") /\ handler[h].pc = "issue"
             /\ token[t] = "NONE" /\ token'[t] = "LIVE" /\ knew'[t] = handler[h].pass
             /\ handler[h].of = NoToken => login'[t] = t
             /\ handler[h].of # NoToken => login'[t] = login[handler[h].of]
             /\ \A u \in Tokens \ {t} :
                    token'[u] = token[u] /\ login'[u] = login[u] /\ knew'[u] = knew[u]
             /\ UNCHANGED <<ended, password, overlapped, died>>
    BY <1>0, <1>4 DEF IssueTokens, accountVars
<1> QED
    BY <1>1, <1>2, <1>3, <1>4

\* A request that dies.
LEMMA DeathIs ==
    ASSUME NEW h \in Handlers, HandlerDies(h)
    PROVE  /\ Done(h) /\ died' = TRUE
           /\ UNCHANGED <<token, login, knew, ended, password, overlapped>>
BY DEF HandlerDies, accountVars, tokenVars

\* A token is in the hands of one request, which knows the password of then.
LEMMA RequestsKept ==
    ASSUME SessionIInv, [SessionNext]_sessionVars
    PROVE  RequestsKnow'
<1>1. SessionTypes /\ RequestsKnow /\ ResetEndsSessions
    BY DEF SessionIInv
<1>2. \A h \in Handlers : handler[h].of \in Tokens \cup {NoToken} /\ NoToken \notin Tokens
    BY <1>1, SessionAssumption DEF SessionTypes, SessionTypeOK
<1>3. CASE SessionsRest
    BY <1>1, <1>3 DEF SessionsRest, RequestsKnow
<1>4. ASSUME NEW h \in Handlers, Login(h) PROVE RequestsKnow'
    BY <1>1, <1>4, RequestsMove DEF RequestsKnow
<1>5. ASSUME NEW h \in Handlers, NEW t \in Tokens, ReadToken(h, t) PROVE RequestsKnow'
    <2>1. /\ handler'[h].pc = "issue" /\ handler'[h].of = t /\ handler'[h].pass = knew[t]
          /\ \A i \in Handlers \ {h} : handler'[i] = handler[i]
          /\ token[t] = "LIVE"
          /\ ~overlapped' => ~overlapped /\ \A i \in Handlers : handler[i].of # t
          /\ UNCHANGED <<token, password>>
        BY <1>1, <1>5, RequestsMove
    <2>2. ~overlapped' => knew[t] = password
        BY <1>1, <2>1 DEF ResetEndsSessions
    <2> QED BY <1>1, <2>1, <2>2 DEF RequestsKnow
<1>6. ASSUME NEW h \in Handlers, NEW t \in Tokens, IssueTokens(h, t) PROVE RequestsKnow'
    <2>1. /\ Then(h, "issue") /\ token[t] = "NONE" /\ token'[t] = "LIVE"
          /\ \A u \in Tokens \ {t} : token'[u] = token[u]
          /\ UNCHANGED <<password, overlapped>>
        BY <1>1, <1>6, TokensMove
    <2>2. /\ \A i \in Handlers \ {h} : handler'[i] = handler[i]
          /\ handler[h].of # NoToken => handler'[h].pc = "revoke" /\ handler'[h].of = handler[h].of
          /\ handler[h].of = NoToken => handler'[h].pc = "idle" /\ handler'[h].of = NoToken
        BY <1>1, <2>1, RequestsMove
    <2> QED BY <1>1, <1>2, <2>1, <2>2 DEF RequestsKnow
<1>7. ASSUME NEW h \in Handlers, RevokeToken(h) PROVE RequestsKnow'
    <2>1. /\ Done(h) /\ handler[h].of \in Tokens /\ token'[handler[h].of] = "REVOKED"
          /\ \A u \in Tokens \ {handler[h].of} : token'[u] = token[u]
          /\ UNCHANGED <<password, overlapped>>
        BY <1>1, <1>7, TokensMove
    <2>2. /\ handler'[h].pc = "idle" /\ handler'[h].of = NoToken
          /\ \A i \in Handlers \ {h} : handler'[i] = handler[i]
        BY <1>1, <2>1, RequestsMove
    <2> QED BY <1>1, <1>2, <2>1, <2>2 DEF RequestsKnow
<1>8. ASSUME NEW h \in Handlers, ResetPassword(h) PROVE RequestsKnow'
    <2>1. /\ Done(h)
          /\ \A u \in Tokens : token'[u] = "NONE" <=> token[u] = "NONE"
          /\ ~overlapped' => ~overlapped /\ \A i \in Handlers : handler[i].pc \notin {"issue", "revoke"}
        BY <1>1, <1>8, TokensMove
    <2>2. /\ handler'[h].pc = "idle" /\ handler'[h].of = NoToken
          /\ \A i \in Handlers \ {h} : handler'[i] = handler[i]
        BY <1>1, <2>1, RequestsMove
    <2> QED BY <1>1, <1>2, <2>1, <2>2 DEF RequestsKnow
<1>9. ASSUME NEW t \in Tokens, EndToken(t) PROVE RequestsKnow'
    BY <1>1, <1>2, <1>9, TokensMove DEF RequestsKnow
<1>10. ASSUME NEW h \in Handlers, HandlerDies(h) PROVE RequestsKnow'
    <2>1. Done(h) /\ UNCHANGED <<token, password, overlapped>>
        BY <1>10, DeathIs
    <2>2. /\ handler'[h].pc = "idle" /\ handler'[h].of = NoToken
          /\ \A i \in Handlers \ {h} : handler'[i] = handler[i]
        BY <1>1, <2>1, RequestsMove
    <2> QED BY <1>1, <1>2, <2>1, <2>2 DEF RequestsKnow
<1> QED
    BY <1>1, <1>3, <1>4, <1>5, <1>6, <1>7, <1>8, <1>9, <1>10, SessionSteps

\* A session is lost by nothing but a logout, an expiry or a reset.
LEMMA SessionsKept ==
    ASSUME SessionIInv, [SessionNext]_sessionVars
    PROVE  SessionsStay'
<1>1. SessionTypes /\ RequestsKnow /\ SessionsStay
    BY DEF SessionIInv
<1>2. /\ \A h \in Handlers : handler[h].of \in Tokens \cup {NoToken} /\ NoToken \notin Tokens
      /\ \A u \in Tokens : token[u] # "NONE" => login[u] \in Tokens /\ token[login[u]] # "NONE"
    BY <1>1, SessionAssumption DEF SessionTypes, SessionTypeOK
<1> SUFFICES ASSUME NEW t \in Tokens, login'[t] = t, t \notin ended'
             PROVE  \E u \in Tokens : login'[u] = t /\ Stays(u)'
    BY DEF SessionsStay
<1> DEFINE StaysOn == \E u \in Tokens : login'[u] = t /\ Stays(u)'
<1>3. ASSUME NEW u \in Tokens, login'[u] = t, token'[u] = "LIVE",
             \A h \in Handlers : handler'[h].pc = "revoke" => handler'[h].of # u
      PROVE  StaysOn
    BY <1>3 DEF Stays
<1>4. login[t] = t /\ t \notin ended => \E u \in Tokens : login[u] = t /\ Stays(u)
    BY <1>1 DEF SessionsStay
<1> HIDE DEF StaysOn
<1>5. ASSUME SessionsRest PROVE StaysOn
    <2>1. PICK u \in Tokens : login[u] = t /\ Stays(u)
        BY <1>4, <1>5 DEF SessionsRest
    <2> QED BY <1>3, <1>5, <2>1 DEF SessionsRest, Stays
<1>6. ASSUME NEW h \in Handlers, handler'[h].pc \in {"idle", "issue"},
             \A i \in Handlers \ {h} : handler'[i] = handler[i], UNCHANGED <<token, login, ended>>
      PROVE  StaysOn
    <2>1. PICK u \in Tokens : login[u] = t /\ Stays(u)
        BY <1>4, <1>6
    <2> QED BY <1>3, <1>6, <2>1 DEF Stays
<1>7. ASSUME NEW h \in Handlers, Login(h) PROVE StaysOn
    BY <1>1, <1>6, <1>7, RequestsMove
<1>8. ASSUME NEW h \in Handlers, NEW x \in Tokens, ReadToken(h, x) PROVE StaysOn
    BY <1>1, <1>6, <1>8, RequestsMove
<1>9. ASSUME NEW h \in Handlers, HandlerDies(h) PROVE StaysOn
    BY <1>1, <1>6, <1>9, RequestsMove, DeathIs
<1>10. ASSUME NEW h \in Handlers, NEW x \in Tokens, IssueTokens(h, x) PROVE StaysOn
    <2>1. /\ Then(h, "issue") /\ handler[h].pc = "issue"
          /\ token[x] = "NONE" /\ token'[x] = "LIVE"
          /\ handler[h].of = NoToken => login'[x] = x
          /\ handler[h].of # NoToken => login'[x] = login[handler[h].of]
          /\ \A u \in Tokens \ {x} : token'[u] = token[u] /\ login'[u] = login[u]
          /\ UNCHANGED ended
        BY <1>1, <1>10, TokensMove
    <2>2. /\ \A i \in Handlers \ {h} : handler'[i] = handler[i]
          /\ handler[h].of # NoToken => handler'[h].pc = "revoke" /\ handler'[h].of = handler[h].of
          /\ handler[h].of = NoToken => handler'[h].pc = "idle" /\ handler'[h].of = NoToken
        BY <1>1, <2>1, RequestsMove
    <2>3. \A i \in Handlers : handler'[i].pc = "revoke" => handler'[i].of # x
        BY <1>1, <1>2, <2>1, <2>2 DEF RequestsKnow
    <2>4. CASE login'[x] = t
        BY <1>3, <2>1, <2>3, <2>4
    <2>5. CASE login'[x] # t
        <3>1. PICK u \in Tokens : login[u] = t /\ Stays(u)
            BY <1>4, <2>1, <2>5
        <3>2. u # x /\ u # handler[h].of
            BY <1>2, <2>1, <2>5, <3>1 DEF Stays
        <3> QED BY <1>3, <2>1, <2>2, <3>1, <3>2 DEF Stays
    <2> QED BY <2>4, <2>5
<1>11. ASSUME NEW h \in Handlers, RevokeToken(h) PROVE StaysOn
    <2>1. /\ Done(h) /\ handler[h].pc = "revoke"
          /\ \A u \in Tokens \ {handler[h].of} : token'[u] = token[u]
          /\ UNCHANGED <<login, ended>>
        BY <1>1, <1>11, TokensMove
    <2>2. handler'[h].pc = "idle" /\ \A i \in Handlers \ {h} : handler'[i] = handler[i]
        BY <1>1, <2>1, RequestsMove
    <2>3. PICK u \in Tokens : login[u] = t /\ Stays(u)
        BY <1>4, <2>1
    <2> QED BY <1>3, <2>1, <2>2, <2>3 DEF Stays
<1>12. ASSUME NEW h \in Handlers, ResetPassword(h) PROVE StaysOn
    <2>1. /\ \A u \in Tokens : token[u] = "LIVE" => login[u] \in ended'
          /\ UNCHANGED login
        BY <1>1, <1>12, TokensMove
    <2>2. ended \subseteq ended'
        BY <1>12 DEF ResetPassword
    <2> QED BY <1>4, <2>1, <2>2 DEF Stays
<1>13. ASSUME NEW x \in Tokens, EndToken(x) PROVE StaysOn
    <2>1. /\ \A u \in Tokens \ {x} : token'[u] = token[u]
          /\ ended' = ended \cup {login[x]}
          /\ UNCHANGED <<handler, login>>
        BY <1>1, <1>13, TokensMove
    <2>2. PICK u \in Tokens : login[u] = t /\ Stays(u)
        BY <1>4, <2>1
    <2> QED BY <1>3, <2>1, <2>2 DEF Stays
<1>14. StaysOn
    BY <1>1, <1>5, <1>7, <1>8, <1>9, <1>10, <1>11, <1>12, <1>13, SessionSteps
<1> QED
    BY <1>14 DEF StaysOn

\* A reset leaves no session of the password before.
LEMMA ResetKept ==
    ASSUME SessionIInv, [SessionNext]_sessionVars
    PROVE  ResetEndsSessions'
<1>1. SessionTypes /\ RequestsKnow /\ ResetEndsSessions
    BY DEF SessionIInv
<1>2. CASE SessionsRest
    BY <1>1, <1>2 DEF SessionsRest, ResetEndsSessions
<1>3. ASSUME NEW h \in Handlers, Login(h) \/ HandlerDies(h) PROVE ResetEndsSessions'
    BY <1>1, <1>3, RequestsMove, DeathIs DEF ResetEndsSessions
<1>4. ASSUME NEW h \in Handlers, NEW t \in Tokens, ReadToken(h, t) PROVE ResetEndsSessions'
    BY <1>1, <1>4, RequestsMove DEF ResetEndsSessions
<1>5. ASSUME NEW h \in Handlers, NEW t \in Tokens, IssueTokens(h, t) PROVE ResetEndsSessions'
    <2>1. /\ handler[h].pc = "issue" /\ knew'[t] = handler[h].pass
          /\ \A u \in Tokens \ {t} : token'[u] = token[u] /\ knew'[u] = knew[u]
          /\ UNCHANGED <<password, overlapped>>
        BY <1>1, <1>5, TokensMove
    <2> QED BY <1>1, <2>1 DEF ResetEndsSessions, RequestsKnow
<1>6. ASSUME NEW h \in Handlers, RevokeToken(h) PROVE ResetEndsSessions'
    <2>1. /\ handler[h].of \in Tokens /\ token'[handler[h].of] = "REVOKED"
          /\ \A u \in Tokens \ {handler[h].of} : token'[u] = token[u]
          /\ UNCHANGED <<knew, password, overlapped>>
        BY <1>1, <1>6, TokensMove
    <2> QED BY <1>1, <2>1 DEF ResetEndsSessions
<1>7. ASSUME NEW h \in Handlers, ResetPassword(h) PROVE ResetEndsSessions'
    BY <1>1, <1>7, TokensMove DEF ResetEndsSessions
<1>8. ASSUME NEW t \in Tokens, EndToken(t) PROVE ResetEndsSessions'
    BY <1>1, <1>8, TokensMove DEF ResetEndsSessions
<1> QED
    BY <1>1, <1>2, <1>3, <1>4, <1>5, <1>6, <1>7, <1>8, SessionSteps

\* Without overlaps and deaths, a session has a live token and those that are
\* about to be revoked.
LEMMA OneEachKept ==
    ASSUME SessionIInv, [SessionNext]_sessionVars
    PROVE  OneEach'
<1>1. SessionTypes /\ RequestsKnow
    BY DEF SessionIInv
<1>2. /\ \A h \in Handlers : handler[h].of \in Tokens \cup {NoToken} /\ NoToken \notin Tokens
      /\ \A u \in Tokens : token[u] # "NONE" => login[u] \in Tokens /\ token[login[u]] # "NONE"
    BY <1>1, SessionAssumption DEF SessionTypes, SessionTypeOK
<1> SUFFICES ASSUME ~overlapped', ~died', NEW t \in Tokens
             PROVE  Cardinality(LiveOf(t)') <= 1 + Cardinality(RevokersOf(t)')
    BY DEF OneEach, LiveOf, RevokersOf
<1> DEFINE One == Cardinality(LiveOf(t)') <= 1 + Cardinality(RevokersOf(t)')
<1>3. ~overlapped /\ ~died
    BY <1>1, AccountSteps
<1>4. Cardinality(LiveOf(t)) <= 1 + Cardinality(RevokersOf(t))
    BY <1>3 DEF SessionIInv, OneEach
<1>5. /\ IsFiniteSet(LiveOf(t)) /\ IsFiniteSet(RevokersOf(t)) /\ IsFiniteSet(RevokersOf(t)')
      /\ Cardinality(LiveOf(t)) \in Nat /\ Cardinality(RevokersOf(t)) \in Nat
      /\ Cardinality(RevokersOf(t)') \in Nat
    <2>1. /\ IsFiniteSet(Tokens) /\ IsFiniteSet(Handlers)
          /\ LiveOf(t) \subseteq Tokens /\ RevokersOf(t) \subseteq Handlers
          /\ RevokersOf(t)' \subseteq Handlers
        BY SessionAssumption DEF LiveOf, RevokersOf
    <2> QED BY <2>1, PartCounts
<1>6. ASSUME LiveOf(t)' \subseteq LiveOf(t), RevokersOf(t) \subseteq RevokersOf(t)' PROVE One
    <2>1. Cardinality(LiveOf(t)') <= Cardinality(LiveOf(t)) /\ Cardinality(LiveOf(t)') \in Nat
        BY <1>5, <1>6, PartCounts
    <2>2. Cardinality(RevokersOf(t)) <= Cardinality(RevokersOf(t)')
        BY <1>5, <1>6, PartCounts
    <2> QED BY <1>4, <1>5, <2>1, <2>2
<1>7. ASSUME NEW x, LiveOf(t)' \subseteq LiveOf(t) \cup {x},
             NEW h \in RevokersOf(t)', RevokersOf(t) \subseteq RevokersOf(t)' \ {h}
      PROVE  One
    <2>1. Cardinality(LiveOf(t)') <= Cardinality(LiveOf(t)) + 1 /\ Cardinality(LiveOf(t)') \in Nat
        BY <1>5, <1>7, OneMoreCounts
    <2>2. Cardinality(RevokersOf(t)) + 1 <= Cardinality(RevokersOf(t)')
        BY <1>5, <1>7, OneLessCounts
    <2> QED BY <1>4, <1>5, <2>1, <2>2
<1>8. ASSUME NEW x \in LiveOf(t), LiveOf(t)' \subseteq LiveOf(t) \ {x},
             NEW h, RevokersOf(t) \subseteq RevokersOf(t)' \cup {h}
      PROVE  One
    <2>1. Cardinality(LiveOf(t)') + 1 <= Cardinality(LiveOf(t)) /\ Cardinality(LiveOf(t)') \in Nat
        BY <1>5, <1>8, OneLessCounts
    <2>2. Cardinality(RevokersOf(t)) <= Cardinality(RevokersOf(t)') + 1
        BY <1>5, <1>8, OneMoreCounts
    <2> QED BY <1>4, <1>5, <2>1, <2>2
<1>9. ASSUME NEW x, LiveOf(t)' \subseteq {x} PROVE One
    <2>1. IsFiniteSet({x}) /\ Cardinality({x}) = 1
        BY FS_Singleton
    <2>2. Cardinality(LiveOf(t)') <= 1 /\ Cardinality(LiveOf(t)') \in Nat
        BY <1>9, <2>1, PartCounts
    <2> QED BY <1>5, <2>2
<1> HIDE DEF One
<1>10. ASSUME SessionsRest PROVE One
    <2>1. LiveOf(t)' \subseteq LiveOf(t)
        BY <1>10 DEF SessionsRest, LiveOf
    <2>2. RevokersOf(t) \subseteq RevokersOf(t)'
        BY <1>10 DEF SessionsRest, RevokersOf
    <2> QED BY <1>6, <2>1, <2>2
<1>11. ASSUME NEW h \in Handlers, handler[h].pc # "revoke", \A i \in Handlers \ {h} : handler'[i] = handler[i],
              UNCHANGED login, \A u \in Tokens : token'[u] = "LIVE" => token[u] = "LIVE"
       PROVE  One
    <2>1. LiveOf(t)' \subseteq LiveOf(t)
        BY <1>11 DEF LiveOf
    <2>2. RevokersOf(t) \subseteq RevokersOf(t)'
        BY <1>11 DEF RevokersOf
    <2> QED BY <1>6, <2>1, <2>2
<1>12. ASSUME NEW h \in Handlers, Login(h) PROVE One
    BY <1>1, <1>11, <1>12, RequestsMove
<1>13. ASSUME NEW h \in Handlers, NEW x \in Tokens, ReadToken(h, x) PROVE One
    BY <1>1, <1>11, <1>13, RequestsMove
<1>14. ASSUME NEW h \in Handlers, ResetPassword(h) PROVE One
    BY <1>1, <1>11, <1>14, RequestsMove, TokensMove
<1>15. ASSUME NEW h \in Handlers, HandlerDies(h) PROVE One
    BY <1>15, DeathIs
<1>16. ASSUME NEW x \in Tokens, EndToken(x) PROVE One
    <2>1. /\ token'[x] # "LIVE" /\ \A u \in Tokens \ {x} : token'[u] = token[u]
          /\ UNCHANGED <<handler, login>>
        BY <1>1, <1>16, TokensMove
    <2>2. LiveOf(t)' \subseteq LiveOf(t)
        BY <2>1 DEF LiveOf
    <2>3. RevokersOf(t) \subseteq RevokersOf(t)'
        BY <2>1 DEF RevokersOf
    <2> QED BY <1>6, <2>2, <2>3
<1>17. ASSUME NEW h \in Handlers, RevokeToken(h) PROVE One
    <2>1. /\ Done(h) /\ handler[h].pc = "revoke"
          /\ handler[h].of \in Tokens /\ token'[handler[h].of] = "REVOKED"
          /\ \A u \in Tokens \ {handler[h].of} : token'[u] = token[u]
          /\ UNCHANGED login
        BY <1>1, <1>17, TokensMove
    <2>2. handler'[h].pc = "idle" /\ \A i \in Handlers \ {h} : handler'[i] = handler[i]
        BY <1>1, <2>1, RequestsMove
    <2>3. token[handler[h].of] = "LIVE"
        BY <1>1, <1>2, <1>3, <2>1 DEF RequestsKnow
    <2>4. LiveOf(t)' \subseteq LiveOf(t) \ {handler[h].of}
        BY <2>1 DEF LiveOf
    <2>5. RevokersOf(t) \subseteq RevokersOf(t)' \cup {h}
        BY <2>1, <2>2 DEF RevokersOf
    <2>6. CASE login[handler[h].of] = t
        <3>1. handler[h].of \in LiveOf(t)
            BY <2>1, <2>3, <2>6 DEF LiveOf
        <3> QED BY <1>8, <2>4, <2>5, <3>1
    <2>7. CASE login[handler[h].of] # t
        <3>1. RevokersOf(t) \subseteq RevokersOf(t)'
            BY <2>1, <2>2, <2>7 DEF RevokersOf
        <3> QED BY <1>6, <2>4, <3>1
    <2> QED BY <2>6, <2>7
<1>18. ASSUME NEW h \in Handlers, NEW x \in Tokens, IssueTokens(h, x) PROVE One
    <2>1. /\ Then(h, "issue") /\ handler[h].pc = "issue"
          /\ token[x] = "NONE" /\ token'[x] = "LIVE"
          /\ handler[h].of = NoToken => login'[x] = x
          /\ handler[h].of # NoToken => login'[x] = login[handler[h].of]
          /\ \A u \in Tokens \ {x} : token'[u] = token[u] /\ login'[u] = login[u]
        BY <1>1, <1>18, TokensMove
    <2>2. /\ \A i \in Handlers \ {h} : handler'[i] = handler[i]
          /\ handler[h].of # NoToken => handler'[h].pc = "revoke" /\ handler'[h].of = handler[h].of
        BY <1>1, <2>1, RequestsMove
    <2>3. \A i \in Handlers : handler[i].of # NoToken => handler[i].of # x /\ handler[i].of \in Tokens
        BY <1>1, <1>2, <2>1 DEF RequestsKnow
    <2>4. \A i \in Handlers : handler[i].pc = "revoke" => handler[i].of # NoToken /\ i # h
        BY <1>1, <2>1 DEF RequestsKnow
    <2>5. RevokersOf(t) \subseteq RevokersOf(t)' /\ h \notin RevokersOf(t)
        BY <2>1, <2>2, <2>3, <2>4 DEF RevokersOf
    <2>6. CASE login'[x] # t
        <3>1. LiveOf(t)' \subseteq LiveOf(t)
            BY <2>1, <2>6 DEF LiveOf
        <3> QED BY <1>6, <2>5, <3>1
    <2>7. CASE login'[x] = t /\ handler[h].of = NoToken
        <3>1. LiveOf(t)' \subseteq {x}
            BY <1>2, <2>1, <2>7 DEF LiveOf
        <3> QED BY <1>9, <3>1
    <2>8. CASE login'[x] = t /\ handler[h].of # NoToken
        <3>1. LiveOf(t)' \subseteq LiveOf(t) \cup {x}
            BY <2>1 DEF LiveOf
        <3>2. h \in RevokersOf(t)'
            BY <2>1, <2>2, <2>3, <2>8 DEF RevokersOf
        <3> QED BY <1>7, <2>5, <3>1, <3>2
    <2> QED BY <2>6, <2>7, <2>8
<1>19. One
    BY <1>1, <1>10, <1>12, <1>13, <1>14, <1>15, <1>16, <1>17, <1>18, SessionSteps
<1> QED
    BY <1>19 DEF One

-----------------------------------------------------------------------------
(* The theorem.                                                            *)

\* Nothing was done yet.
LEMMA InitSession == SessionInit => SessionIInv
<1> SUFFICES ASSUME SessionInit PROVE SessionIInv
    OBVIOUS
<1>1. SessionTypes
    <2>1. handler \in [Handlers -> [pc : HandlerPCs, of : Tokens \cup {NoToken}, purpose : Purposes,
                                   number : 0..MaxCodes, pass : 0..MaxResets]]
        BY NoRequestIs DEF SessionInit
    <2>2. account \in UserStatuses /\ password \in 0..MaxResets /\ ended \subseteq Tokens
        BY SessionAssumption, SMT DEF SessionInit, UserStatuses
    <2>5. hasWallet \in BOOLEAN /\ overlapped \in BOOLEAN /\ died \in BOOLEAN
        BY Zenon DEF SessionInit
    <2>3. code \in [Purposes -> [number : 0..MaxCodes, state : CodeStates, attempts : Nat]]
        BY SessionAssumption DEF SessionInit, CodeStates
    <2>4. /\ token \in [Tokens -> TokenStates] /\ login \in [Tokens -> Tokens \cup {NoToken}]
          /\ knew \in [Tokens -> 0..MaxResets] /\ knew \in [Tokens -> Nat]
          /\ \A t \in Tokens : token[t] = "NONE"
        BY SessionAssumption DEF SessionInit, TokenStates
    <2> QED BY <2>1, <2>2, <2>3, <2>4, <2>5 DEF SessionTypes, SessionTypeOK
<1>2. \A h \in Handlers : handler[h] = NoRequestYet
    BY DEF SessionInit
<1>3. RequestsKnow
    BY <1>2 DEF RequestsKnow, NoRequestYet
<1>4. SessionsStay
    BY SessionAssumption DEF SessionInit, SessionsStay
<1>5. OneEach
    <2>1. \A t \in Tokens : LiveOf(t) = {} /\ RevokersOf(t) = {}
        BY <1>2 DEF SessionInit, LiveOf, RevokersOf, NoRequestYet
    <2> QED BY <2>1, FS_EmptySet DEF OneEach
<1>6. GuessesAreLimited
    <2> SUFFICES ASSUME NEW p \in Purposes
                 PROVE  code[p].attempts + Cardinality(Guessing(p)) <= MaxAttempts - 1 + Cardinality(Handlers)
        BY DEF GuessesAreLimited
    <2>1. Guessing(p) = {} /\ code[p].attempts = 0
        BY <1>2 DEF SessionInit, Guessing, NoRequestYet
    <2>2. Cardinality(Handlers) \in Nat /\ MaxAttempts \in Nat \ {0}
        BY SessionAssumption, FS_CardinalityType
    <2>3. Cardinality(Guessing(p)) = 0
        BY <2>1, FS_EmptySet
    <2> QED BY <2>1, <2>2, <2>3
<1>7. ResetEndsSessions
    BY DEF SessionInit, ResetEndsSessions
<1> QED
    BY <1>1, <1>3, <1>4, <1>5, <1>6, <1>7 DEF SessionIInv, SessionInit

\* Every step keeps the invariant.
LEMMA SessionStep == SessionIInv /\ [SessionNext]_sessionVars => SessionIInv'
<1> SUFFICES ASSUME SessionIInv, [SessionNext]_sessionVars PROVE SessionIInv'
    OBVIOUS
<1>1. account' = "ACTIVE" <=> hasWallet'
    BY AccountSteps DEF SessionIInv
<1> QED
    BY <1>1, TypesKept, RequestsKept, SessionsKept, OneEachKept, GuessesKept, ResetKept DEF SessionIInv

\* The invariant is stronger than what the run checks.
LEMMA SessionShown == SessionIInv => SessionInv
<1> SUFFICES ASSUME SessionIInv PROVE SessionInv
    OBVIOUS
<1>1. SessionTypeOK
    BY DEF SessionIInv, SessionTypes
<1>2. SessionIsKept
    BY DEF SessionIInv, SessionsStay, Stays, SessionIsKept, Logins, LiveOf
<1>3. OneTokenPerSession
    BY DEF SessionIInv, OneEach, RevokersOf, OneTokenPerSession, Logins
<1>4. AttemptsAreLimited
    <2> SUFFICES ASSUME NEW p \in Purposes
                 PROVE  code[p].attempts <= MaxAttempts + Cardinality(Handlers) - 1
        BY DEF AttemptsAreLimited
    <2>1. Guessing(p) \subseteq Handlers
        BY DEF Guessing
    <2>2. Cardinality(Guessing(p)) \in Nat /\ Cardinality(Handlers) \in Nat /\ MaxAttempts \in Nat
        BY <2>1, SessionAssumption, PartCounts
    <2>3. code[p].attempts \in Nat
        BY DEF SessionIInv, SessionTypes, SessionTypeOK
    <2> QED BY <2>2, <2>3 DEF SessionIInv, GuessesAreLimited
<1> QED
    BY <1>1, <1>2, <1>3, <1>4 DEF SessionIInv, SessionInv

\* A session that nobody ended keeps a token, one unless requests overlapped, a
\* reset ends those of the password before, and codes take few attempts
\* (auth.service.ts).
THEOREM SessionInvariance == SessionSpec => []SessionInv
<1> QED
    BY InitSession, SessionStep, SessionShown, PTL DEF SessionSpec

-----------------------------------------------------------------------------
(***************************************************************************)
(* Prelaunch                                                               *)
(***************************************************************************)
-----------------------------------------------------------------------------
(* The inductive invariant.                                                *)

OtpRows == [state : OtpStates, sent : BOOLEAN, attempts : Nat, recent : BOOLEAN,
            done : BOOLEAN, proved : BOOLEAN]
LeadRows == [status : LeadStatuses, place : Nat, access : Nat, recovery : Nat,
             referredBy : Leads \cup {NoLead}]
Sights == [new : BOOLEAN, verified : BOOLEAN, recovery : Nat, referredBy : Leads \cup {NoLead}]
Visits == [pc : VisitorPCs, lead : Leads \cup {NoLead}, saw : Sights, link : Nat, otp : Nat,
           by : Leads \cup {NoLead}]

\* The types; a request that is served is about a lead.
PrelaunchTypes ==
    /\ lead \in [Leads -> LeadRows] /\ otps \in [Leads -> Seq(OtpRows)]
    /\ links \in [Leads -> Nat] /\ knownLinks \in [Leads -> SUBSET Nat]
    /\ funnel \in [Leads -> [FunnelSteps -> Nat]] /\ visitor \in [Visitors -> Visits]
    /\ clockwork \in Nat \ {0} /\ staleLeads \subseteq Leads /\ doubled \subseteq Leads
    /\ \A v \in Visitors : visitor[v].pc # "idle" => visitor[v].lead \in Leads

\* The requests that brought, or will give, a token.
WithToken == {"check", "create", "deliver", "supersede", "guess", "commit"}

\* What a request knows of its lead, of its code and of who invited it.
VisitKnows(v) ==
    /\ visitor[v].pc \in WithToken => funnel[Of(v)]["REGISTRATION_COMPLETED"] > 0
    /\ visitor[v].pc \in {"deliver", "supersede", "guess", "commit"} =>
           visitor[v].otp \in DOMAIN otps[Of(v)]
    /\ visitor[v].pc = "commit" =>
           /\ otps[Of(v)][visitor[v].otp].sent
           /\ visitor[v].link = visitor[v].saw.recovery \/ ~visitor[v].saw.verified
    /\ \A r \in {visitor[v].by, visitor[v].saw.referredBy} : r # NoLead => IsVerified(lead[r])
VisitsKnow == \A v \in Visitors : VisitKnows(v)

\* A token that is known, a place and a referral were all preceded by what they need.
LeadFollows(l) ==
    /\ IsVerified(lead[l]) \/ knownLinks[l] # {} => funnel[l]["REGISTRATION_COMPLETED"] > 0
    /\ MayRefer(lead[l].status) => IsVerified(lead[l])
    /\ lead[l].referredBy # NoLead => IsVerified(lead[lead[l].referredBy])
LeadsFollow == \A l \in Leads : LeadFollows(l)

\* No two leads invited each other.
NoCycles == staleLeads = {} => \A l, m \in Leads : ~(lead[l].referredBy = m /\ lead[m].referredBy = l)

\* The inductive invariant of the waiting list.
PrelaunchIInv ==
    /\ PrelaunchTypes /\ VisitsKnow /\ LeadsFollow /\ NoCycles
    /\ VerifiedByItsCode /\ OneGoodCode

-----------------------------------------------------------------------------
(* The codes.                                                              *)

\* A sequence with the domain of another is one.
LEMMA MappedSeq ==
    ASSUME NEW R, NEW s \in Seq(R), NEW f, DOMAIN f = DOMAIN s, f = [i \in DOMAIN s |-> f[i]],
           \A i \in DOMAIN s : f[i] \in R
    PROVE  f \in Seq(R)
<1>1. Len(s) \in Nat /\ DOMAIN s = 1..Len(s)
    BY LenProperties
<1>2. f \in [1..Len(s) -> R]
    BY <1>1
<1> QED
    BY <1>1, <1>2

\* The codes whose sending was completed, of those that are good.
Good(l) == {i \in Live(l) : otps[l][i].done}

\* What no step undoes.
OtpsGrow ==
    \A l \in Leads : \A i \in DOMAIN otps[l] :
        /\ i \in DOMAIN otps'[l]
        /\ otps[l][i].sent => otps'[l][i].sent
        /\ otps[l][i].proved => otps'[l][i].proved

\* One row of a lead is written.
LEMMA RowWritten ==
    ASSUME PrelaunchTypes, NEW l \in Leads, NEW k \in DOMAIN otps[l], NEW r \in OtpRows,
           otps' = [otps EXCEPT ![l] = [@ EXCEPT ![k] = r]],
           otps[l][k].sent => r.sent, otps[l][k].proved => r.proved,
           r.state = "live" /\ r.done => otps[l][k].state = "live" /\ otps[l][k].done
    PROVE  /\ otps' \in [Leads -> Seq(OtpRows)] /\ OtpsGrow
           /\ \A m \in Leads : Good(m)' \subseteq Good(m)
           /\ \A m \in Leads : DOMAIN otps'[m] = DOMAIN otps[m]
           /\ otps'[l][k] = r
<1>1. /\ otps \in [Leads -> Seq(OtpRows)] /\ otps[l] \in Seq(OtpRows)
      /\ DOMAIN otps[l] = 1..Len(otps[l])
    BY LenProperties DEF PrelaunchTypes
<1>2. /\ [otps[l] EXCEPT ![k] = r] \in Seq(OtpRows)
      /\ DOMAIN [otps[l] EXCEPT ![k] = r] = DOMAIN otps[l]
      /\ \A i \in DOMAIN otps[l] : [otps[l] EXCEPT ![k] = r][i] = IF i = k THEN r ELSE otps[l][i]
    BY <1>1, ExceptSeq, Zenon
<1>3. /\ otps'[l] = [otps[l] EXCEPT ![k] = r] /\ otps' \in [Leads -> Seq(OtpRows)]
      /\ \A m \in Leads \ {l} : otps'[m] = otps[m]
    BY <1>1, <1>2
<1>4. DOMAIN otps'[l] = DOMAIN otps[l] /\ \A i \in DOMAIN otps[l] : otps'[l][i] = IF i = k THEN r ELSE otps[l][i]
    BY <1>2, <1>3
<1>5. OtpsGrow
    BY <1>3, <1>4 DEF OtpsGrow
<1>6. \A m \in Leads : Good(m)' \subseteq Good(m)
    BY <1>3, <1>4 DEF Good, Live
<1> QED
    BY <1>3, <1>4, <1>5, <1>6

\* A row that is typed.
LEMMA RowIs ==
    ASSUME PrelaunchTypes, NEW l \in Leads, NEW i \in DOMAIN otps[l]
    PROVE  /\ otps[l][i] \in OtpRows
           /\ otps[l][i].state \in OtpStates /\ otps[l][i].sent \in BOOLEAN /\ otps[l][i].attempts \in Nat
           /\ otps[l][i].recent \in BOOLEAN /\ otps[l][i].done \in BOOLEAN /\ otps[l][i].proved \in BOOLEAN
<1>1. otps[l] \in Seq(OtpRows)
    BY DEF PrelaunchTypes
<1>2. otps[l][i] \in OtpRows
    BY <1>1, LenProperties, ElementOfSeq
<1> QED
    BY <1>2 DEF OtpRows

\* A code is created.
LEMMA CreateMoves ==
    ASSUME PrelaunchTypes, NEW v \in Visitors, CreateOtp(v)
    PROVE  /\ otps' \in [Leads -> Seq(OtpRows)] /\ OtpsGrow
           /\ \A m \in Leads : Good(m)' \subseteq Good(m)
           /\ Of(v) \in Leads /\ Len(otps[Of(v)]) + 1 \in DOMAIN otps'[Of(v)]
           /\ Len(otps[Of(v)]) \in Nat
<1> DEFINE l == Of(v)
           s == otps[l]
           r == [state |-> "live", sent |-> FALSE, attempts |-> 0, recent |-> TRUE, done |-> FALSE,
                 proved |-> FALSE]
<1>1. /\ l \in Leads /\ otps \in [Leads -> Seq(OtpRows)] /\ s \in Seq(OtpRows)
      /\ otps' = [otps EXCEPT ![l] = Append(s, r)]
    BY DEF PrelaunchTypes, CreateOtp, Of
<1>2. r \in OtpRows /\ r.done = FALSE
    BY DEF OtpRows, OtpStates
<1> HIDE DEF l, s, r
<1>3. /\ Append(s, r) \in Seq(OtpRows) /\ Len(Append(s, r)) = Len(s) + 1
      /\ \A i \in 1..Len(s) : Append(s, r)[i] = s[i]
      /\ Append(s, r)[Len(s) + 1] = r
      /\ Len(s) \in Nat /\ DOMAIN s = 1..Len(s)
    BY <1>1, <1>2, AppendProperties, LenProperties
<1>4. DOMAIN Append(s, r) = 1..(Len(s) + 1)
    BY <1>3, LenProperties
<1>5. /\ otps'[l] = Append(s, r) /\ otps' \in [Leads -> Seq(OtpRows)]
      /\ \A m \in Leads \ {l} : otps'[m] = otps[m]
    BY <1>1, <1>3
<1>6. OtpsGrow
    <2> SUFFICES ASSUME NEW m \in Leads, NEW i \in DOMAIN otps[m]
                 PROVE  i \in DOMAIN otps'[m] /\ otps'[m][i] = otps[m][i]
        BY DEF OtpsGrow
    <2>1. CASE m = l
        BY <1>3, <1>4, <1>5, <2>1 DEF s
    <2>2. CASE m # l
        BY <1>5, <2>2
    <2> QED BY <2>1, <2>2
<1>7. ASSUME NEW m \in Leads PROVE Good(m)' \subseteq Good(m)
    <2>1. CASE m = l
        <3> SUFFICES ASSUME NEW i \in DOMAIN otps'[l], otps'[l][i].state = "live", otps'[l][i].done
                     PROVE  i \in DOMAIN otps[l] /\ otps'[l][i] = otps[l][i]
            BY <2>1 DEF Good, Live
        <3>1. i # Len(s) + 1
            BY <1>2, <1>3, <1>5
        <3> QED BY <1>3, <1>4, <1>5, <3>1 DEF s
    <2>2. CASE m # l
        BY <1>5, <2>2 DEF Good, Live
    <2> QED BY <2>1, <2>2
<1> QED
    BY <1>1, <1>3, <1>4, <1>5, <1>6, <1>7 DEF l, s

\* What a request that writes the code it knows can count on.
LEMMA WritesItsCode ==
    ASSUME PrelaunchTypes, VisitsKnow, NEW v \in Visitors,
           visitor[v].pc \in {"deliver", "supersede", "guess", "commit"}
    PROVE  Of(v) \in Leads /\ visitor[v].otp \in DOMAIN otps[Of(v)]
BY DEF PrelaunchTypes, VisitsKnow, VisitKnows, Of

\* A code is texted, or the text fails.
LEMMA DeliverMoves ==
    ASSUME PrelaunchTypes, VisitsKnow, NEW v \in Visitors, DeliverOtp(v)
    PROVE  /\ otps' \in [Leads -> Seq(OtpRows)] /\ OtpsGrow
           /\ \A m \in Leads : Good(m)' \subseteq Good(m)
           /\ \A m \in Leads : DOMAIN otps'[m] = DOMAIN otps[m]
           /\ Of(v) \in Leads /\ visitor[v].otp \in DOMAIN otps[Of(v)]
<1> DEFINE l == Of(v)
           k == visitor[v].otp
<1>1. l \in Leads /\ k \in DOMAIN otps[l]
    BY WritesItsCode DEF DeliverOtp
<1>2. /\ otps[l][k] \in OtpRows
      /\ otps[l][k].state \in OtpStates /\ otps[l][k].sent \in BOOLEAN /\ otps[l][k].attempts \in Nat
      /\ otps[l][k].recent \in BOOLEAN /\ otps[l][k].done \in BOOLEAN /\ otps[l][k].proved \in BOOLEAN
    BY <1>1, RowIs
<1>3. CASE otps' = [otps EXCEPT ![l][k].sent = TRUE]
    <2> DEFINE r == [otps[l][k] EXCEPT !.sent = TRUE]
    <2>1. r \in OtpRows /\ r.state = otps[l][k].state /\ r.done = otps[l][k].done
          /\ r.proved = otps[l][k].proved /\ r.sent = TRUE
        BY <1>2 DEF OtpRows
    <2>2. otps' = [otps EXCEPT ![l] = [@ EXCEPT ![k] = r]]
        BY <1>3
    <2> HIDE DEF l, k, r
    <2> QED BY <1>1, <2>1, <2>2, RowWritten DEF l, k
<1>4. CASE otps' = [otps EXCEPT ![l][k].state = "deleted"]
    <2> DEFINE r == [otps[l][k] EXCEPT !.state = "deleted"]
    <2>1. r \in OtpRows /\ r.state = "deleted" /\ r.done = otps[l][k].done
          /\ r.proved = otps[l][k].proved /\ r.sent = otps[l][k].sent
        BY <1>2 DEF OtpRows, OtpStates
    <2>2. otps' = [otps EXCEPT ![l] = [@ EXCEPT ![k] = r]]
        BY <1>4
    <2> HIDE DEF l, k, r
    <2> QED BY <1>1, <2>1, <2>2, RowWritten DEF l, k
<1> QED
    BY <1>3, <1>4 DEF DeliverOtp

\* A wrong code is counted.
LEMMA WrongMoves ==
    ASSUME PrelaunchTypes, VisitsKnow, NEW v \in Visitors, WrongOtp(v)
    PROVE  /\ otps' \in [Leads -> Seq(OtpRows)] /\ OtpsGrow
           /\ \A m \in Leads : Good(m)' \subseteq Good(m)
<1> DEFINE l == Of(v)
           k == visitor[v].otp
           r == [otps[l][k] EXCEPT !.attempts = @ + 1]
<1>1. l \in Leads /\ k \in DOMAIN otps[l]
    BY WritesItsCode DEF WrongOtp
<1>2. /\ otps[l][k] \in OtpRows
      /\ otps[l][k].state \in OtpStates /\ otps[l][k].sent \in BOOLEAN /\ otps[l][k].attempts \in Nat
      /\ otps[l][k].recent \in BOOLEAN /\ otps[l][k].done \in BOOLEAN /\ otps[l][k].proved \in BOOLEAN
    BY <1>1, RowIs
<1>3. r \in OtpRows /\ r.state = otps[l][k].state /\ r.done = otps[l][k].done
      /\ r.proved = otps[l][k].proved /\ r.sent = otps[l][k].sent
    BY <1>2 DEF OtpRows
<1>4. otps' = [otps EXCEPT ![l] = [@ EXCEPT ![k] = r]]
    BY DEF WrongOtp
<1> HIDE DEF l, k, r
<1> QED BY <1>1, <1>3, <1>4, RowWritten DEF l, k

\* A code is used.
LEMMA CommitMoves ==
    ASSUME PrelaunchTypes, VisitsKnow, NEW v \in Visitors, CommitVerification(v)
    PROVE  /\ otps' \in [Leads -> Seq(OtpRows)] /\ OtpsGrow
           /\ \A m \in Leads : Good(m)' \subseteq Good(m)
           /\ Of(v) \in Leads /\ visitor[v].otp \in DOMAIN otps'[Of(v)]
           /\ otps'[Of(v)][visitor[v].otp].sent /\ otps'[Of(v)][visitor[v].otp].proved
<1> DEFINE l == Of(v)
           k == visitor[v].otp
           r == [otps[l][k] EXCEPT !.state = "consumed", !.proved = TRUE]
<1>1. l \in Leads /\ k \in DOMAIN otps[l] /\ otps[l][k].sent
    BY WritesItsCode DEF CommitVerification, VisitsKnow, VisitKnows
<1>2. /\ otps[l][k] \in OtpRows
      /\ otps[l][k].state \in OtpStates /\ otps[l][k].sent \in BOOLEAN /\ otps[l][k].attempts \in Nat
      /\ otps[l][k].recent \in BOOLEAN /\ otps[l][k].done \in BOOLEAN /\ otps[l][k].proved \in BOOLEAN
    BY <1>1, RowIs
<1>3. r \in OtpRows /\ r.state = "consumed" /\ r.done = otps[l][k].done
      /\ r.proved = TRUE /\ r.sent = otps[l][k].sent
    BY <1>2 DEF OtpRows, OtpStates
<1>4. otps' = [otps EXCEPT ![l] = [@ EXCEPT ![k] = r]]
    BY DEF CommitVerification
<1> HIDE DEF l, k, r
<1>5. /\ otps' \in [Leads -> Seq(OtpRows)] /\ OtpsGrow
      /\ \A m \in Leads : Good(m)' \subseteq Good(m)
      /\ \A m \in Leads : DOMAIN otps'[m] = DOMAIN otps[m]
      /\ otps'[l][k] = r
    BY <1>1, <1>3, <1>4, RowWritten
<1> QED BY <1>1, <1>3, <1>5 DEF l, k

\* The rows of a lead are written, whatever their order.
LEMMA RowsWritten ==
    ASSUME PrelaunchTypes, NEW l \in Leads, NEW f, DOMAIN f = DOMAIN otps[l],
           f = [i \in DOMAIN otps[l] |-> f[i]], otps' = [otps EXCEPT ![l] = f],
           \A i \in DOMAIN otps[l] : /\ f[i] \in OtpRows
                                     /\ otps[l][i].sent => f[i].sent
                                     /\ otps[l][i].proved => f[i].proved
    PROVE  /\ otps' \in [Leads -> Seq(OtpRows)] /\ OtpsGrow /\ otps'[l] = f
           /\ \A m \in Leads \ {l} : otps'[m] = otps[m] /\ Good(m)' = Good(m)
<1>1. otps \in [Leads -> Seq(OtpRows)] /\ otps[l] \in Seq(OtpRows)
    BY DEF PrelaunchTypes
<1>2. f \in Seq(OtpRows)
    BY <1>1, MappedSeq
<1>3. /\ otps'[l] = f /\ otps' \in [Leads -> Seq(OtpRows)]
      /\ \A m \in Leads \ {l} : otps'[m] = otps[m]
    BY <1>1, <1>2
<1>4. OtpsGrow
    BY <1>3 DEF OtpsGrow
<1>5. \A m \in Leads \ {l} : Good(m)' = Good(m)
    BY <1>3 DEF Good, Live
<1> QED
    BY <1>3, <1>4, <1>5

\* The minute between two codes passes.
LEMMA MinuteMoves ==
    ASSUME PrelaunchTypes, NEW l \in Leads, MinutePasses(l)
    PROVE  /\ otps' \in [Leads -> Seq(OtpRows)] /\ OtpsGrow
           /\ \A m \in Leads : Good(m)' \subseteq Good(m)
<1> DEFINE f == [i \in DOMAIN otps[l] |-> [otps[l][i] EXCEPT !.recent = FALSE]]
<1>1. otps' = [otps EXCEPT ![l] = f]
    BY DEF MinutePasses
<1>2. \A i \in DOMAIN otps[l] : /\ f[i] \in OtpRows /\ f[i].sent = otps[l][i].sent
                                /\ f[i].proved = otps[l][i].proved /\ f[i].done = otps[l][i].done
                                /\ f[i].state = otps[l][i].state
    <2> TAKE i \in DOMAIN otps[l]
    <2>1. /\ otps[l][i] \in OtpRows
          /\ otps[l][i].state \in OtpStates /\ otps[l][i].sent \in BOOLEAN /\ otps[l][i].attempts \in Nat
          /\ otps[l][i].recent \in BOOLEAN /\ otps[l][i].done \in BOOLEAN /\ otps[l][i].proved \in BOOLEAN
        BY RowIs
    <2> QED BY <2>1 DEF OtpRows
<1>3. DOMAIN f = DOMAIN otps[l] /\ f = [i \in DOMAIN otps[l] |-> f[i]]
    OBVIOUS
<1> HIDE DEF f
<1>4. /\ otps' \in [Leads -> Seq(OtpRows)] /\ OtpsGrow /\ otps'[l] = f
      /\ \A m \in Leads \ {l} : otps'[m] = otps[m] /\ Good(m)' = Good(m)
    BY <1>1, <1>2, <1>3, RowsWritten
<1>5. Good(l)' \subseteq Good(l)
    BY <1>2, <1>3, <1>4 DEF Good, Live
<1> QED
    BY <1>4, <1>5

\* The sending of a code is completed.
LEMMA SupersedeMoves ==
    ASSUME PrelaunchTypes, VisitsKnow, NEW v \in Visitors, Supersede(v)
    PROVE  /\ otps' \in [Leads -> Seq(OtpRows)] /\ OtpsGrow /\ Of(v) \in Leads
           /\ \A m \in Leads : Good(m)' \subseteq Good(m) \/ Good(m)' \subseteq {visitor[v].otp}
<1>1. PICK l \in Leads : l = Of(v)
    BY WritesItsCode DEF Supersede
<1>2. PICK k \in DOMAIN otps[l] : k = visitor[v].otp
    BY <1>1, WritesItsCode DEF Supersede
<1> DEFINE f == [OthersConsumed(l, k) EXCEPT ![k].done = TRUE]
<1>3. otps' = [otps EXCEPT ![l] = f]
    BY <1>1, <1>2 DEF Supersede
<1>4. DOMAIN f = DOMAIN otps[l] /\ f = [i \in DOMAIN otps[l] |-> f[i]]
    BY DEF OthersConsumed
<1>5. \A i \in DOMAIN otps[l] :
          f[i] = IF i = k THEN [otps[l][i] EXCEPT !.done = TRUE]
                 ELSE IF otps[l][i].state = "live" THEN [otps[l][i] EXCEPT !.state = "consumed"]
                 ELSE otps[l][i]
    BY <1>2 DEF OthersConsumed
<1> HIDE DEF f
<1>6. \A i \in DOMAIN otps[l] : /\ f[i] \in OtpRows /\ f[i].sent = otps[l][i].sent
                                /\ f[i].proved = otps[l][i].proved
                                /\ i # k => f[i].state # "live"
    <2> TAKE i \in DOMAIN otps[l]
    <2>1. /\ otps[l][i] \in OtpRows
          /\ otps[l][i].state \in OtpStates /\ otps[l][i].sent \in BOOLEAN /\ otps[l][i].attempts \in Nat
          /\ otps[l][i].recent \in BOOLEAN /\ otps[l][i].done \in BOOLEAN /\ otps[l][i].proved \in BOOLEAN
        BY RowIs
    <2>2. CASE i = k
        BY <1>5, <2>1, <2>2 DEF OtpRows
    <2>3. CASE i # k /\ otps[l][i].state = "live"
        BY <1>5, <2>1, <2>3 DEF OtpRows, OtpStates
    <2>4. CASE i # k /\ otps[l][i].state # "live"
        BY <1>5, <2>1, <2>4
    <2> QED BY <2>2, <2>3, <2>4
<1>7. /\ otps' \in [Leads -> Seq(OtpRows)] /\ OtpsGrow /\ otps'[l] = f
      /\ \A m \in Leads \ {l} : otps'[m] = otps[m] /\ Good(m)' = Good(m)
    BY <1>3, <1>4, <1>6, RowsWritten
<1>8. Good(l)' \subseteq {k}
    BY <1>4, <1>6, <1>7 DEF Good, Live
<1> QED
    BY <1>1, <1>2, <1>7, <1>8

-----------------------------------------------------------------------------
(* The requests.                                                           *)

\* What a request keeps of a row.
LEMMA SightIs ==
    ASSUME NEW row \in LeadRows
    PROVE  /\ Seen(row) \in Sights
           /\ Seen(row).verified <=> IsVerified(row)
           /\ Seen(row).recovery = row.recovery /\ Seen(row).referredBy = row.referredBy
BY DEF LeadRows, Sights, Seen, IsVerified

\* The request of which nothing is known.
LEMMA NoVisitIs ==
    /\ NoVisit \in Visits /\ NoVisit.pc = "idle" /\ NoVisit.by = NoLead
    /\ NoVisit.saw.referredBy = NoLead
<1>1. /\ Unregistered \in LeadRows /\ Unregistered.referredBy = NoLead
    BY DEF Unregistered, LeadRows, LeadStatuses
<1>2. Seen(Unregistered) \in Sights /\ Seen(Unregistered).referredBy = NoLead
    BY <1>1, SightIs
<1> HIDE DEF Seen
<1> QED
    BY <1>2 DEF NoVisit, Visits, VisitorPCs

\* The request v moved, and no other.
VisitMoves(v) ==
    /\ visitor' \in [Visitors -> Visits]
    /\ \A w \in Visitors \ {v} : visitor'[w] = visitor[w]
    /\ visitor'[v].pc # "idle" => visitor'[v].lead \in Leads
    /\ VisitKnows(v)'

\* A request that ends, answered or not.
LEMMA EndMoves ==
    ASSUME PrelaunchTypes, NEW v \in Visitors, visitor' = [visitor EXCEPT ![v] = NoVisit]
    PROVE  VisitMoves(v)
<1>1. /\ visitor' \in [Visitors -> Visits] /\ visitor'[v] = NoVisit
      /\ \A w \in Visitors \ {v} : visitor'[w] = visitor[w]
    BY NoVisitIs DEF PrelaunchTypes
<1> QED
    BY <1>1, NoVisitIs DEF VisitMoves, VisitKnows, WithToken

\* What no step undoes.
Grows ==
    /\ OtpsGrow
    /\ \A l \in Leads : IsVerified(lead[l]) => IsVerified(lead'[l])
    /\ \A l \in Leads : funnel[l]["REGISTRATION_COMPLETED"] > 0
                            => funnel'[l]["REGISTRATION_COMPLETED"] > 0

\* A request goes on to what it knows enough for.
LEMMA GoesOn ==
    ASSUME PrelaunchTypes, VisitsKnow, Grows, NEW v \in Visitors, NEW pc \in VisitorPCs,
           visitor' = [visitor EXCEPT ![v].pc = pc], Of(v) \in Leads,
           pc \in WithToken => visitor[v].pc \in WithToken \/ funnel'[Of(v)]["REGISTRATION_COMPLETED"] > 0,
           pc \in {"deliver", "supersede", "guess", "commit"} =>
               visitor[v].pc \in {"deliver", "supersede", "guess", "commit"},
           pc # "commit"
    PROVE  VisitMoves(v)
<1>1. /\ visitor \in [Visitors -> Visits] /\ visitor[v] \in Visits
    BY DEF PrelaunchTypes
<1>2. /\ visitor' \in [Visitors -> Visits]
      /\ \A w \in Visitors \ {v} : visitor'[w] = visitor[w]
      /\ visitor'[v].pc = pc /\ visitor'[v].lead = visitor[v].lead /\ visitor'[v].saw = visitor[v].saw
      /\ visitor'[v].link = visitor[v].link /\ visitor'[v].otp = visitor[v].otp
      /\ visitor'[v].by = visitor[v].by
    BY <1>1 DEF Visits
<1>3. VisitKnows(v) /\ visitor[v].by \in Leads \cup {NoLead}
      /\ visitor[v].saw.referredBy \in Leads \cup {NoLead}
    BY <1>1 DEF VisitsKnow, Visits, Sights
<1>4. VisitKnows(v)'
    BY <1>2, <1>3 DEF VisitKnows, Grows, OtpsGrow, Of
<1> QED
    BY <1>2, <1>4 DEF VisitMoves, Of

\* A request that begins about a lead.
BeginsAs(V, pc, l, t, k) ==
    /\ V \in Visits /\ V.pc = pc /\ V.lead = l /\ V.saw = Seen(lead[l])
    /\ V.link = t /\ V.otp = k /\ V.by = NoLead

LEMMA FreshVisit ==
    ASSUME PrelaunchTypes, NEW pc \in VisitorPCs, NEW l \in Leads, NEW t \in Nat, NEW k \in Nat
    PROVE  /\ BeginsAs([NoVisit EXCEPT !.pc = pc, !.lead = l, !.saw = Seen(lead[l])], pc, l, 0, 0)
           /\ BeginsAs([NoVisit EXCEPT !.pc = pc, !.lead = l, !.saw = Seen(lead[l]), !.link = t],
                       pc, l, t, 0)
           /\ BeginsAs([NoVisit EXCEPT !.pc = pc, !.lead = l, !.saw = Seen(lead[l]), !.link = t,
                                       !.otp = k], pc, l, t, k)
<1> DEFINE S == Seen(lead[l])
<1>1. S \in Sights
    BY SightIs DEF PrelaunchTypes
<1> HIDE DEF S
<1>2. NoVisit.link = 0 /\ NoVisit.otp = 0
    BY DEF NoVisit
<1>3. /\ BeginsAs([NoVisit EXCEPT !.pc = pc, !.lead = l, !.saw = S], pc, l, 0, 0)
      /\ BeginsAs([NoVisit EXCEPT !.pc = pc, !.lead = l, !.saw = S, !.link = t], pc, l, t, 0)
      /\ BeginsAs([NoVisit EXCEPT !.pc = pc, !.lead = l, !.saw = S, !.link = t, !.otp = k], pc, l, t, k)
    BY <1>1, <1>2, NoVisitIs DEF BeginsAs, Visits, S
<1> QED
    BY <1>3 DEF S

\* A request begins.
LEMMA BeginMoves ==
    ASSUME PrelaunchTypes, LeadsFollow, Grows, NEW v \in Visitors, NEW l \in Leads,
           NEW pc, NEW t, NEW k, NEW V, BeginsAs(V, pc, l, t, k),
           visitor' = [visitor EXCEPT ![v] = V],
           pc \in WithToken => funnel'[l]["REGISTRATION_COMPLETED"] > 0,
           pc \in {"deliver", "supersede", "guess", "commit"} => k \in DOMAIN otps'[l],
           pc = "commit" => otps'[l][k].sent /\ (t = lead[l].recovery \/ ~IsVerified(lead[l]))
    PROVE  VisitMoves(v)
<1>1. lead[l] \in LeadRows /\ lead[l].referredBy \in Leads \cup {NoLead}
    BY DEF PrelaunchTypes, LeadRows
<1> DEFINE S == Seen(lead[l])
<1>2. /\ S \in Sights /\ (S.verified <=> IsVerified(lead[l]))
      /\ S.recovery = lead[l].recovery /\ S.referredBy = lead[l].referredBy
    BY <1>1, SightIs
<1>3. /\ V \in Visits /\ V.pc = pc /\ V.lead = l /\ V.saw = S /\ V.link = t /\ V.otp = k /\ V.by = NoLead
    BY DEF BeginsAs
<1> HIDE DEF S
<1>5. /\ visitor' \in [Visitors -> Visits] /\ visitor'[v] = V
      /\ \A w \in Visitors \ {v} : visitor'[w] = visitor[w]
    BY <1>3 DEF PrelaunchTypes
<1>6. lead[l].referredBy # NoLead => IsVerified(lead'[lead[l].referredBy])
    BY <1>1 DEF LeadsFollow, LeadFollows, Grows
<1>7. /\ visitor'[v].pc = pc /\ visitor'[v].lead = l /\ visitor'[v].saw = S
      /\ visitor'[v].link = t /\ visitor'[v].otp = k /\ visitor'[v].by = NoLead
    BY <1>3, <1>5
<1>8. pc = "commit" => visitor'[v].link = visitor'[v].saw.recovery \/ ~visitor'[v].saw.verified
    BY <1>2, <1>7
<1>9. \A r \in {visitor'[v].by, visitor'[v].saw.referredBy} : r # NoLead => IsVerified(lead'[r])
    BY <1>2, <1>6, <1>7
<1>10. VisitKnows(v)'
    BY <1>7, <1>8, <1>9 DEF VisitKnows, Of
<1> QED
    BY <1>5, <1>7, <1>10 DEF VisitMoves

-----------------------------------------------------------------------------
(* The leads.                                                              *)

\* The types, of all but the requests.
RowTypes ==
    /\ lead \in [Leads -> LeadRows] /\ otps \in [Leads -> Seq(OtpRows)]
    /\ links \in [Leads -> Nat] /\ knownLinks \in [Leads -> SUBSET Nat]
    /\ funnel \in [Leads -> [FunnelSteps -> Nat]]
    /\ clockwork \in Nat \ {0} /\ staleLeads \subseteq Leads /\ doubled \subseteq Leads

\* What a step that is about no lead leaves as it is.
LeadsRest ==
    /\ UNCHANGED <<lead, staleLeads>>
    /\ \A l \in Leads : knownLinks'[l] # {} =>
           knownLinks[l] # {} \/ funnel'[l]["REGISTRATION_COMPLETED"] > 0

\* What is shown of a step.
GoodStep ==
    /\ RowTypes' /\ Grows
    /\ UNCHANGED visitor \/ \E v \in Visitors : VisitMoves(v)
    /\ LeadsFollow' /\ NoCycles' /\ VerifiedByItsCode'
    /\ \A l \in Leads : Good(l)' \subseteq Good(l) \/ \E x : Good(l)' \subseteq {x}

\* It keeps the invariant.
LEMMA GoodStepKeeps ==
    ASSUME PrelaunchIInv, GoodStep
    PROVE  PrelaunchIInv'
<1>1. PrelaunchTypes /\ VisitsKnow /\ Grows
    BY DEF PrelaunchIInv, GoodStep
<1>2. visitor \in [Visitors -> Visits] /\ \A w \in Visitors : visitor[w] \in Visits
    BY <1>1 DEF PrelaunchTypes
<1>3. ASSUME NEW w \in Visitors, visitor'[w] = visitor[w] PROVE VisitKnows(w)'
    <2>1. VisitKnows(w) /\ visitor[w].by \in Leads \cup {NoLead}
          /\ visitor[w].saw.referredBy \in Leads \cup {NoLead}
        BY <1>1, <1>2 DEF VisitsKnow, Visits, Sights
    <2>2. visitor[w].pc # "idle" => Of(w) \in Leads
        BY <1>1 DEF PrelaunchTypes, Of
    <2> QED BY <1>1, <1>3, <2>1, <2>2 DEF VisitKnows, Grows, OtpsGrow, Of, WithToken
<1>4. visitor' \in [Visitors -> Visits] /\ VisitsKnow'
      /\ \A v \in Visitors : visitor'[v].pc # "idle" => visitor'[v].lead \in Leads
    <2>1. CASE UNCHANGED visitor
        BY <1>1, <1>3, <2>1 DEF VisitsKnow, PrelaunchTypes
    <2>2. ASSUME NEW v \in Visitors, VisitMoves(v)
          PROVE  visitor' \in [Visitors -> Visits] /\ VisitsKnow'
                 /\ \A w \in Visitors : visitor'[w].pc # "idle" => visitor'[w].lead \in Leads
        <3>1. \A w \in Visitors : VisitKnows(w)'
            BY <1>3, <2>2 DEF VisitMoves
        <3> QED BY <1>1, <2>2, <3>1 DEF VisitsKnow, VisitMoves, PrelaunchTypes
    <2> QED BY <2>1, <2>2 DEF GoodStep
<1>5. PrelaunchTypes'
    BY <1>4 DEF GoodStep, RowTypes, PrelaunchTypes
<1>6. OneGoodCode'
    <2> SUFFICES ASSUME NEW l \in Leads PROVE Cardinality(Good(l)') <= 1
        BY DEF OneGoodCode, Good
    <2>1. Cardinality(Good(l)) <= 1
        BY DEF PrelaunchIInv, OneGoodCode, Good
    <2>2. IsFiniteSet(Good(l))
        <3>1. otps[l] \in Seq(OtpRows)
            BY <1>1 DEF PrelaunchTypes
        <3>2. Len(otps[l]) \in Nat /\ DOMAIN otps[l] = 1..Len(otps[l])
            BY <3>1, LenProperties
        <3>3. IsFiniteSet(1..Len(otps[l]))
            BY <3>2, FS_Interval
        <3>4. Good(l) \subseteq 1..Len(otps[l])
            BY <3>2 DEF Good, Live
        <3> QED BY <3>3, <3>4, FS_Subset
    <2>3. CASE Good(l)' \subseteq Good(l)
        <3>1. Cardinality(Good(l)') <= Cardinality(Good(l)) /\ Cardinality(Good(l)') \in Nat
              /\ Cardinality(Good(l)) \in Nat
            BY <2>2, <2>3, FS_Subset, FS_CardinalityType
        <3> QED BY <2>1, <3>1
    <2>4. ASSUME NEW x, Good(l)' \subseteq {x} PROVE Cardinality(Good(l)') <= 1
        <3>1. Cardinality(Good(l)') <= Cardinality({x}) /\ Cardinality({x}) = 1
            BY <2>4, FS_Subset, FS_Singleton
        <3> QED BY <3>1
    <2> QED BY <2>3, <2>4 DEF GoodStep
<1> QED
    BY <1>4, <1>5, <1>6 DEF PrelaunchIInv, GoodStep

\* What was verified stays so, by the same code.
LEMMA LeadsStay ==
    ASSUME PrelaunchIInv, Grows, LeadsRest
    PROVE  LeadsFollow' /\ NoCycles' /\ VerifiedByItsCode'
<1>1. PrelaunchTypes /\ LeadsFollow /\ NoCycles /\ VerifiedByItsCode
    BY DEF PrelaunchIInv
<1>2. \A l \in Leads : lead[l] \in LeadRows /\ lead[l].referredBy \in Leads \cup {NoLead}
    BY <1>1 DEF PrelaunchTypes, LeadRows
<1>3. LeadsFollow'
    BY <1>1, <1>2 DEF LeadsFollow, LeadFollows, LeadsRest, Grows
<1>4. NoCycles'
    BY <1>1 DEF NoCycles, LeadsRest
<1>5. VerifiedByItsCode'
    BY <1>1 DEF VerifiedByItsCode, LeadsRest, Grows, OtpsGrow
<1> QED
    BY <1>3, <1>4, <1>5

\* A step that only moves a request, or that does nothing.
LEMMA VisitStep ==
    ASSUME PrelaunchIInv,
           UNCHANGED <<lead, otps, links, knownLinks, funnel, clockwork, staleLeads, doubled>>,
           Grows => (UNCHANGED visitor \/ \E v \in Visitors : VisitMoves(v))
    PROVE  PrelaunchIInv'
<1>1. PrelaunchTypes
    BY DEF PrelaunchIInv
<1>2. RowTypes'
    BY <1>1 DEF RowTypes, PrelaunchTypes
<1>3. Grows /\ LeadsRest
    BY DEF Grows, OtpsGrow, LeadsRest
<1>4. \A l \in Leads : Good(l)' \subseteq Good(l)
    BY DEF Good, Live
<1>5. GoodStep
    BY <1>2, <1>3, <1>4, LeadsStay DEF GoodStep
<1> QED
    BY <1>5, GoodStepKeeps

-----------------------------------------------------------------------------
(* The steps.                                                              *)

\* A registration is begun.
LEMMA StartKeeps ==
    ASSUME PrelaunchIInv, NEW v \in Visitors, NEW l \in Leads, StartRegistration(v, l)
    PROVE  PrelaunchIInv'
<1>1. PrelaunchTypes /\ LeadsFollow
    BY DEF PrelaunchIInv
<1>2. PICK V : V = [NoVisit EXCEPT !.pc = "refer", !.lead = l, !.saw = Seen(lead[l])]
    OBVIOUS
<1>3. "refer" \in VisitorPCs /\ "refer" \notin WithToken
    BY DEF VisitorPCs, WithToken
<1>4. BeginsAs(V, "refer", l, 0, 0)
    BY <1>1, <1>2, <1>3, FreshVisit
<1>5. visitor' = [visitor EXCEPT ![v] = V]
    BY <1>2 DEF StartRegistration
<1>6. Grows => VisitMoves(v)
    BY <1>1, <1>3, <1>4, <1>5, BeginMoves
<1> QED
    BY <1>6, VisitStep DEF StartRegistration

\* Who invited is looked for among those who verified.
LEMMA ReferKeeps ==
    ASSUME PrelaunchIInv, NEW v \in Visitors, ResolveReferrer(v)
    PROVE  PrelaunchIInv'
<1>1. PrelaunchTypes /\ LeadsFollow /\ VisitsKnow
    BY DEF PrelaunchIInv
<1>2. visitor \in [Visitors -> Visits] /\ visitor[v] \in Visits /\ visitor[v].pc = "refer"
      /\ visitor[v].lead \in Leads
    BY <1>1 DEF PrelaunchTypes, ResolveReferrer
<1>3. visitor[v].saw \in Sights /\ visitor[v].saw.referredBy \in Leads \cup {NoLead}
    BY <1>2 DEF Visits, Sights
<1>4. PICK r \in {visitor[v].saw.referredBy} \cup {r \in Leads : MayRefer(lead[r].status)} :
          visitor' = [visitor EXCEPT ![v].pc = "save", ![v].by = r]
    BY DEF ResolveReferrer
<1>5. r \in Leads \cup {NoLead} /\ (r # NoLead => IsVerified(lead[r]))
    BY <1>1, <1>2, <1>3 DEF LeadsFollow, LeadFollows, VisitsKnow, VisitKnows
<1>6. visitor[v].saw.referredBy # NoLead => IsVerified(lead[visitor[v].saw.referredBy])
    BY <1>1 DEF VisitsKnow, VisitKnows
<1>7. "save" \in VisitorPCs /\ "save" \notin WithToken
    BY DEF VisitorPCs, WithToken
<1>8. /\ visitor' \in [Visitors -> Visits]
      /\ \A w \in Visitors \ {v} : visitor'[w] = visitor[w]
      /\ visitor'[v].pc = "save" /\ visitor'[v].lead = visitor[v].lead
      /\ visitor'[v].saw = visitor[v].saw /\ visitor'[v].by = r
    BY <1>2, <1>4, <1>5, <1>7 DEF Visits
<1>9. lead' = lead
    BY DEF ResolveReferrer
<1>10. VisitKnows(v)'
    BY <1>5, <1>6, <1>7, <1>8, <1>9 DEF VisitKnows
<1>11. VisitMoves(v)
    BY <1>2, <1>8, <1>10 DEF VisitMoves
<1> QED
    BY <1>11, VisitStep DEF ResolveReferrer

\* A code is asked again for a token that was given.
LEMMA ResendKeeps ==
    ASSUME PrelaunchIInv, NEW v \in Visitors, NEW l \in Leads, ResendOtp(v, l)
    PROVE  PrelaunchIInv'
<1>1. PrelaunchTypes /\ LeadsFollow
    BY DEF PrelaunchIInv
<1>2. PICK t \in knownLinks[l] :
          visitor' = [visitor EXCEPT ![v] = [NoVisit EXCEPT !.pc = "check", !.lead = l,
                                                            !.saw = Seen(lead[l]), !.link = t]]
    BY DEF ResendOtp
<1>3. t \in Nat /\ funnel[l]["REGISTRATION_COMPLETED"] > 0 /\ funnel' = funnel
    BY <1>1, <1>2 DEF PrelaunchTypes, LeadsFollow, LeadFollows, ResendOtp
<1>4. "check" \in VisitorPCs
    BY DEF VisitorPCs
<1>5. PICK V : V = [NoVisit EXCEPT !.pc = "check", !.lead = l, !.saw = Seen(lead[l]), !.link = t]
    OBVIOUS
<1>6. BeginsAs(V, "check", l, t, 0)
    BY <1>1, <1>3, <1>4, <1>5, FreshVisit
<1>7. visitor' = [visitor EXCEPT ![v] = V]
    BY <1>2, <1>5
<1>8. funnel'[l]["REGISTRATION_COMPLETED"] > 0
    BY <1>3
<1>9. Grows => VisitMoves(v)
    BY <1>1, <1>6, <1>7, <1>8, BeginMoves
<1> QED
    BY <1>9, VisitStep DEF ResendOtp

\* A sending is allowed or refused.
LEMMA CheckKeeps ==
    ASSUME PrelaunchIInv, NEW v \in Visitors, CheckSend(v)
    PROVE  PrelaunchIInv'
<1>1. PrelaunchTypes /\ VisitsKnow
    BY DEF PrelaunchIInv
<1>2. Of(v) \in Leads /\ visitor[v].pc = "check"
    BY <1>1 DEF PrelaunchTypes, CheckSend, Of
<1>3. CASE MaySend(Of(v))
    <2>1. visitor' = [visitor EXCEPT ![v].pc = "create"] /\ "create" \in VisitorPCs
        BY <1>3 DEF CheckSend, VisitorPCs
    <2>2. visitor[v].pc \in WithToken
        BY <1>2 DEF WithToken
    <2>3. Grows => VisitMoves(v)
        BY <1>1, <1>2, <2>1, <2>2, GoesOn
    <2> QED BY <2>3, VisitStep DEF CheckSend
<1>4. CASE ~MaySend(Of(v))
    <2>1. visitor' = [visitor EXCEPT ![v] = NoVisit]
        BY <1>4 DEF CheckSend
    <2>2. VisitMoves(v)
        BY <1>1, <2>1, EndMoves
    <2> QED BY <2>2, VisitStep DEF CheckSend
<1> QED
    BY <1>3, <1>4

\* A code is read, which was texted, by who has to prove the phone.
LEMMA ReadOtpKeeps ==
    ASSUME PrelaunchIInv, NEW v \in Visitors, NEW l \in Leads, ReadOtp(v, l)
    PROVE  PrelaunchIInv'
<1>1. PrelaunchTypes /\ LeadsFollow
    BY DEF PrelaunchIInv
<1>2. PICK i : /\ i = Max(Live(l))
               /\ \E t \in knownLinks[l],
                     pc \in {"guess"} \cup {p \in {"commit"} : otps[l][i].sent} :
                      /\ MustProve(lead[l], t)
                      /\ visitor' = [visitor EXCEPT ![v] = [NoVisit EXCEPT
                                        !.pc = pc, !.lead = l, !.saw = Seen(lead[l]), !.link = t, !.otp = i]]
    BY DEF ReadOtp
<1>3. i \in DOMAIN otps[l] /\ i \in Nat
    <2>1. otps[l] \in Seq(OtpRows)
        BY <1>1 DEF PrelaunchTypes
    <2>2. Len(otps[l]) \in Nat /\ DOMAIN otps[l] = 1..Len(otps[l])
        BY <2>1, LenProperties
    <2>3. IsFiniteSet(1..Len(otps[l]))
        BY <2>2, FS_Interval
    <2>4. Live(l) \subseteq 1..Len(otps[l]) /\ Live(l) # {}
        BY <2>2 DEF ReadOtp, Live
    <2>5. IsFiniteSet(Live(l)) /\ \A x \in Live(l) : x \in Int
        BY <2>2, <2>3, <2>4, FS_Subset
    <2>6. i \in Live(l)
        BY <1>2, <2>4, <2>5, MaxOfFinite
    <2> QED BY <2>2, <2>4, <2>6
<1>4. PICK t \in knownLinks[l], pc \in {"guess"} \cup {p \in {"commit"} : otps[l][i].sent} :
          /\ MustProve(lead[l], t)
          /\ visitor' = [visitor EXCEPT ![v] = [NoVisit EXCEPT
                            !.pc = pc, !.lead = l, !.saw = Seen(lead[l]), !.link = t, !.otp = i]]
    BY <1>2
<1>5. t \in Nat /\ funnel[l]["REGISTRATION_COMPLETED"] > 0 /\ UNCHANGED <<funnel, otps>>
    BY <1>1, <1>4 DEF PrelaunchTypes, LeadsFollow, LeadFollows, ReadOtp
<1>6. /\ pc \in VisitorPCs
      /\ pc = "commit" => otps[l][i].sent /\ (t = lead[l].recovery \/ ~IsVerified(lead[l]))
    BY <1>4 DEF VisitorPCs, MustProve
<1>7. PICK V : V = [NoVisit EXCEPT !.pc = pc, !.lead = l, !.saw = Seen(lead[l]), !.link = t, !.otp = i]
    OBVIOUS
<1>8. BeginsAs(V, pc, l, t, i)
    BY <1>1, <1>3, <1>5, <1>6, <1>7, FreshVisit
<1>9. Grows => VisitMoves(v)
    BY <1>1, <1>3, <1>4, <1>5, <1>6, <1>7, <1>8, BeginMoves
<1> QED
    BY <1>9, VisitStep DEF ReadOtp

\* A request dies.
LEMMA DiesKeeps ==
    ASSUME PrelaunchIInv, NEW v \in Visitors, VisitDies(v)
    PROVE  PrelaunchIInv'
<1>1. VisitMoves(v)
    BY EndMoves DEF PrelaunchIInv, VisitDies
<1> QED
    BY <1>1, VisitStep DEF VisitDies

\* A step that writes codes and nothing else of the lead.
LEMMA OtpStep ==
    ASSUME PrelaunchIInv, otps' \in [Leads -> Seq(OtpRows)], OtpsGrow,
           \A l \in Leads : Good(l)' \subseteq Good(l),
           UNCHANGED <<lead, links, knownLinks, funnel, clockwork, staleLeads, doubled>>,
           Grows => (UNCHANGED visitor \/ \E v \in Visitors : VisitMoves(v))
    PROVE  PrelaunchIInv'
<1>1. PrelaunchTypes
    BY DEF PrelaunchIInv
<1>2. RowTypes'
    BY <1>1 DEF RowTypes, PrelaunchTypes
<1>3. Grows /\ LeadsRest
    BY DEF Grows, LeadsRest
<1>4. GoodStep
    BY <1>2, <1>3, LeadsStay DEF GoodStep
<1> QED
    BY <1>4, GoodStepKeeps

\* A code is created, which its request will text.
LEMMA CreateKeeps ==
    ASSUME PrelaunchIInv, NEW v \in Visitors, CreateOtp(v)
    PROVE  PrelaunchIInv'
<1>1. PrelaunchTypes /\ VisitsKnow
    BY DEF PrelaunchIInv
<1>2. /\ otps' \in [Leads -> Seq(OtpRows)] /\ OtpsGrow
      /\ \A m \in Leads : Good(m)' \subseteq Good(m)
      /\ Of(v) \in Leads /\ Len(otps[Of(v)]) + 1 \in DOMAIN otps'[Of(v)]
      /\ Len(otps[Of(v)]) \in Nat
    BY <1>1, CreateMoves
<1>3. PICK k \in Nat : k = Len(otps[Of(v)]) + 1
    BY <1>2
<1>4. /\ visitor \in [Visitors -> Visits] /\ visitor[v] \in Visits /\ visitor[v].pc = "create"
      /\ visitor[v].lead \in Leads
      /\ visitor' = [visitor EXCEPT ![v].pc = "deliver", ![v].otp = k] /\ UNCHANGED <<lead, funnel>>
    BY <1>1, <1>2, <1>3 DEF PrelaunchTypes, CreateOtp, Of
<1>5. /\ visitor' \in [Visitors -> Visits]
      /\ \A w \in Visitors \ {v} : visitor'[w] = visitor[w]
      /\ visitor'[v].pc = "deliver" /\ visitor'[v].lead = visitor[v].lead
      /\ visitor'[v].saw = visitor[v].saw /\ visitor'[v].by = visitor[v].by /\ visitor'[v].otp = k
    BY <1>4 DEF Visits, VisitorPCs
<1>6. VisitKnows(v) /\ visitor[v].pc \in WithToken
    BY <1>1, <1>4 DEF VisitsKnow, WithToken
<1>7. VisitKnows(v)'
    BY <1>2, <1>3, <1>4, <1>5, <1>6 DEF VisitKnows, Of
<1>8. VisitMoves(v)
    BY <1>4, <1>5, <1>7 DEF VisitMoves
<1> QED
    BY <1>2, <1>8, OtpStep DEF CreateOtp

\* A code is texted, or deleted.
LEMMA DeliverKeeps ==
    ASSUME PrelaunchIInv, NEW v \in Visitors, DeliverOtp(v)
    PROVE  PrelaunchIInv'
<1>1. PrelaunchTypes /\ VisitsKnow
    BY DEF PrelaunchIInv
<1>2. /\ otps' \in [Leads -> Seq(OtpRows)] /\ OtpsGrow
      /\ \A m \in Leads : Good(m)' \subseteq Good(m)
      /\ Of(v) \in Leads
    BY <1>1, DeliverMoves
<1>3. visitor[v].pc = "deliver"
    BY DEF DeliverOtp
<1>4. CASE Goto(v, "supersede")
    <2>1. visitor' = [visitor EXCEPT ![v].pc = "supersede"] /\ "supersede" \in VisitorPCs
        BY <1>4 DEF Goto, VisitorPCs
    <2>2. visitor[v].pc \in WithToken
        BY <1>3 DEF WithToken
    <2>3. Grows => VisitMoves(v)
        BY <1>1, <1>2, <1>3, <2>1, <2>2, GoesOn
    <2> QED BY <1>2, <2>3, OtpStep DEF DeliverOtp
<1>5. CASE visitor' = [visitor EXCEPT ![v] = NoVisit]
    <2>1. VisitMoves(v)
        BY <1>1, <1>5, EndMoves
    <2> QED BY <1>2, <2>1, OtpStep DEF DeliverOtp
<1> QED
    BY <1>4, <1>5 DEF DeliverOtp

\* A wrong code is counted.
LEMMA WrongKeeps ==
    ASSUME PrelaunchIInv, NEW v \in Visitors, WrongOtp(v)
    PROVE  PrelaunchIInv'
<1>1. PrelaunchTypes /\ VisitsKnow
    BY DEF PrelaunchIInv
<1>2. /\ otps' \in [Leads -> Seq(OtpRows)] /\ OtpsGrow
      /\ \A m \in Leads : Good(m)' \subseteq Good(m)
    BY <1>1, WrongMoves
<1>3. VisitMoves(v)
    BY <1>1, EndMoves DEF WrongOtp
<1> QED
    BY <1>2, <1>3, OtpStep DEF WrongOtp

\* The minute between two codes passes.
LEMMA MinuteKeeps ==
    ASSUME PrelaunchIInv, NEW l \in Leads, MinutePasses(l)
    PROVE  PrelaunchIInv'
<1>1. PrelaunchTypes
    BY DEF PrelaunchIInv
<1>2. /\ otps' \in [Leads -> Seq(OtpRows)] /\ OtpsGrow
      /\ \A m \in Leads : Good(m)' \subseteq Good(m)
    BY <1>1, MinuteMoves
<1> QED
    BY <1>2, OtpStep DEF MinutePasses

\* What is counted of a lead grows.
LEMMA CountedIs ==
    ASSUME PrelaunchTypes, NEW l \in Leads, NEW s \in FunnelSteps, funnel' = Counted(l, s)
    PROVE  /\ funnel' \in [Leads -> [FunnelSteps -> Nat]] /\ funnel'[l][s] > 0
           /\ \A m \in Leads : funnel[m]["REGISTRATION_COMPLETED"] > 0
                                   => funnel'[m]["REGISTRATION_COMPLETED"] > 0
<1> DEFINE row == [funnel[l] EXCEPT ![s] = funnel[l][s] + 1]
<1>1. /\ funnel \in [Leads -> [FunnelSteps -> Nat]] /\ funnel[l] \in [FunnelSteps -> Nat]
    BY DEF PrelaunchTypes
<1>2. /\ row \in [FunnelSteps -> Nat] /\ row[s] = funnel[l][s] + 1
      /\ \A x \in FunnelSteps \ {s} : row[x] = funnel[l][x]
    BY <1>1
<1>3. funnel' = [funnel EXCEPT ![l] = row]
    BY DEF Counted
<1> HIDE DEF row
<1>4. funnel'[l] = row /\ \A m \in Leads \ {l} : funnel'[m] = funnel[m]
    BY <1>1, <1>3
<1>5. /\ funnel'[l] \in [FunnelSteps -> Nat] /\ funnel'[l][s] = funnel[l][s] + 1
      /\ \A x \in FunnelSteps \ {s} : funnel'[l][x] = funnel[l][x]
    BY <1>2, <1>4
<1>6. "REGISTRATION_COMPLETED" \in FunnelSteps
    BY DEF FunnelSteps
<1>7. funnel' \in [Leads -> [FunnelSteps -> Nat]]
    BY <1>1, <1>2, <1>3
<1>8. ASSUME NEW m \in Leads, funnel[m]["REGISTRATION_COMPLETED"] > 0
      PROVE  funnel'[m]["REGISTRATION_COMPLETED"] > 0
    <2>1. CASE m = l /\ s = "REGISTRATION_COMPLETED"
        BY <1>1, <1>5, <1>6, <1>8, <2>1
    <2>2. CASE m = l /\ s # "REGISTRATION_COMPLETED"
        BY <1>5, <1>6, <1>8, <2>2
    <2>3. CASE m # l
        BY <1>8, <1>4, <2>3
    <2> QED BY <2>1, <2>2, <2>3
<1> QED
    BY <1>1, <1>5, <1>7, <1>8

\* A registration is counted before its token can be used.
LEMMA RecordKeeps ==
    ASSUME PrelaunchIInv, NEW v \in Visitors, RecordRegistration(v)
    PROVE  PrelaunchIInv'
<1>1. PrelaunchTypes /\ VisitsKnow
    BY DEF PrelaunchIInv
<1>2. Of(v) \in Leads
    BY <1>1 DEF PrelaunchTypes, RecordRegistration, Of
<1>3. /\ funnel' \in [Leads -> [FunnelSteps -> Nat]] /\ funnel'[Of(v)]["REGISTRATION_COMPLETED"] > 0
      /\ \A m \in Leads : funnel[m]["REGISTRATION_COMPLETED"] > 0
                              => funnel'[m]["REGISTRATION_COMPLETED"] > 0
    BY <1>1, <1>2, CountedIs DEF RecordRegistration, FunnelSteps
<1>4. Grows /\ LeadsRest
    BY <1>3 DEF Grows, OtpsGrow, LeadsRest, RecordRegistration
<1>5. visitor' = [visitor EXCEPT ![v].pc = "check"] /\ "check" \in VisitorPCs
    BY DEF RecordRegistration, Goto, VisitorPCs
<1>6. VisitMoves(v)
    BY <1>1, <1>2, <1>3, <1>4, <1>5, GoesOn
<1>7. RowTypes'
    BY <1>1, <1>3 DEF RowTypes, PrelaunchTypes, RecordRegistration
<1>8. \A l \in Leads : Good(l)' \subseteq Good(l)
    BY DEF Good, Live, RecordRegistration
<1>9. GoodStep
    BY <1>4, <1>6, <1>7, <1>8, LeadsStay DEF GoodStep
<1> QED
    BY <1>9, GoodStepKeeps

\* The sending is completed, and the token reaches the person.
LEMMA SupersedeKeeps ==
    ASSUME PrelaunchIInv, NEW v \in Visitors, Supersede(v)
    PROVE  PrelaunchIInv'
<1>1. PrelaunchTypes /\ VisitsKnow
    BY DEF PrelaunchIInv
<1>2. /\ otps' \in [Leads -> Seq(OtpRows)] /\ OtpsGrow /\ Of(v) \in Leads
      /\ \A m \in Leads : Good(m)' \subseteq Good(m) \/ Good(m)' \subseteq {visitor[v].otp}
    BY <1>1, SupersedeMoves
<1>3. /\ funnel' \in [Leads -> [FunnelSteps -> Nat]]
      /\ \A m \in Leads : funnel[m]["REGISTRATION_COMPLETED"] > 0
                              => funnel'[m]["REGISTRATION_COMPLETED"] > 0
    BY <1>1, <1>2, CountedIs DEF Supersede, FunnelSteps
<1>4. funnel[Of(v)]["REGISTRATION_COMPLETED"] > 0
    BY <1>1 DEF VisitsKnow, VisitKnows, WithToken, Supersede
<1>5. visitor[v].link \in Nat
    BY <1>1 DEF PrelaunchTypes, Visits
<1>6. /\ knownLinks' \in [Leads -> SUBSET Nat]
      /\ \A m \in Leads : m # Of(v) => knownLinks'[m] = knownLinks[m]
    BY <1>1, <1>2, <1>5 DEF PrelaunchTypes, Supersede
<1>7. Grows
    BY <1>2, <1>3 DEF Grows, Supersede
<1>8. LeadsRest
    BY <1>2, <1>3, <1>4, <1>6 DEF LeadsRest, Supersede
<1>9. VisitMoves(v)
    BY <1>1, EndMoves DEF Supersede
<1>10. RowTypes'
    BY <1>1, <1>2, <1>3, <1>6 DEF RowTypes, PrelaunchTypes, Supersede
<1>11. GoodStep
    BY <1>2, <1>7, <1>8, <1>9, <1>10, LeadsStay DEF GoodStep
<1> QED
    BY <1>11, GoodStepKeeps

\* The row of a lead is written, whole.
LEMMA LeadWritten ==
    ASSUME PrelaunchIInv, NEW l \in Leads, NEW r \in LeadRows, lead' = [lead EXCEPT ![l] = r],
           UNCHANGED <<funnel, knownLinks>>, OtpsGrow, staleLeads \subseteq staleLeads',
           IsVerified(lead[l]) => IsVerified(r),
           IsVerified(r) => /\ funnel[l]["REGISTRATION_COMPLETED"] > 0
                            /\ \E i \in DOMAIN otps'[l] : otps'[l][i].sent /\ otps'[l][i].proved,
           MayRefer(r.status) => IsVerified(r),
           l \notin staleLeads' => (IsVerified(r) <=> MayRefer(r.status)),
           r.referredBy # NoLead => IsVerified(lead[r.referredBy]),
           r.referredBy = lead[l].referredBy \/ (staleLeads' = {} => ~IsVerified(lead[l]))
    PROVE  /\ lead' \in [Leads -> LeadRows] /\ Grows
           /\ LeadsFollow' /\ NoCycles' /\ VerifiedByItsCode'
<1>1. PrelaunchTypes /\ LeadsFollow /\ NoCycles /\ VerifiedByItsCode
    BY DEF PrelaunchIInv
<1>2. /\ lead \in [Leads -> LeadRows] /\ r.referredBy \in Leads \cup {NoLead}
      /\ \A m \in Leads : lead[m].referredBy \in Leads \cup {NoLead}
    BY <1>1 DEF PrelaunchTypes, LeadRows
<1>3. /\ lead' \in [Leads -> LeadRows] /\ lead'[l] = r
      /\ \A m \in Leads \ {l} : lead'[m] = lead[m]
    BY <1>2
<1>4. \A m \in Leads : IsVerified(lead[m]) => IsVerified(lead'[m])
    BY <1>3
<1>5. Grows
    BY <1>4 DEF Grows
<1>6. LeadsFollow'
    <2> SUFFICES ASSUME NEW m \in Leads PROVE LeadFollows(m)'
        BY DEF LeadsFollow
    <2>1. CASE m = l
        <3>1. knownLinks[l] # {} => funnel[l]["REGISTRATION_COMPLETED"] > 0
            BY <1>1 DEF LeadsFollow, LeadFollows
        <3>2. r.referredBy # NoLead => IsVerified(lead'[r.referredBy])
            BY <1>2, <1>4
        <3> QED BY <1>3, <2>1, <3>1, <3>2 DEF LeadFollows
    <2>2. CASE m # l
        <3>1. LeadFollows(m) /\ lead'[m] = lead[m]
            BY <1>1, <1>3, <2>2 DEF LeadsFollow
        <3>2. lead[m].referredBy # NoLead => IsVerified(lead'[lead[m].referredBy])
            BY <1>2, <1>4, <3>1 DEF LeadFollows
        <3> QED BY <3>1, <3>2 DEF LeadFollows
    <2> QED BY <2>1, <2>2
<1>7. NoCycles'
    <2> SUFFICES ASSUME staleLeads' = {}, NEW x \in Leads, NEW m \in Leads,
                        lead'[x].referredBy = m, lead'[m].referredBy = x
                 PROVE  FALSE
        BY DEF NoCycles
    <2>1. staleLeads = {}
        OBVIOUS
    <2>2. CASE r.referredBy = lead[l].referredBy
        <3>1. lead'[x].referredBy = lead[x].referredBy /\ lead'[m].referredBy = lead[m].referredBy
            BY <1>3, <2>2
        <3> QED BY <1>1, <2>1, <3>1 DEF NoCycles
    <2>3. CASE ~IsVerified(lead[l])
        <3>1. NoLead \notin Leads
            BY PrelaunchAssumption
        <3>2. \A y \in Leads \ {l} : lead'[y].referredBy # l
            BY <1>1, <1>3, <2>3, <3>1 DEF LeadsFollow, LeadFollows
        <3>3. r.referredBy # l
            BY <2>3, <3>1
        <3>4. x # l /\ m # l
            BY <1>3, <3>2, <3>3
        <3> QED BY <1>1, <1>3, <2>1, <3>4 DEF NoCycles
    <2> QED BY <2>2, <2>3
<1>8. VerifiedByItsCode'
    <2> SUFFICES ASSUME NEW m \in Leads
                 PROVE  /\ IsVerified(lead'[m]) =>
                               \E i \in DOMAIN otps'[m] : otps'[m][i].sent /\ otps'[m][i].proved
                        /\ m \notin staleLeads' => (IsVerified(lead'[m]) <=> MayRefer(lead'[m].status))
        BY DEF VerifiedByItsCode
    <2>1. CASE m = l
        BY <1>3, <2>1
    <2>2. CASE m # l
        BY <1>1, <1>3, <2>2 DEF VerifiedByItsCode, OtpsGrow
    <2> QED BY <2>1, <2>2
<1> QED
    BY <1>3, <1>5, <1>6, <1>7, <1>8

\* A row that is typed.
LEMMA LeadIs ==
    ASSUME PrelaunchIInv, NEW l \in Leads
    PROVE  /\ lead[l] \in LeadRows
           /\ lead[l].status \in LeadStatuses /\ lead[l].place \in Nat /\ lead[l].access \in Nat
           /\ lead[l].recovery \in Nat /\ lead[l].referredBy \in Leads \cup {NoLead}
           /\ links[l] \in Nat /\ clockwork \in Nat \ {0}
           /\ IsVerified(lead[l]) => /\ funnel[l]["REGISTRATION_COMPLETED"] > 0
                                     /\ \E i \in DOMAIN otps[l] : otps[l][i].sent /\ otps[l][i].proved
           /\ MayRefer(lead[l].status) => IsVerified(lead[l])
           /\ l \notin staleLeads => (IsVerified(lead[l]) <=> MayRefer(lead[l].status))
           /\ lead[l].referredBy # NoLead => IsVerified(lead[lead[l].referredBy])
<1>1. PrelaunchTypes /\ LeadsFollow /\ VerifiedByItsCode
    BY DEF PrelaunchIInv
<1> QED
    BY <1>1 DEF PrelaunchTypes, LeadRows, LeadsFollow, LeadFollows, VerifiedByItsCode

\* The registration is saved, over whatever the row had become.
LEMMA SaveKeeps ==
    ASSUME PrelaunchIInv, NEW v \in Visitors, SaveRegistration(v)
    PROVE  PrelaunchIInv'
<1>1. PrelaunchTypes /\ VisitsKnow
    BY DEF PrelaunchIInv
<1>2. visitor[v] \in Visits /\ visitor[v].pc = "save" /\ visitor[v].by \in Leads \cup {NoLead}
    BY <1>1 DEF PrelaunchTypes, Visits, SaveRegistration
<1>3. PICK l \in Leads : l = Of(v)
    BY <1>1, <1>2 DEF PrelaunchTypes, Of
<1>4. CASE visitor[v].saw.new /\ lead[l].status # "NONE"
    <2>1. /\ visitor' = [visitor EXCEPT ![v] = NoVisit]
          /\ UNCHANGED <<lead, otps, links, knownLinks, funnel, clockwork, staleLeads, doubled>>
        BY <1>3, <1>4 DEF SaveRegistration
    <2> QED BY <1>1, <2>1, EndMoves, VisitStep
<1>5. CASE ~(visitor[v].saw.new /\ lead[l].status # "NONE")
    <2>0. PICK t \in Nat : t = links[l] + 1
        BY <1>1 DEF PrelaunchTypes
    <2> DEFINE r == [lead[l] EXCEPT !.status = "PENDING_OTP", !.access = t, !.referredBy = visitor[v].by]
    <2>1. /\ links' = [links EXCEPT ![l] = @ + 1]
          /\ lead' = [lead EXCEPT ![l].status = "PENDING_OTP", ![l].access = t,
                                  ![l].referredBy = visitor[v].by]
          /\ visitor' = [visitor EXCEPT ![v].pc = "record", ![v].link = t]
          /\ staleLeads' = IF IsVerified(lead[l]) THEN staleLeads \cup {l} ELSE staleLeads
          /\ UNCHANGED <<otps, knownLinks, funnel, clockwork, doubled>>
        BY <1>3, <1>5, <2>0 DEF SaveRegistration
    <2>2. /\ lead[l] \in LeadRows
          /\ lead[l].status \in LeadStatuses /\ lead[l].place \in Nat /\ lead[l].access \in Nat
          /\ lead[l].recovery \in Nat /\ lead[l].referredBy \in Leads \cup {NoLead}
          /\ links[l] \in Nat
          /\ IsVerified(lead[l]) => /\ funnel[l]["REGISTRATION_COMPLETED"] > 0
                                    /\ \E i \in DOMAIN otps[l] : otps[l][i].sent /\ otps[l][i].proved
        BY LeadIs
    <2>3. /\ r \in LeadRows /\ r.place = lead[l].place /\ r.status = "PENDING_OTP"
          /\ r.referredBy = visitor[v].by
        BY <1>2, <2>2 DEF LeadRows, LeadStatuses
    <2>4. lead' = [lead EXCEPT ![l] = r]
        BY <2>1
    <2> HIDE DEF r
    <2>5. visitor[v].by # NoLead => IsVerified(lead[visitor[v].by])
        BY <1>1 DEF VisitsKnow, VisitKnows
    <2>6. OtpsGrow /\ staleLeads \subseteq staleLeads' /\ ~MayRefer(r.status)
          /\ (IsVerified(r) <=> IsVerified(lead[l]))
        BY <2>1, <2>3 DEF OtpsGrow, MayRefer, IsVerified
    <2>7. l \notin staleLeads' => ~IsVerified(lead[l])
        BY <2>1
    <2>8. /\ lead' \in [Leads -> LeadRows] /\ Grows
          /\ LeadsFollow' /\ NoCycles' /\ VerifiedByItsCode'
        BY <2>1, <2>2, <2>3, <2>4, <2>5, <2>6, <2>7, LeadWritten
    <2>9. RowTypes'
        BY <1>1, <2>1, <2>8 DEF RowTypes, PrelaunchTypes
    <2>10. VisitMoves(v)
        <3>1. /\ visitor' \in [Visitors -> Visits]
              /\ \A w \in Visitors \ {v} : visitor'[w] = visitor[w]
              /\ visitor'[v].pc = "record" /\ visitor'[v].lead = visitor[v].lead
              /\ visitor'[v].saw = visitor[v].saw /\ visitor'[v].by = visitor[v].by
            BY <1>1, <2>1 DEF PrelaunchTypes, Visits, VisitorPCs
        <3>2. VisitKnows(v) /\ visitor[v].saw.referredBy \in Leads \cup {NoLead}
            BY <1>1, <1>2 DEF VisitsKnow, Visits, Sights
        <3>3. VisitKnows(v)'
            BY <1>2, <2>8, <3>1, <3>2 DEF VisitKnows, Grows, WithToken
        <3> QED BY <1>3, <3>1, <3>3 DEF VisitMoves, Of
    <2>11. \A m \in Leads : Good(m)' \subseteq Good(m)
        BY <2>1 DEF Good, Live
    <2>12. GoodStep
        BY <2>8, <2>9, <2>10, <2>11 DEF GoodStep
    <2> QED BY <2>12, GoodStepKeeps
<1> QED
    BY <1>4, <1>5

\* Another token waits beside the one of a verified phone.
LEMMA RecoverKeeps ==
    ASSUME PrelaunchIInv, NEW v \in Visitors, NEW l \in Leads, RecoverAccess(v, l)
    PROVE  PrelaunchIInv'
<1>1. PrelaunchTypes /\ LeadsFollow
    BY DEF PrelaunchIInv
<1>2. /\ lead[l] \in LeadRows
      /\ lead[l].status \in LeadStatuses /\ lead[l].place \in Nat /\ lead[l].access \in Nat
      /\ lead[l].recovery \in Nat /\ lead[l].referredBy \in Leads \cup {NoLead}
      /\ links[l] \in Nat
      /\ IsVerified(lead[l]) => /\ funnel[l]["REGISTRATION_COMPLETED"] > 0
                                /\ \E i \in DOMAIN otps[l] : otps[l][i].sent /\ otps[l][i].proved
      /\ MayRefer(lead[l].status) => IsVerified(lead[l])
      /\ l \notin staleLeads => (IsVerified(lead[l]) <=> MayRefer(lead[l].status))
      /\ lead[l].referredBy # NoLead => IsVerified(lead[lead[l].referredBy])
    BY LeadIs
<1>3. PICK t \in Nat : t = links[l] + 1
    BY <1>2
<1> DEFINE r == [lead[l] EXCEPT !.recovery = t]
           V == [NoVisit EXCEPT !.pc = "check", !.lead = l, !.saw = Seen(lead[l]), !.link = t]
<1>4. /\ r \in LeadRows /\ r.place = lead[l].place /\ r.status = lead[l].status
      /\ r.referredBy = lead[l].referredBy
    BY <1>2 DEF LeadRows
<1>5. /\ lead' = [lead EXCEPT ![l] = r] /\ visitor' = [visitor EXCEPT ![v] = V]
      /\ links' = [links EXCEPT ![l] = @ + 1]
      /\ UNCHANGED <<otps, knownLinks, funnel, clockwork, staleLeads, doubled>> /\ IsVerified(lead[l])
    BY <1>3 DEF RecoverAccess, Recovering
<1>6. "check" \in VisitorPCs
    BY DEF VisitorPCs
<1>7. BeginsAs(V, "check", l, t, 0)
    BY <1>1, <1>6, FreshVisit
<1> HIDE DEF r, V
<1>8. OtpsGrow /\ (IsVerified(r) <=> IsVerified(lead[l]))
    BY <1>4, <1>5 DEF OtpsGrow, IsVerified
<1>9. /\ lead' \in [Leads -> LeadRows] /\ Grows
      /\ LeadsFollow' /\ NoCycles' /\ VerifiedByItsCode'
    BY <1>2, <1>4, <1>5, <1>8, LeadWritten
<1>10. RowTypes'
    BY <1>1, <1>5, <1>9 DEF RowTypes, PrelaunchTypes
<1>11. funnel'[l]["REGISTRATION_COMPLETED"] > 0
    BY <1>2, <1>5
<1>12. VisitMoves(v)
    BY <1>1, <1>5, <1>7, <1>9, <1>11, BeginMoves
<1>13. \A m \in Leads : Good(m)' \subseteq Good(m)
    BY <1>5 DEF Good, Live
<1>14. GoodStep
    BY <1>9, <1>10, <1>12, <1>13 DEF GoodStep
<1> QED BY <1>14, GoodStepKeeps

\* A lead becomes a customer.
LEMMA ConvertKeeps ==
    ASSUME PrelaunchIInv, NEW l \in Leads, ConvertLead(l)
    PROVE  PrelaunchIInv'
<1>1. PrelaunchTypes
    BY DEF PrelaunchIInv
<1>2. /\ lead[l] \in LeadRows
      /\ lead[l].status \in LeadStatuses /\ lead[l].place \in Nat /\ lead[l].access \in Nat
      /\ lead[l].recovery \in Nat /\ lead[l].referredBy \in Leads \cup {NoLead}
      /\ IsVerified(lead[l]) => /\ funnel[l]["REGISTRATION_COMPLETED"] > 0
                                /\ \E i \in DOMAIN otps[l] : otps[l][i].sent /\ otps[l][i].proved
      /\ lead[l].referredBy # NoLead => IsVerified(lead[lead[l].referredBy])
    BY LeadIs
<1> DEFINE r == [lead[l] EXCEPT !.status = "CONVERTED"]
<1>3. /\ r \in LeadRows /\ r.place = lead[l].place /\ r.status = "CONVERTED"
      /\ r.referredBy = lead[l].referredBy
    BY <1>2 DEF LeadRows, LeadStatuses
<1>4. /\ lead' = [lead EXCEPT ![l] = r] /\ IsVerified(lead[l])
      /\ UNCHANGED <<otps, links, knownLinks, funnel, visitor, clockwork, staleLeads, doubled>>
    BY DEF ConvertLead
<1> HIDE DEF r
<1>5. OtpsGrow /\ IsVerified(r) /\ MayRefer(r.status)
    BY <1>3, <1>4 DEF OtpsGrow, IsVerified, MayRefer
<1>6. /\ lead' \in [Leads -> LeadRows] /\ Grows
      /\ LeadsFollow' /\ NoCycles' /\ VerifiedByItsCode'
    BY <1>2, <1>3, <1>4, <1>5, LeadWritten
<1>7. RowTypes'
    BY <1>1, <1>4, <1>6 DEF RowTypes, PrelaunchTypes
<1>8. \A m \in Leads : Good(m)' \subseteq Good(m)
    BY <1>4 DEF Good, Live
<1>9. GoodStep
    BY <1>4, <1>6, <1>7, <1>8 DEF GoodStep
<1> QED BY <1>9, GoodStepKeeps

\* A phone is verified, or another token takes the place of the first.
LEMMA CommitKeeps ==
    ASSUME PrelaunchIInv, NEW v \in Visitors, CommitVerification(v)
    PROVE  PrelaunchIInv'
<1>1. PrelaunchTypes /\ VisitsKnow
    BY DEF PrelaunchIInv
<1>2. /\ otps' \in [Leads -> Seq(OtpRows)] /\ OtpsGrow
      /\ \A m \in Leads : Good(m)' \subseteq Good(m)
      /\ Of(v) \in Leads /\ visitor[v].otp \in DOMAIN otps'[Of(v)]
      /\ otps'[Of(v)][visitor[v].otp].sent /\ otps'[Of(v)][visitor[v].otp].proved
    BY <1>1, CommitMoves
<1>3. PICK l \in Leads : l = Of(v)
    BY <1>2
<1>4. /\ lead[l] \in LeadRows
      /\ lead[l].status \in LeadStatuses /\ lead[l].place \in Nat /\ lead[l].access \in Nat
      /\ lead[l].recovery \in Nat /\ lead[l].referredBy \in Leads \cup {NoLead}
      /\ clockwork \in Nat \ {0}
      /\ MayRefer(lead[l].status) => IsVerified(lead[l])
      /\ l \notin staleLeads => (IsVerified(lead[l]) <=> MayRefer(lead[l].status))
      /\ lead[l].referredBy # NoLead => IsVerified(lead[lead[l].referredBy])
    BY LeadIs
<1>5. visitor[v].link \in Nat
    BY <1>1 DEF PrelaunchTypes, Visits
<1>6. PICK r : r = Proved(v, lead[l])
    OBVIOUS
<1>7. /\ lead' = [lead EXCEPT ![l] = r] /\ clockwork' \in Nat \ {0}
      /\ UNCHANGED <<links, knownLinks, funnel, staleLeads>> /\ visitor[v].pc = "commit"
      /\ visitor' = [visitor EXCEPT ![v] = NoVisit]
      /\ doubled' \subseteq doubled \cup {l}
    BY <1>3, <1>4, <1>6 DEF CommitVerification
<1>8. r \in LeadRows /\ r.referredBy = lead[l].referredBy
      /\ \/ r.place = lead[l].place /\ r.status = lead[l].status
         \/ IsVerified(r) /\ r.status = "VERIFIED"
    <2>1. CASE visitor[v].link = visitor[v].saw.recovery
        BY <1>4, <1>5, <1>6, <2>1 DEF Proved, LeadRows
    <2>2. CASE visitor[v].link # visitor[v].saw.recovery
        <3>1. r = [lead[l] EXCEPT !.place = clockwork, !.status = "VERIFIED"]
            BY <1>6, <2>2 DEF Proved
        <3> QED BY <1>4, <3>1 DEF LeadRows, LeadStatuses, IsVerified
    <2> QED BY <2>1, <2>2
<1>9. /\ IsVerified(lead[l]) => IsVerified(r)
      /\ MayRefer(r.status) => IsVerified(r)
      /\ l \notin staleLeads' => (IsVerified(r) <=> MayRefer(r.status))
    BY <1>4, <1>7, <1>8 DEF IsVerified, MayRefer
<1>10. /\ funnel[l]["REGISTRATION_COMPLETED"] > 0
       /\ \E i \in DOMAIN otps'[l] : otps'[l][i].sent /\ otps'[l][i].proved
    BY <1>1, <1>2, <1>3, <1>7 DEF VisitsKnow, VisitKnows, WithToken
<1>11. /\ lead' \in [Leads -> LeadRows] /\ Grows
       /\ LeadsFollow' /\ NoCycles' /\ VerifiedByItsCode'
    BY <1>2, <1>4, <1>7, <1>8, <1>9, <1>10, LeadWritten
<1>12. RowTypes'
    BY <1>1, <1>2, <1>7, <1>11 DEF RowTypes, PrelaunchTypes
<1>13. VisitMoves(v)
    BY <1>1, <1>7, EndMoves
<1>14. GoodStep
    BY <1>2, <1>11, <1>12, <1>13 DEF GoodStep
<1> QED BY <1>14, GoodStepKeeps

-----------------------------------------------------------------------------
(* What is proved.                                                         *)

\* The list starts empty.
LEMMA InitPrelaunch == PrelaunchInit => PrelaunchIInv
<1> SUFFICES ASSUME PrelaunchInit PROVE PrelaunchIInv
    OBVIOUS
<1>1. /\ NoVisit \in Visits /\ NoVisit.pc = "idle" /\ NoVisit.by = NoLead
      /\ NoVisit.saw.referredBy = NoLead
    BY NoVisitIs
<1>2. /\ Unregistered \in LeadRows /\ Unregistered.referredBy = NoLead /\ Unregistered.place = 0
      /\ Unregistered.status = "NONE"
    BY DEF Unregistered, LeadRows, LeadStatuses
<1>3. /\ \A l \in Leads : lead[l] = Unregistered /\ otps[l] = <<>> /\ knownLinks[l] = {}
      /\ \A v \in Visitors : visitor[v] = NoVisit
    BY DEF PrelaunchInit
<1>4. PrelaunchTypes
    <2>1. lead \in [Leads -> LeadRows] /\ visitor \in [Visitors -> Visits]
        BY <1>1, <1>2 DEF PrelaunchInit
    <2>2. otps \in [Leads -> Seq(OtpRows)]
        BY EmptySeq DEF PrelaunchInit
    <2>3. funnel \in [Leads -> [FunnelSteps -> Nat]]
        BY DEF PrelaunchInit
    <2> QED BY <1>1, <1>3, <2>1, <2>2, <2>3 DEF PrelaunchTypes, PrelaunchInit
<1>5. VisitsKnow
    BY <1>1, <1>3, Zenon DEF VisitsKnow, VisitKnows, WithToken
<1>6. \A l \in Leads : ~IsVerified(lead[l]) /\ ~MayRefer(lead[l].status)
    BY <1>2, <1>3 DEF IsVerified, MayRefer
<1>7. LeadsFollow
    BY <1>2, <1>3, <1>6, Zenon DEF LeadsFollow, LeadFollows
<1>8. NoCycles /\ VerifiedByItsCode
    BY <1>2, <1>3, <1>6, PrelaunchAssumption, Zenon DEF NoCycles, VerifiedByItsCode
<1>9. OneGoodCode
    <2>1. \A l \in Leads : {i \in Live(l) : otps[l][i].done} = {}
        BY <1>3, EmptySeq DEF Live
    <2> QED BY <2>1, FS_EmptySet DEF OneGoodCode
<1> QED
    BY <1>4, <1>5, <1>7, <1>8, <1>9 DEF PrelaunchIInv

\* Every step keeps the invariant.
LEMMA PrelaunchStep == PrelaunchIInv /\ [PrelaunchNext]_prelaunchVars => PrelaunchIInv'
<1> SUFFICES ASSUME PrelaunchIInv, [PrelaunchNext]_prelaunchVars PROVE PrelaunchIInv'
    OBVIOUS
<1>1. ASSUME NEW v \in Visitors, NEW l \in Leads,
             StartRegistration(v, l) \/ RecoverAccess(v, l) \/ ResendOtp(v, l) \/ ReadOtp(v, l)
      PROVE  PrelaunchIInv'
    BY <1>1, StartKeeps, RecoverKeeps, ResendKeeps, ReadOtpKeeps
<1>2. ASSUME NEW v \in Visitors,
             \/ ResolveReferrer(v) \/ SaveRegistration(v) \/ RecordRegistration(v)
             \/ CheckSend(v) \/ CreateOtp(v) \/ DeliverOtp(v) \/ Supersede(v)
             \/ WrongOtp(v) \/ CommitVerification(v) \/ VisitDies(v)
      PROVE  PrelaunchIInv'
    BY <1>2, ReferKeeps, SaveKeeps, RecordKeeps, CheckKeeps, CreateKeeps, DeliverKeeps,
       SupersedeKeeps, WrongKeeps, CommitKeeps, DiesKeeps
<1>3. ASSUME NEW l \in Leads, ConvertLead(l) \/ MinutePasses(l)
      PROVE  PrelaunchIInv'
    BY <1>3, ConvertKeeps, MinuteKeeps
<1>4. CASE UNCHANGED prelaunchVars
    <2>1. UNCHANGED <<lead, otps, links, knownLinks, funnel, clockwork, staleLeads, doubled>>
        BY <1>4 DEF prelaunchVars
    <2>2. UNCHANGED visitor
        BY <1>4 DEF prelaunchVars
    <2> QED BY <2>1, <2>2, VisitStep
<1> QED
    BY <1>1, <1>2, <1>3, <1>4 DEF PrelaunchNext

\* The registrations counted of each phone.
CountOf == [l \in Leads |-> funnel[l]["REGISTRATION_COMPLETED"]]

\* As many phones verified, at most, as registrations were counted.
LEMMA FunnelShown == PrelaunchIInv => FunnelNarrows
<1> SUFFICES ASSUME PrelaunchIInv PROVE FunnelNarrows
    OBVIOUS
<1> DEFINE T == {l \in Leads : MayRefer(lead[l].status)}
<1>1. \A l \in Leads : CountOf[l] \in Nat
    BY DEF PrelaunchIInv, PrelaunchTypes, FunnelSteps, CountOf
<1>2. \A l \in T : CountOf[l] > 0
    BY DEF PrelaunchIInv, LeadsFollow, LeadFollows, CountOf
<1>3. SubmittedTotal = SumOver(CountOf, Leads)
    <2>1. PICK r : r = "REGISTRATION_COMPLETED"
        OBVIOUS
    <2>2. SubmittedTotal = ColumnSum(funnel, r, Leads)
        BY <2>1 DEF SubmittedTotal, ColumnSum, MapThenSumSet, MapThenFoldSet, FirstOf
    <2>3. ColumnSum(funnel, r, Leads) = SumOver([l \in Leads |-> funnel[l][r]], Leads)
        BY SumOfColumn
    <2> QED BY <2>1, <2>2, <2>3 DEF CountOf
<1>4. T \subseteq Leads /\ VerifiedTotal = Cardinality(T)
    BY DEF VerifiedTotal
<1> HIDE DEF T
<1> QED
    BY <1>1, <1>2, <1>3, <1>4, SumCounts, PrelaunchAssumption DEF FunnelNarrows

\* The invariant is stronger than what the run checks.
LEMMA PrelaunchShown == PrelaunchIInv => PrelaunchInv
<1> SUFFICES ASSUME PrelaunchIInv PROVE PrelaunchInv
    OBVIOUS
<1>1. PrelaunchTypeOK
    <2>1. PrelaunchTypes
        BY DEF PrelaunchIInv
    <2>2. ASSUME NEW l \in Leads
          PROVE  /\ lead[l].status \in LeadStatuses /\ lead[l].referredBy \in Leads \cup {NoLead}
                 /\ \A i \in DOMAIN otps[l] : otps[l][i].state \in OtpStates
        BY <2>1, LeadIs, RowIs
    <2>3. \A v \in Visitors : visitor[v].pc \in VisitorPCs
        BY <2>1 DEF PrelaunchTypes, Visits
    <2> QED BY <2>2, <2>3 DEF PrelaunchTypeOK
<1>2. ReferralsAreAForest
    BY DEF PrelaunchIInv, NoCycles, ReferralsAreAForest, Invited
<1>3. FunnelNarrows
    BY FunnelShown
<1> QED
    BY <1>1, <1>2, <1>3 DEF PrelaunchIInv, PrelaunchInv

\* A place may change only when two requests verified the phone at once.
PlaceStays == \A l \in Leads : IsVerified(lead[l]) /\ doubled' = {} => lead'[l].place = lead[l].place

\* A step on one lead, which keeps its place, keeps every place.
LEMMA OnePlace ==
    ASSUME PrelaunchTypes, NEW l, NEW r, lead' = [lead EXCEPT ![l] = r],
           l \in Leads => r.place = lead[l].place
    PROVE  PlaceStays
BY DEF PrelaunchTypes, PlaceStays

\* Every step keeps the places.
LEMMA PlaceStep == PrelaunchIInv /\ [PrelaunchNext]_prelaunchVars => PlaceStays
<1> SUFFICES ASSUME PrelaunchIInv, [PrelaunchNext]_prelaunchVars PROVE PlaceStays
    OBVIOUS
<1>1. CASE UNCHANGED lead
    BY <1>1 DEF PlaceStays
<1>2. ASSUME NEW v \in Visitors, SaveRegistration(v) PROVE PlaceStays
    <2>1. PICK l : l = Of(v)
        OBVIOUS
    <2> DEFINE t == links[l] + 1
               b == visitor[v].by
    <2>4. \/ UNCHANGED lead
          \/ lead' = [lead EXCEPT ![l].status = "PENDING_OTP", ![l].access = t, ![l].referredBy = b]
        BY <1>2, <2>1 DEF SaveRegistration
    <2>2. CASE UNCHANGED lead
        BY <1>1, <2>2
    <2>3. CASE lead' # lead
        <3>1. lead' = [lead EXCEPT ![l] = [@ EXCEPT !.status = "PENDING_OTP", !.access = t,
                                                    !.referredBy = b]]
            BY <2>4, <2>3
        <3>2. l \in Leads => lead[l] \in LeadRows
            BY DEF PrelaunchIInv, PrelaunchTypes
        <3>3. l \in Leads => [lead[l] EXCEPT !.status = "PENDING_OTP", !.access = t,
                                             !.referredBy = b].place = lead[l].place
            BY <3>2 DEF LeadRows
        <3> QED BY <3>1, <3>3, OnePlace DEF PrelaunchIInv
    <2> QED BY <2>2, <2>3
<1>3. ASSUME NEW v \in Visitors, NEW l \in Leads, RecoverAccess(v, l) PROVE PlaceStays
    BY <1>3 DEF RecoverAccess, Recovering, PrelaunchIInv, PrelaunchTypes, PlaceStays, LeadRows
<1>4. ASSUME NEW l \in Leads, ConvertLead(l) PROVE PlaceStays
    BY <1>4 DEF ConvertLead, PrelaunchIInv, PrelaunchTypes, PlaceStays, LeadRows
<1>5. ASSUME NEW v \in Visitors, CommitVerification(v) PROVE PlaceStays
    <2>1. PICK l : l = Of(v) /\ lead' = [lead EXCEPT ![l] = Proved(v, lead[l])]
        BY <1>5 DEF CommitVerification
    <2>2. CASE visitor[v].link = visitor[v].saw.recovery
        <3>1. Proved(v, lead[l]) = [lead[l] EXCEPT !.access = visitor[v].link, !.recovery = 0]
            BY <2>2 DEF Proved
        <3>2. l \in Leads => Proved(v, lead[l]).place = lead[l].place
            BY <3>1 DEF PrelaunchIInv, PrelaunchTypes, LeadRows
        <3> QED BY <2>1, <3>2, OnePlace DEF PrelaunchIInv
    <2>3. CASE visitor[v].link # visitor[v].saw.recovery
        <3>1. l \in Leads /\ ~visitor[v].saw.verified
            BY <1>5, <2>1, <2>3, WritesItsCode DEF PrelaunchIInv, VisitsKnow, VisitKnows, CommitVerification
        <3>2. IsVerified(lead[l]) => doubled' # {}
            BY <1>5, <2>1, <2>3, <3>1 DEF CommitVerification
        <3>3. \A m \in Leads \ {l} : lead'[m] = lead[m]
            BY <2>1 DEF PrelaunchIInv, PrelaunchTypes
        <3> QED BY <3>1, <3>2, <3>3 DEF PlaceStays
    <2> QED BY <2>2, <2>3
<1> QED
    BY <1>1, <1>2, <1>3, <1>4, <1>5
    DEF PrelaunchNext, prelaunchVars, StartRegistration, ResendOtp, ReadOtp, ResolveReferrer,
        RecordRegistration, CheckSend, CreateOtp, DeliverOtp, Supersede, WrongOtp, VisitDies,
        MinutePasses

\* A phone is verified by the code texted to it, the invitations form a forest
\* and no more registrations are verified than counted (prelaunch.service.ts).
THEOREM PrelaunchInvariance == PrelaunchSpec => []PrelaunchInv
<1> QED
    BY InitPrelaunch, PrelaunchStep, PrelaunchShown, PTL DEF PrelaunchSpec

\* Who verified keeps the place (verifyOtp of prelaunch.service.ts).
THEOREM PlaceIsKeptAlways == PrelaunchSpec => PlaceIsKept
<1>1. PrelaunchIInv /\ [PrelaunchNext]_prelaunchVars =>
          [\A l \in Leads : IsVerified(lead[l]) /\ doubled' = {} => lead'[l].place = lead[l].place]_prelaunchVars
    BY PlaceStep DEF PlaceStays
<1> QED
    BY <1>1, InitPrelaunch, PrelaunchStep, PTL DEF PrelaunchSpec, PlaceIsKept

-----------------------------------------------------------------------------
(***************************************************************************)
(* LaunchMarkets                                                           *)
(***************************************************************************)
-----------------------------------------------------------------------------
(* The inductive invariant.                                                *)

\* There is a fallback once a start has written it.
FallbackIsWritten == starts > 0 /\ FallbackSlug \notin todo => fallback # {}

\* A publication is of an application, in a market that exists.
PublicationsKnow == \A p \in Publishers :
    publication[p].step # "idle" => publication[p].of \in Applications /\ publication[p].in \in Exist

\* An application has one partner at most.
PartnersDiffer == \A p, q \in partners : p[1] = q[1] => p = q

\* The inductive invariant of the markets.
LaunchIInv == LaunchTypeOK /\ FallbackIsWritten /\ PublicationsKnow /\ PartnersDiffer

-----------------------------------------------------------------------------
(* The mappings.                                                           *)

DistrictKey(x) == [kind |-> "district", name |-> x]
ProvinceKey(x) == [kind |-> "province", name |-> ProvinceOf[x]]

\* The three mappings that a place may be found by.
LEMMA KeysAre ==
    ASSUME NEW x \in Districts
    PROVE  /\ KeysOf(x) = {DepartmentKey(DepartmentOf[x]), ProvinceKey(x), DistrictKey(x)}
           /\ KeysOf(x) \subseteq Keys
           /\ DepartmentKey(DepartmentOf[x]).kind = "department"
           /\ ProvinceKey(x).kind = "province" /\ DistrictKey(x).kind = "district"
BY DEF KeysOf, Keys, DepartmentKey, ProvinceKey, DistrictKey

\* The key of a department is that of no district.
LEMMA DepartmentsAreNoDistricts ==
    ASSUME NEW d, NEW x PROVE DepartmentKey(d) # DistrictKey(x)
BY DEF DepartmentKey, DistrictKey

\* A key of a district is a key.
LEMMA DistrictKeys ==
    ASSUME NEW x \in Districts PROVE DistrictKey(x) \in Keys
BY DEF DistrictKey, Keys

-----------------------------------------------------------------------------
(* Which market a place is in.                                             *)

\* Of the mappings of a place, one is the most specific.
LEMMA OneIsBest ==
    ASSUME NEW x \in Districts, Found(x) # {}
    PROVE  \E k \in Found(x) : Best(x) = {k}
<1> DEFINE D == DistrictKey(x)
           P == ProvinceKey(x)
           E == DepartmentKey(DepartmentOf[x])
<1>1. /\ Found(x) \subseteq {E, P, D}
      /\ E.kind = "department" /\ P.kind = "province" /\ D.kind = "district"
    BY KeysAre DEF Found
<1>2. E # P /\ P # D /\ E # D
    BY <1>1
<1> HIDE DEF D, P, E
<1>3. CASE D \in Found(x)
    <2>1. D \in Best(x)
        BY <1>1, <1>3 DEF Best
    <2>2. \A k \in Best(x) : k = D
        BY <1>1, <1>2, <1>3 DEF Best
    <2> QED BY <1>3, <2>1, <2>2
<1>4. CASE D \notin Found(x) /\ P \in Found(x)
    <2>1. P \in Best(x)
        BY <1>1, <1>2, <1>4 DEF Best
    <2>2. \A k \in Best(x) : k = P
        BY <1>1, <1>2, <1>4 DEF Best
    <2> QED BY <1>4, <2>1, <2>2
<1>5. CASE D \notin Found(x) /\ P \notin Found(x)
    <2>1. Found(x) = {E}
        BY <1>1, <1>5
    <2> QED BY <2>1 DEF Best
<1> QED
    BY <1>3, <1>4, <1>5

\* Every market a mapping leads to exists.
LEMMA FoundExist ==
    ASSUME LaunchTypeOK, NEW x \in Districts, NEW k \in Found(x)
    PROVE  k \in Keys /\ k \in KeysOf(x) /\ serves[k] \in Exist
BY KeysAre DEF LaunchTypeOK, Found

\* A place has a market.
LEMMA MarketsShown == LaunchIInv => EveryPlaceHasAMarket
<1> SUFFICES ASSUME LaunchIInv, Serving, NEW x \in Districts
             PROVE  /\ MarketsOf(x) # {} /\ MarketsOf(x) \subseteq Exist
                    /\ Cardinality(Best(x)) = 1 \/ Found(x) = {}
    BY DEF EveryPlaceHasAMarket
<1>1. CASE Found(x) = {}
    BY <1>1 DEF MarketsOf, LaunchIInv, LaunchTypeOK, FallbackIsWritten, Serving
<1>2. CASE Found(x) # {}
    <2>1. PICK k \in Found(x) : Best(x) = {k}
        BY <1>2, OneIsBest
    <2>2. MarketsOf(x) = {serves[k]}
        BY <1>2, <2>1 DEF MarketsOf
    <2>3. serves[k] \in Exist
        BY FoundExist DEF LaunchIInv
    <2>4. Cardinality(Best(x)) = 1
        BY <2>1, FS_Singleton
    <2> QED BY <2>2, <2>3, <2>4
<1> QED
    BY <1>1, <1>2

\* The market of a place shows its businesses.
LEMMA BusinessesShown == LaunchIInv => MarketShowsItsBusinesses
<1> SUFFICES ASSUME LaunchIInv, MappedTo(fallback) = {},
                    \A x \in Districts : serves[DistrictKey(x)] # NoMarket => x \in coded,
                    NEW a \in Applications, NEW m \in MarketsOf(DistrictOf[a])
             PROVE  BelongsTo(m, a)
    BY DEF MarketShowsItsBusinesses, DistrictKey
<1>1. PICK x \in Districts : x = DistrictOf[a]
    BY LaunchAssumption
<1>2. LaunchTypeOK /\ Exist \subseteq Markets /\ NoMarket \notin Markets
    BY LaunchAssumption DEF LaunchIInv, Exist
<1>3. CASE Found(x) # {}
    <2>1. PICK k \in Found(x) : m = serves[k]
        BY <1>1, <1>3 DEF MarketsOf, Best
    <2>2. k \in Keys /\ k \in KeysOf(x)
        BY <1>2, FoundExist
    <2>3. m \notin fallback
        BY <2>1, <2>2 DEF MappedTo
    <2>4. k \in MappedTo({m}) /\ Matches(k, DistrictOf[a])
        BY <1>1, <2>1, <2>2 DEF MappedTo, Matches
    <2> QED BY <2>3, <2>4 DEF BelongsTo
<1>4. CASE Found(x) = {}
    <2>1. m \in fallback
        BY <1>1, <1>4 DEF MarketsOf
    <2>2. ASSUME NEW k \in MappedTo(Exist \ fallback), Matches(k, DistrictOf[a]) PROVE FALSE
        <3>1. k \in KeysOf(x) /\ serves[k] # NoMarket
            BY <1>1, <1>2, <2>2 DEF MappedTo, Matches
        <3>2. k.kind = "district" => k = DistrictKey(x)
            BY <3>1, KeysAre
        <3>3. k \in Found(x)
            BY <3>1, <3>2 DEF Found
        <3> QED BY <1>4, <3>3
    <2> QED BY <2>1, <2>2 DEF BelongsTo
<1> QED
    BY <1>3, <1>4

\* An application has one partner.
LEMMA PartnersShown == LaunchIInv => OnePartnerEach
<1> SUFFICES ASSUME LaunchIInv, NEW a \in Applications
             PROVE  Cardinality(PartnerOf(a)) <= 1
    BY DEF OnePartnerEach
<1>1. CASE PartnerOf(a) = {}
    BY <1>1, FS_EmptySet
<1>2. CASE PartnerOf(a) # {}
    <2>1. PICK p : p \in PartnerOf(a)
        BY <1>2
    <2>2. PartnerOf(a) = {p}
        BY <2>1 DEF PartnerOf, LaunchIInv, PartnersDiffer
    <2> QED BY <2>2, FS_Singleton
<1> QED
    BY <1>1, <1>2

\* The invariant is stronger than what the run checks.
LEMMA LaunchShown == LaunchIInv => LaunchInv
BY MarketsShown, BusinessesShown, PartnersShown DEF LaunchIInv, LaunchInv

-----------------------------------------------------------------------------
(* The steps.                                                              *)

\* There is no market before the first start.
LEMMA InitLaunch == LaunchInit => LaunchIInv
<1> SUFFICES ASSUME LaunchInit PROVE LaunchIInv
    OBVIOUS
<1>1. publication \in [Publishers -> [step : {"idle", "partner", "status"},
           of : Applications \cup {NoApplication}, in : Markets \cup {NoMarket}, saw : BOOLEAN]]
    BY DEF LaunchInit, NotPublishing
<1>2. application \in [Applications -> ApplicationStatuses]
    BY DEF LaunchInit, ApplicationStatuses
<1>3. LaunchTypeOK
    BY <1>1, <1>2, LaunchAssumption DEF LaunchInit, LaunchTypeOK
<1>4. PublicationsKnow
    BY DEF LaunchInit, NotPublishing, PublicationsKnow
<1> QED
    BY <1>3, <1>4 DEF LaunchInit, LaunchIInv, FallbackIsWritten, PartnersDiffer

\* A start of the service.
LEMMA StartServiceKeeps == ASSUME LaunchIInv, StartService PROVE LaunchIInv'
<1>1. LaunchTypeOK'
    BY LaunchAssumption DEF LaunchIInv, LaunchTypeOK, StartService, RestOfLaunch, Exist
<1> QED
    BY <1>1 DEF LaunchIInv, FallbackIsWritten, PublicationsKnow, PartnersDiffer, StartService,
                RestOfLaunch, Exist

\* What the steps on markets share: a market that exists goes on existing.
LEMMA MarketsGrow ==
    ASSUME LaunchTypeOK, NEW m \in Markets, NEW s \in Slugs, slug' = [slug EXCEPT ![m] = s]
    PROVE  /\ slug' \in [Markets -> Slugs \cup {NoSlug}] /\ Exist \subseteq Exist' /\ m \in Exist'
BY LaunchAssumption DEF LaunchTypeOK, Exist

\* The partners and the publications stay true when markets are added.
LEMMA PartnersRest ==
    ASSUME LaunchIInv, RestOfLaunch, Exist \subseteq Exist'
    PROVE  /\ (application \in [Applications -> ApplicationStatuses])'
           /\ (partners \subseteq Applications \X Exist)'
           /\ (publication \in [Publishers -> [step : {"idle", "partner", "status"},
                  of : Applications \cup {NoApplication}, in : Markets \cup {NoMarket}, saw : BOOLEAN]])'
           /\ PublicationsKnow' /\ PartnersDiffer'
<1>1. partners \subseteq Applications \X Exist
    BY DEF LaunchIInv, LaunchTypeOK
<1>2. Applications \X Exist \subseteq Applications \X Exist'
    OBVIOUS
<1> QED
    BY <1>1, <1>2 DEF LaunchIInv, LaunchTypeOK, RestOfLaunch, PublicationsKnow, PartnersDiffer

\* A default is written.
LEMMA WriteDefaultKeeps == ASSUME LaunchIInv, NEW s \in Slugs, WriteDefault(s) PROVE LaunchIInv'
<1>1. PICK m \in Markets :
          /\ slug' = [slug EXCEPT ![m] = s]
          /\ fallback' = IF s = FallbackSlug THEN fallback \cup {m} ELSE fallback
          /\ serves' = IF s = FallbackSlug THEN serves
                       ELSE [serves EXCEPT ![DepartmentKey(DepartmentOfSeed[s])] = m]
    BY DEF WriteDefault
<1>2. /\ slug' \in [Markets -> Slugs \cup {NoSlug}] /\ Exist \subseteq Exist' /\ m \in Exist'
    BY <1>1, MarketsGrow DEF LaunchIInv
<1>3. /\ RestOfLaunch /\ UNCHANGED <<coded, starts, saves>> /\ todo' = todo \ {s} /\ s \in todo
    BY DEF WriteDefault
<1>4. serves' \in [Keys -> Exist' \cup {NoMarket}]
    BY <1>1, <1>2 DEF LaunchIInv, LaunchTypeOK
<1>5. ASSUME NEW x \in coded PROVE x \in Districts /\ serves'[DistrictKey(x)] # NoMarket
    <2>1. x \in Districts /\ serves[DistrictKey(x)] # NoMarket
        BY DEF LaunchIInv, LaunchTypeOK, DistrictKey
    <2>2. serves'[DistrictKey(x)] = serves[DistrictKey(x)]
        BY <1>1, <2>1, DepartmentsAreNoDistricts, DistrictKeys DEF LaunchIInv, LaunchTypeOK
    <2> QED BY <2>1, <2>2
<1>6. fallback' \subseteq Exist'
    BY <1>1, <1>2 DEF LaunchIInv, LaunchTypeOK
<1>7. LaunchTypeOK'
    BY <1>2, <1>3, <1>4, <1>5, <1>6, PartnersRest DEF LaunchIInv, LaunchTypeOK, DistrictKey
<1>8. FallbackIsWritten'
    BY <1>1, <1>3 DEF LaunchIInv, FallbackIsWritten
<1> QED
    BY <1>2, <1>3, <1>7, <1>8, PartnersRest DEF LaunchIInv

\* An administrator saves a market.
LEMMA SaveMarketKeeps ==
    ASSUME LaunchIInv, NEW m \in Exist \cup NewMarket, SaveMarket(m) PROVE LaunchIInv'
<1>1. m \in Markets
    <2>1. CASE Markets = Exist
        BY <2>1 DEF NewMarket
    <2>2. CASE Markets # Exist
        <3>1. \E n \in Markets : n \notin Exist
            BY <2>2 DEF Exist
        <3> QED BY <2>2, <3>1 DEF NewMarket, Exist
    <2> QED BY <2>1, <2>2
<1>2. PICK s \in Slugs, K \in SUBSET Keys, C \in SUBSET Districts :
          /\ \A o \in Exist \ {m} : slug[o] # s
          /\ K \cap MappedTo(Exist \ {m}) = {}
          /\ C \subseteq {x \in Districts : [kind |-> "district", name |-> x] \in K}
          /\ slug' = [slug EXCEPT ![m] = s]
          /\ serves' = [k \in Keys |-> IF k \in K THEN m
                                       ELSE IF serves[k] = m THEN NoMarket ELSE serves[k]]
          /\ coded' = C \cup {x \in coded : serves[[kind |-> "district", name |-> x]] # m}
    BY Zenon DEF SaveMarket
<1>3. /\ slug' \in [Markets -> Slugs \cup {NoSlug}] /\ Exist \subseteq Exist' /\ m \in Exist'
    BY <1>1, <1>2, MarketsGrow DEF LaunchIInv
<1>4. /\ RestOfLaunch /\ UNCHANGED <<fallback, todo, starts>> /\ saves' = saves + 1 /\ saves < MaxSaves
    BY DEF SaveMarket
<1>5. serves' \in [Keys -> Exist' \cup {NoMarket}]
    BY <1>2, <1>3 DEF LaunchIInv, LaunchTypeOK
<1>6. ASSUME NEW x \in coded' PROVE x \in Districts /\ serves'[DistrictKey(x)] # NoMarket
    <2>1. m # NoMarket
        BY <1>1, LaunchAssumption
    <2>2. CASE x \in C
        <3>1. x \in Districts /\ DistrictKey(x) \in K
            BY <1>2, <2>2 DEF DistrictKey
        <3> QED BY <1>2, <2>1, <3>1
    <2>3. CASE x \notin C
        <3>1. x \in coded /\ serves[DistrictKey(x)] # m
            BY <1>2, <2>3 DEF DistrictKey
        <3>2. x \in Districts /\ serves[DistrictKey(x)] # NoMarket
            BY <3>1 DEF LaunchIInv, LaunchTypeOK, DistrictKey
        <3> QED BY <1>2, <2>1, <3>1, <3>2, DistrictKeys
    <2> QED BY <2>2, <2>3
<1>7. saves' \in 0..MaxSaves
    BY <1>4, LaunchAssumption DEF LaunchIInv, LaunchTypeOK
<1>8. LaunchTypeOK'
    BY <1>3, <1>4, <1>5, <1>6, <1>7, PartnersRest DEF LaunchIInv, LaunchTypeOK, DistrictKey
<1>9. FallbackIsWritten'
    BY <1>4 DEF LaunchIInv, FallbackIsWritten
<1> QED
    BY <1>3, <1>4, <1>8, <1>9, PartnersRest DEF LaunchIInv

\* The markets stay true when only the businesses change.
LEMMA BusinessStep ==
    ASSUME LaunchIInv, MarketsRest,
           application' \in [Applications -> ApplicationStatuses],
           partners' \subseteq Applications \X Exist, PartnersDiffer',
           UNCHANGED publication
           \/ \E p \in Publishers, r \in [step : {"idle", "partner", "status"},
                  of : Applications \cup {NoApplication}, in : Markets \cup {NoMarket}, saw : BOOLEAN] :
                 /\ publication' = [publication EXCEPT ![p] = r]
                 /\ r.step # "idle" => r.of \in Applications /\ r.in \in Exist
    PROVE  LaunchIInv'
<1>1. Exist' = Exist
    BY DEF MarketsRest, Exist
<1>2. /\ publication' \in [Publishers -> [step : {"idle", "partner", "status"},
             of : Applications \cup {NoApplication}, in : Markets \cup {NoMarket}, saw : BOOLEAN]]
      /\ PublicationsKnow'
    BY <1>1 DEF LaunchIInv, LaunchTypeOK, PublicationsKnow
<1>3. LaunchTypeOK'
    BY <1>1, <1>2 DEF LaunchIInv, LaunchTypeOK, MarketsRest
<1> QED
    BY <1>2, <1>3 DEF LaunchIInv, FallbackIsWritten, MarketsRest

\* What the businesses have before a step.
LEMMA BusinessIs ==
    ASSUME LaunchIInv
    PROVE  /\ application \in [Applications -> ApplicationStatuses]
           /\ partners \subseteq Applications \X Exist /\ PartnersDiffer
           /\ "RECEIVED" \in ApplicationStatuses /\ "PARTNER" \in ApplicationStatuses
           /\ Exist \subseteq Markets
BY DEF LaunchIInv, LaunchTypeOK, ApplicationStatuses, Exist

\* A business applies, or its application is given a status.
LEMMA ApplyKeeps ==
    ASSUME LaunchIInv, NEW a \in Applications, Apply(a) \/ UpdateApplicationStatus(a)
    PROVE  LaunchIInv'
<1>1. MarketsRest /\ UNCHANGED <<partners, publication>>
    BY DEF Apply, UpdateApplicationStatus
<1>2. application' \in [Applications -> ApplicationStatuses]
    BY BusinessIs DEF Apply, UpdateApplicationStatus
<1>3. PartnersDiffer'
    BY <1>1, BusinessIs DEF PartnersDiffer
<1> QED
    BY <1>1, <1>2, <1>3, BusinessIs, BusinessStep

\* A publication begins.
LEMMA BeginPublishKeeps ==
    ASSUME LaunchIInv, NEW p \in Publishers, BeginPublish(p) PROVE LaunchIInv'
<1>1. MarketsRest /\ UNCHANGED <<partners, application>>
    BY DEF BeginPublish
<1>2. PICK a \in Applications, m \in Exist :
          publication' = [publication EXCEPT ![p] =
               [step |-> "partner", of |-> a, in |-> m, saw |-> PartnerOf(a) # {}]]
    BY DEF BeginPublish
<1>3. PICK b \in BOOLEAN : b = (PartnerOf(a) # {})
    BY Zenon
<1> DEFINE r == [step |-> "partner", of |-> a, in |-> m, saw |-> b]
<1>4. /\ r \in [step : {"idle", "partner", "status"},
                of : Applications \cup {NoApplication}, in : Markets \cup {NoMarket}, saw : BOOLEAN]
      /\ r.of \in Applications /\ r.in \in Exist
    BY BusinessIs
<1>5. publication' = [publication EXCEPT ![p] = r]
    BY <1>2, <1>3
<1>6. PartnersDiffer'
    BY <1>1, BusinessIs DEF PartnersDiffer
<1> HIDE DEF r
<1> QED
    BY <1>1, <1>4, <1>5, <1>6, BusinessIs, BusinessStep

\* The steps of a publication that goes on or ends.
LEMMA NextVisit ==
    ASSUME LaunchIInv, NEW p \in Publishers, publication[p].step # "idle"
    PROVE  LET r == [publication[p] EXCEPT !.step = "status"]
               Pubs == [step : {"idle", "partner", "status"}, of : Applications \cup {NoApplication},
                        in : Markets \cup {NoMarket}, saw : BOOLEAN] IN
           /\ NotPublishing \in Pubs /\ NotPublishing.step = "idle"
           /\ r \in Pubs /\ r.of \in Applications /\ r.in \in Exist
           /\ publication[p].of \in Applications /\ publication[p].in \in Exist
<1>1. publication[p] \in [step : {"idle", "partner", "status"}, of : Applications \cup {NoApplication},
                        in : Markets \cup {NoMarket}, saw : BOOLEAN]
    BY DEF LaunchIInv, LaunchTypeOK
<1>2. publication[p].of \in Applications /\ publication[p].in \in Exist
    BY DEF LaunchIInv, PublicationsKnow
<1> QED
    BY <1>1, <1>2 DEF NotPublishing

\* The partner is written.
LEMMA WritePartnerKeeps ==
    ASSUME LaunchIInv, NEW p \in Publishers, WritePartner(p) PROVE LaunchIInv'
<1>1. MarketsRest /\ UNCHANGED application /\ publication[p].step = "partner"
    BY DEF WritePartner
<1>2. PICK a \in Applications, m \in Exist : a = publication[p].of /\ m = publication[p].in
    BY <1>1, NextVisit
<1>3. \/ /\ publication[p].saw \/ PartnerOf(a) = {}
         /\ partners' = (IF publication[p].saw THEN partners \ PartnerOf(a) ELSE partners) \cup {<<a, m>>}
         /\ publication' = [publication EXCEPT ![p] = [publication[p] EXCEPT !.step = "status"]]
      \/ UNCHANGED partners /\ publication' = [publication EXCEPT ![p] = NotPublishing]
    BY <1>2 DEF WritePartner, CreatesPartner
<1>4. partners' \subseteq Applications \X Exist
    BY <1>2, <1>3, BusinessIs
<1>5. PartnersDiffer'
    <2>1. CASE UNCHANGED partners
        BY <2>1, BusinessIs DEF PartnersDiffer
    <2>2. CASE partners' # partners
        <3>1. \A q \in partners' : q = <<a, m>> \/ (q \in partners /\ q[1] # a)
            <4>1. /\ publication[p].saw \/ PartnerOf(a) = {}
                  /\ partners' = (IF publication[p].saw THEN partners \ PartnerOf(a) ELSE partners)
                                  \cup {<<a, m>>}
                BY <1>3, <2>2
            <4>2. TAKE q \in partners'
            <4>3. q \in partners /\ q[1] = a => q \in PartnerOf(a)
                BY DEF PartnerOf
            <4>4. CASE publication[p].saw
                BY <4>1, <4>3, <4>4
            <4>5. CASE ~publication[p].saw
                BY <4>1, <4>3, <4>5
            <4> QED BY <4>4, <4>5
        <3> QED BY <3>1, BusinessIs DEF PartnersDiffer
    <2> QED BY <2>1, <2>2
<1>6. \E r \in [step : {"idle", "partner", "status"},
                of : Applications \cup {NoApplication}, in : Markets \cup {NoMarket}, saw : BOOLEAN] :
          /\ publication' = [publication EXCEPT ![p] = r]
          /\ r.step # "idle" => r.of \in Applications /\ r.in \in Exist
    BY <1>1, <1>3, NextVisit
<1> QED
    BY <1>1, <1>4, <1>5, <1>6, BusinessIs, BusinessStep

\* The application is given its status.
LEMMA WriteStatusKeeps ==
    ASSUME LaunchIInv, NEW p \in Publishers, WriteStatus(p) PROVE LaunchIInv'
<1>1. MarketsRest /\ UNCHANGED partners /\ publication[p].step = "status"
      /\ publication' = [publication EXCEPT ![p] = NotPublishing]
    BY DEF WriteStatus
<1>2. application' \in [Applications -> ApplicationStatuses]
    BY BusinessIs DEF WriteStatus
<1>3. PartnersDiffer'
    BY <1>1, BusinessIs DEF PartnersDiffer
<1>4. \E r \in [step : {"idle", "partner", "status"},
                of : Applications \cup {NoApplication}, in : Markets \cup {NoMarket}, saw : BOOLEAN] :
          /\ publication' = [publication EXCEPT ![p] = r]
          /\ r.step # "idle" => r.of \in Applications /\ r.in \in Exist
    BY <1>1, NextVisit
<1> QED
    BY <1>1, <1>2, <1>3, <1>4, BusinessIs, BusinessStep

\* Every step keeps the invariant.
LEMMA LaunchStep == LaunchIInv /\ [LaunchNext]_launchVars => LaunchIInv'
<1> SUFFICES ASSUME LaunchIInv, [LaunchNext]_launchVars PROVE LaunchIInv'
    OBVIOUS
<1>1. CASE UNCHANGED launchVars
    <2>1. MarketsRest /\ UNCHANGED <<application, partners, publication>>
        BY <1>1 DEF launchVars, MarketsRest
    <2>2. PartnersDiffer'
        BY <2>1, BusinessIs DEF PartnersDiffer
    <2> QED BY <2>1, <2>2, BusinessIs, BusinessStep
<1> QED
    BY <1>1, StartServiceKeeps, WriteDefaultKeeps, SaveMarketKeeps, ApplyKeeps, BeginPublishKeeps,
       WritePartnerKeeps, WriteStatusKeeps DEF LaunchNext

\* Whatever the administrators do, a place is found in one market, which shows
\* the businesses there, and an application has one partner (prelaunch.service.ts).
THEOREM LaunchInvariance == LaunchSpec => []LaunchInv
<1> QED
    BY InitLaunch, LaunchStep, LaunchShown, PTL DEF LaunchSpec

-----------------------------------------------------------------------------
(***************************************************************************)
(* The inbox                                                               *)
(***************************************************************************)
-----------------------------------------------------------------------------
(* The inductive invariant.                                                *)

\* What a device began with is still there, and what it was shown is not below
\* its cursor.
ListingKnows(w) ==
    /\ listing[w].start \subseteq arrived
    /\ \A n \in listing[w].start : AudienceOf[n] \in listing[w].audiences
    /\ listing[w].filter = "read" => listing[w].start \subseteq read
    /\ \A n \in listing[w].shown : n >= listing[w].cursor

InboxIInv == InboxTypeOK /\ ListShowsAll /\ \A w \in Lists : ListingKnows(w)

-----------------------------------------------------------------------------
(* The pages.                                                              *)

\* What is left out of a page is older than all of it.
LEMMA PageIsNewest ==
    ASSUME NEW S, S \subseteq Notices, NEW n \in S \ PageOf(S), NEW c, IsLast(c, PageOf(S))
    PROVE  n < c
<1>1. /\ c \in S /\ Cardinality({m \in S : m > c}) < PageLimit
      /\ ~(Cardinality({m \in S : m > n}) < PageLimit)
    BY DEF IsLast, PageOf
<1>2. n \in Int /\ c \in Int
    BY <1>1, InboxAssumption DEF Notices
<1>3. SUFFICES ASSUME n >= c PROVE FALSE
    BY <1>2
<1>4. {m \in S : m > n} \subseteq {m \in S : m > c}
    <2> SUFFICES ASSUME NEW m \in S, m > n PROVE m > c
        OBVIOUS
    <2>1. m \in Int
        BY InboxAssumption DEF Notices
    <2> QED BY <1>2, <1>3, <2>1
<1>5. IsFiniteSet(Notices)
    BY InboxAssumption, FS_Interval DEF Notices
<1>6. IsFiniteSet({m \in S : m > c})
    BY <1>5, FS_Subset
<1>7. /\ Cardinality({m \in S : m > n}) <= Cardinality({m \in S : m > c})
      /\ Cardinality({m \in S : m > n}) \in Nat /\ Cardinality({m \in S : m > c}) \in Nat
    BY <1>4, <1>6, FS_Subset, FS_CardinalityType
<1> QED
    BY <1>1, <1>7, InboxAssumption

\* A notice that is listed was listed before it was read by others.
LEMMA SelectedShrinks ==
    ASSUME InboxIInv, NEW w \in Lists, listing' = listing,
           arrived \subseteq arrived', read \subseteq read'
    PROVE  listing[w].start \cap Selected(listing[w].filter, listing[w].audiences)'
               \subseteq Selected(listing[w].filter, listing[w].audiences)
BY DEF InboxIInv, ListingKnows, Selected

\* When notices arrive or are read, what a device knows stays true.
LEMMA NoticesMove ==
    ASSUME InboxIInv, listing' = listing, arrived \subseteq arrived', read \subseteq read',
           arrived' \subseteq Notices, read' \subseteq arrived'
    PROVE  InboxIInv'
<1>1. InboxTypeOK'
    BY DEF InboxIInv, InboxTypeOK
<1>2. ASSUME NEW w \in Lists PROVE ListingKnows(w)'
    BY DEF InboxIInv, ListingKnows
<1>3. ASSUME NEW w \in Lists
      PROVE  \A n \in listing[w].start \cap Selected(listing[w].filter, listing[w].audiences)' :
                 n >= listing[w].cursor => n \in listing[w].shown
    BY SelectedShrinks DEF InboxIInv, ListShowsAll
<1>4. ListShowsAll'
    BY <1>3 DEF InboxIInv, ListShowsAll
<1> QED
    BY <1>1, <1>2, <1>4 DEF InboxIInv

\* A listing, by what it is made of.
ListingRecord == [filter : Filters, audiences : SUBSET Audiences, cursor : 0..Newest, more : BOOLEAN,
                  start : SUBSET Notices, shown : SUBSET Notices, twice : SUBSET Notices]

\* What a listing must be for the invariant to go on.
ListingHolds(r) ==
    /\ r \in ListingRecord
    /\ \A n \in r.start \cap Selected(r.filter, r.audiences) : n >= r.cursor => n \in r.shown
    /\ r.twice = {}
    /\ \A n \in r.shown : n \in arrived /\ AudienceOf[n] \in r.audiences /\ n >= r.cursor
    /\ r.start \subseteq arrived
    /\ \A n \in r.start : AudienceOf[n] \in r.audiences
    /\ r.filter = "read" => r.start \subseteq read

\* A device lists.
LEMMA ListingMoves ==
    ASSUME InboxIInv, NEW w \in Lists, NEW r, listing' = [listing EXCEPT ![w] = r], ListingHolds(r),
           UNCHANGED <<arrived, read>>
    PROVE  InboxIInv'
<1>1. InboxTypeOK'
    BY DEF InboxIInv, InboxTypeOK, ListingHolds, ListingRecord
<1>2. \A v \in Lists : listing'[v] = IF v = w THEN r ELSE listing[v]
    BY DEF InboxIInv, InboxTypeOK
<1>3. \A v \in Lists : ListingKnows(v)'
    BY <1>2 DEF InboxIInv, ListingKnows, ListingHolds
<1>4. ListShowsAll'
    BY <1>2 DEF InboxIInv, ListShowsAll, ListingHolds, Selected
<1> QED
    BY <1>1, <1>3, <1>4 DEF InboxIInv

\* A listing begins.
LEMMA BeginListKeeps ==
    ASSUME InboxIInv, NEW w \in Lists, NEW f \in Filters, NEW A \in SUBSET Audiences, BeginList(w, f, A)
    PROVE  InboxIInv'
<1> DEFINE r == [NoListing EXCEPT !.filter = f, !.audiences = A, !.more = TRUE, !.start = Selected(f, A)]
<1>1. /\ Selected(f, A) \subseteq arrived /\ arrived \subseteq Notices
      /\ \A n \in Selected(f, A) : AudienceOf[n] \in A /\ (f = "read" => n \in read)
    BY DEF Selected, InboxIInv, InboxTypeOK
<1>2. Newest \in 0..Newest /\ \A n \in Notices : ~(n >= Newest)
    BY InboxAssumption DEF Newest, Notices
<1>3. /\ r.filter = f /\ r.audiences = A /\ r.cursor = Newest /\ r.more = TRUE /\ r.start = Selected(f, A)
      /\ r.shown = {} /\ r.twice = {}
    BY DEF NoListing
<1>4. r \in ListingRecord
    BY <1>1, <1>2 DEF NoListing, ListingRecord
<1> HIDE DEF r
<1>5. ListingHolds(r)
    BY <1>1, <1>2, <1>3, <1>4 DEF ListingHolds
<1>6. listing' = [listing EXCEPT ![w] = r] /\ UNCHANGED <<arrived, read>>
    BY DEF BeginList, r
<1> QED
    BY <1>5, <1>6, ListingMoves

\* A page is listed.
LEMMA NextPageKeeps ==
    ASSUME InboxIInv, NEW w \in Lists, NextPage(w)
    PROVE  InboxIInv'
<1> DEFINE old == listing[w]
           chosen == Selected(old.filter, old.audiences)
           rest == {n \in chosen : n < old.cursor}
           page == PageOf(rest)
<1>1. PICK c \in Notices \cup {0} :
          /\ IF rest # page THEN IsLast(c, page) ELSE c = 0
          /\ listing' = [listing EXCEPT ![w].cursor = c, ![w].more = rest # page,
                                  ![w].shown = @ \cup page, ![w].twice = @ \cup (page \cap old.shown)]
    BY DEF NextPage
<1>2. PICK more \in BOOLEAN : more = (rest # page)
    BY Zenon
<1> DEFINE r == [old EXCEPT !.cursor = c, !.more = more, !.shown = @ \cup page,
                            !.twice = @ \cup (page \cap old.shown)]
<1>3. listing' = [listing EXCEPT ![w] = r] /\ UNCHANGED <<arrived, read>>
    BY <1>1, <1>2 DEF NextPage
<1>4. old \in ListingRecord /\ arrived \subseteq Notices
    BY DEF InboxIInv, InboxTypeOK, ListingRecord
<1>5. /\ chosen \subseteq arrived /\ \A n \in chosen : AudienceOf[n] \in old.audiences
      /\ page \subseteq rest /\ rest \subseteq chosen
    BY DEF Selected, PageOf
<1>6. page \cap old.shown = {}
    <2> SUFFICES ASSUME NEW n \in page, n \in old.shown PROVE FALSE
        OBVIOUS
    <2>1. n < old.cursor /\ n >= old.cursor
        BY <1>5 DEF InboxIInv, ListingKnows
    <2>2. n \in Int /\ old.cursor \in Int
        BY <1>4, <1>5, InboxAssumption DEF ListingRecord, Notices, Newest
    <2> QED BY <2>1, <2>2
<1>7. old.twice = {} /\ ListingKnows(w)
    BY DEF InboxIInv, ListShowsAll
<1>8. /\ r.filter = old.filter /\ r.audiences = old.audiences /\ r.cursor = c /\ r.start = old.start
      /\ r.shown = old.shown \cup page /\ r.twice = {}
    BY <1>4, <1>6, <1>7 DEF ListingRecord
<1>9. r \in ListingRecord
    <2>1. c \in 0..Newest
        BY InboxAssumption DEF Notices, Newest
    <2>2. old.shown \cup page \in SUBSET Notices /\ old.twice \cup (page \cap old.shown) \in SUBSET Notices
        BY <1>4, <1>5 DEF ListingRecord
    <2> HIDE DEF page
    <2> QED BY <1>4, <2>1, <2>2 DEF ListingRecord
<1>10. \A n \in Notices \cup {0} : n \in Int
    BY InboxAssumption DEF Notices
<1>11. ASSUME NEW n \in old.shown \cup page PROVE n >= c
    <2>1. CASE rest = page
        <3>1. c = 0 /\ n \in Notices
            BY <1>1, <1>4, <1>5, <2>1 DEF ListingRecord
        <3> QED BY <3>1, InboxAssumption DEF Notices
    <2>2. CASE rest # page
        <3>1. IsLast(c, page)
            BY <1>1, <2>2
        <3>2. CASE n \in page
            BY <1>4, <1>5, <1>10, <3>1, <3>2 DEF IsLast
        <3>3. CASE n \in old.shown
            <4>1. n >= old.cursor /\ c < old.cursor
                BY <1>5, <1>7, <3>1, <3>3 DEF ListingKnows, IsLast
            <4>2. n \in Int /\ c \in Int /\ old.cursor \in Int
                BY <1>4, <1>10, <3>3, InboxAssumption DEF ListingRecord, Newest
            <4> QED BY <4>1, <4>2
        <3> QED BY <3>2, <3>3
    <2> QED BY <2>1, <2>2
<1>12. ASSUME NEW n \in old.start \cap chosen, n >= c PROVE n \in old.shown \cup page
    <2>1. n \in Int /\ c \in Int /\ old.cursor \in Int
        BY <1>4, <1>10, InboxAssumption DEF ListingRecord, Newest
    <2>2. CASE n >= old.cursor
        BY <2>2 DEF InboxIInv, ListShowsAll
    <2>3. CASE n < old.cursor
        <3>1. n \in rest
            BY <2>3
        <3>2. rest \subseteq Notices
            BY <1>4, <1>5
        <3> SUFFICES ASSUME n \notin page PROVE FALSE
            OBVIOUS
        <3>3. IsLast(c, PageOf(rest))
            BY <1>1, <3>1
        <3> HIDE DEF rest
        <3>4. n < c
            BY <3>1, <3>2, <3>3, PageIsNewest
        <3> QED BY <1>12, <2>1, <3>4
    <2> QED BY <2>1, <2>2, <2>3
<1> HIDE DEF r
<1>13. ListingHolds(r)
    BY <1>4, <1>5, <1>7, <1>8, <1>9, <1>11, <1>12 DEF ListingHolds, ListingKnows, InboxIInv, ListShowsAll
<1> QED
    BY <1>3, <1>13, ListingMoves

-----------------------------------------------------------------------------
(* What is proved.                                                         *)

\* The inbox starts empty.
LEMMA InitInbox == InboxInit => InboxIInv
<1> SUFFICES ASSUME InboxInit PROVE InboxIInv
    OBVIOUS
<1>1. NoListing \in ListingRecord /\ NoListing.start = {} /\ NoListing.shown = {} /\ NoListing.twice = {}
    BY InboxAssumption DEF NoListing, ListingRecord, Filters, Newest
<1>2. \A w \in Lists : listing[w] = NoListing
    BY DEF InboxInit
<1>3. InboxTypeOK
    BY <1>1, Zenon DEF InboxInit, InboxTypeOK, ListingRecord
<1> QED
    BY <1>1, <1>2, <1>3 DEF InboxIInv, ListingKnows, ListShowsAll

\* Every step keeps the invariant.
LEMMA InboxStep == InboxIInv /\ [InboxNext]_inboxListVars => InboxIInv'
<1> SUFFICES ASSUME InboxIInv, [InboxNext]_inboxListVars PROVE InboxIInv'
    OBVIOUS
<1>0. arrived \subseteq Notices /\ read \subseteq arrived
    BY DEF InboxIInv, InboxTypeOK
<1>1. ASSUME NEW n \in Notices, Arrive(n) \/ MarkRead(n) PROVE InboxIInv'
    BY <1>0, <1>1, NoticesMove DEF Arrive, MarkRead
<1>2. ASSUME NEW A \in SUBSET Audiences, MarkAllRead(A) PROVE InboxIInv'
    BY <1>0, <1>2, NoticesMove DEF MarkAllRead
<1>3. CASE UNCHANGED inboxListVars
    BY <1>0, <1>3, NoticesMove DEF inboxListVars
<1> QED
    BY <1>1, <1>2, <1>3, BeginListKeeps, NextPageKeeps DEF InboxNext

\* The invariant is what is asked of the inbox.
LEMMA InboxShown == InboxIInv => InboxInv
BY DEF InboxIInv, InboxInv

\* A device that lists page after page is shown, once, all there was when it
\* began and is still selected (notification.service.ts).
THEOREM InboxInvariance == InboxSpec => []InboxInv
<1> QED
    BY InitInbox, InboxStep, InboxShown, PTL DEF InboxSpec

-----------------------------------------------------------------------------
(***************************************************************************)
(* The staff of a club                                                     *)
(***************************************************************************)
-----------------------------------------------------------------------------
(* The inductive invariant.                                                *)

\* A row of a shift, by what it is made of.
ShiftRows == [of : Workers \cup {NoShift.of}, device : WorkDevices \cup {NoShift.device},
              status : ShiftStatuses]

StaffTypes ==
    /\ worker \in [Workers -> [status : WorkerStatuses, hire : Nat]]
    /\ workDevice \in [Workers -> [WorkDevices -> DeviceStatuses]]
    /\ shift \in [Shifts -> ShiftRows]
    /\ starter \in [Starters -> [pc : {"idle", "check", "open"}, of : Workers \cup {NoShift.of},
                                 device : WorkDevices \cup {NoShift.device}, hire : Nat, fit : BOOLEAN]]

\* Who starts a shift was fit for it when it was read.
StartersRead == \A h \in Starters :
    starter[h].pc # "idle" => starter[h].of \in Workers /\ starter[h].device \in WorkDevices /\ starter[h].fit

\* An open shift is of a worker and a device that are fit, unless it slipped.
OpenAreFit == \A s \in Shifts : shift[s].status = "ACTIVE" =>
    /\ shift[s].of \in Workers /\ shift[s].device \in WorkDevices
    /\ s \notin slipped => Fit(shift[s].of, shift[s].device)

\* Of the open shifts of a worker one at most did not slip.
OpenAreAlone == \A s, t \in Shifts \ slipped :
    shift[s].status = "ACTIVE" /\ shift[t].status = "ACTIVE" /\ shift[s].of = shift[t].of => s = t

StaffIInv == StaffTypes /\ StartersRead /\ OpenAreFit /\ OpenAreAlone

-----------------------------------------------------------------------------
(* The steps.                                                              *)

\* Fit, when the step is done.
FitNext(w, d) == worker'[w].status = "ACTIVE" /\ workDevice'[w][d] = "AUTHORIZED"

\* No shift is opened, and those that stay open keep what they need.
ShiftsOnlyClose ==
    /\ \A s \in Shifts : shift'[s].status = "ACTIVE" => shift'[s] = shift[s]
    /\ \A s \in Shifts : shift'[s].status = "ACTIVE" /\ s \in slipped => s \in slipped'
    /\ \A s \in Shifts \ slipped : shift'[s].status = "ACTIVE" /\ Fit(shift[s].of, shift[s].device) =>
           FitNext(shift[s].of, shift[s].device)

\* A step that opens no shift keeps what is said of the open ones.
LEMMA ClosingKeeps ==
    ASSUME OpenAreFit, OpenAreAlone, ShiftsOnlyClose
    PROVE  OpenAreFit' /\ OpenAreAlone'
<1>1. ASSUME NEW s \in Shifts, shift'[s].status = "ACTIVE"
      PROVE  /\ shift'[s] = shift[s] /\ shift[s].status = "ACTIVE"
             /\ s \notin slipped' => s \notin slipped
    BY <1>1 DEF ShiftsOnlyClose
<1>2. ASSUME NEW s \in Shifts, shift'[s].status = "ACTIVE"
      PROVE  /\ shift'[s].of \in Workers /\ shift'[s].device \in WorkDevices
             /\ s \notin slipped' => FitNext(shift'[s].of, shift'[s].device)
    <2>1. /\ shift[s].of \in Workers /\ shift[s].device \in WorkDevices
          /\ s \notin slipped => Fit(shift[s].of, shift[s].device)
        BY <1>1, <1>2 DEF OpenAreFit
    <2>2. s \notin slipped => FitNext(shift[s].of, shift[s].device)
        BY <1>2, <2>1 DEF ShiftsOnlyClose
    <2>3. FitNext(shift[s].of, shift[s].device) <=> FitNext(shift'[s].of, shift'[s].device)
        BY <1>1, <1>2 DEF Fit, FitNext
    <2> QED BY <1>1, <1>2, <2>1, <2>2, <2>3
<1>3. OpenAreFit'
    BY <1>2 DEF OpenAreFit, Fit, FitNext
<1>4. OpenAreAlone'
    BY <1>1 DEF OpenAreAlone
<1> QED BY <1>3, <1>4

\* A worker is registered.
LEMMA RegisterWorkerKeeps ==
    ASSUME StaffIInv, NEW w \in Workers, RegisterWorker(w)
    PROVE  StaffIInv'
<1>1. PICK n \in Nat : n = worker[w].hire + 1
    BY DEF StaffIInv, StaffTypes
<1>2. worker' = [worker EXCEPT ![w] = [status |-> "ACTIVE", hire |-> n]]
      /\ UNCHANGED <<workDevice, shift, starter, slipped>> /\ worker[w].status = "NONE"
    BY <1>1 DEF RegisterWorker
<1>3. StaffTypes' /\ StartersRead'
    BY <1>2 DEF StaffIInv, StaffTypes, StartersRead, WorkerStatuses
<1>4. ShiftsOnlyClose
    BY <1>2 DEF StaffIInv, StaffTypes, ShiftsOnlyClose, Fit, FitNext
<1> QED
    BY <1>3, <1>4, ClosingKeeps DEF StaffIInv

\* The shifts that are revoked.
LEMMA RevokedIs ==
    ASSUME StaffTypes, NEW gone, shift' = ShiftsRevoked(gone)
    PROVE  /\ shift' \in [Shifts -> ShiftRows]
           /\ \A s \in Shifts : shift'[s].status = "ACTIVE" => shift'[s] = shift[s] /\ s \notin gone
<1>1. ASSUME NEW s \in Shifts
      PROVE  /\ shift[s] \in ShiftRows /\ [shift[s] EXCEPT !.status = "REVOKED"] \in ShiftRows
             /\ [shift[s] EXCEPT !.status = "REVOKED"].status = "REVOKED"
    BY DEF StaffTypes, ShiftRows, ShiftStatuses
<1> QED
    BY <1>1 DEF ShiftsRevoked

\* The administrator stops or resumes a worker.
LEMMA UpdateWorkerKeeps ==
    ASSUME StaffIInv, NEW w \in Workers, NEW st \in WorkerStatuses \ {"NONE"}, UpdateWorker(w, st)
    PROVE  StaffIInv'
<1>1. /\ worker' = [worker EXCEPT ![w] = [@ EXCEPT !.status = st]]
      /\ shift' = IF st = "INACTIVE" THEN ShiftsRevoked(OpenShifts(w)) ELSE shift
      /\ UNCHANGED <<workDevice, starter, slipped>>
    BY DEF UpdateWorker
<1>2. StaffTypes
    BY DEF StaffIInv
<1>3. /\ shift' \in [Shifts -> ShiftRows]
      /\ \A s \in Shifts : shift'[s].status = "ACTIVE" =>
             shift'[s] = shift[s] /\ (st = "INACTIVE" => s \notin OpenShifts(w))
    <2>1. CASE st = "INACTIVE"
        BY <1>1, <1>2, <2>1, RevokedIs
    <2>2. CASE st # "INACTIVE"
        BY <1>1, <1>2, <2>2 DEF StaffTypes
    <2> QED BY <2>1, <2>2
<1>4. worker' \in [Workers -> [status : WorkerStatuses, hire : Nat]]
    BY <1>1, <1>2 DEF StaffTypes
<1>5. StaffTypes' /\ StartersRead'
    BY <1>1, <1>2, <1>3, <1>4 DEF StaffTypes, StaffIInv, StartersRead
<1>6. ASSUME NEW s \in Shifts, shift'[s].status = "ACTIVE", Fit(shift[s].of, shift[s].device),
             shift[s].of \in Workers
      PROVE  FitNext(shift[s].of, shift[s].device)
    <2>1. shift'[s] = shift[s] /\ shift[s].status = "ACTIVE"
        BY <1>3, <1>6
    <2>2. CASE shift[s].of # w
        BY <1>1, <1>2, <1>6, <2>2 DEF StaffTypes, Fit, FitNext
    <2>3. CASE shift[s].of = w
        <3>1. st # "INACTIVE"
            BY <1>3, <1>6, <2>1, <2>3 DEF OpenShifts
        <3>2. worker'[w].status = "ACTIVE"
            BY <1>1, <1>2, <3>1 DEF StaffTypes, WorkerStatuses
        <3> QED BY <1>1, <1>6, <2>3, <3>2 DEF Fit, FitNext
    <2> QED BY <2>2, <2>3
<1>7. ShiftsOnlyClose
    BY <1>1, <1>3, <1>6 DEF ShiftsOnlyClose, StaffIInv, OpenAreFit
<1> QED
    BY <1>5, <1>7, ClosingKeeps DEF StaffIInv

\* A worker is removed, with the shifts and the devices.
LEMMA RemoveWorkerKeeps ==
    ASSUME StaffIInv, NEW w \in Workers, RemoveWorker(w)
    PROVE  StaffIInv'
<1>1. /\ worker' = [worker EXCEPT ![w] = [@ EXCEPT !.status = "NONE"]]
      /\ shift' = [s \in Shifts |-> IF shift[s].of = w THEN NoShift ELSE shift[s]]
      /\ workDevice' = [workDevice EXCEPT ![w] = [d \in WorkDevices |-> "NONE"]]
      /\ slipped' = {s \in slipped : shift[s].of # w}
      /\ UNCHANGED starter
    BY DEF RemoveWorker
<1>2. StaffTypes
    BY DEF StaffIInv
<1>3. NoShift \in ShiftRows /\ NoShift.status = "NONE"
    BY DEF NoShift, ShiftRows, ShiftStatuses
<1>4. /\ shift' \in [Shifts -> ShiftRows]
      /\ \A s \in Shifts : shift'[s].status = "ACTIVE" => shift'[s] = shift[s] /\ shift[s].of # w
    BY <1>1, <1>2, <1>3 DEF StaffTypes
<1>5. /\ worker' \in [Workers -> [status : WorkerStatuses, hire : Nat]]
      /\ workDevice' \in [Workers -> [WorkDevices -> DeviceStatuses]]
    BY <1>1, <1>2 DEF StaffTypes, WorkerStatuses, DeviceStatuses
<1>6. StaffTypes' /\ StartersRead'
    BY <1>1, <1>2, <1>4, <1>5 DEF StaffTypes, StaffIInv, StartersRead
<1>7. ASSUME NEW s \in Shifts, shift'[s].status = "ACTIVE", Fit(shift[s].of, shift[s].device)
      PROVE  FitNext(shift[s].of, shift[s].device)
    <2>1. shift[s].of # w
        BY <1>4, <1>7
    <2> QED BY <1>1, <1>2, <1>7, <2>1 DEF Fit, FitNext, StaffTypes
<1>8. ShiftsOnlyClose
    BY <1>1, <1>4, <1>7 DEF ShiftsOnlyClose
<1> QED
    BY <1>6, <1>8, ClosingKeeps DEF StaffIInv

\* A device is authorized.
LEMMA AuthorizeKeeps ==
    ASSUME StaffIInv, NEW w \in Workers, NEW d \in WorkDevices, AuthorizeDevice(w, d)
    PROVE  StaffIInv'
<1>1. /\ workDevice' = [workDevice EXCEPT ![w] = [@ EXCEPT ![d] = "AUTHORIZED"]]
      /\ UNCHANGED <<worker, shift, starter, slipped>>
    BY DEF AuthorizeDevice
<1>2. StaffTypes' /\ StartersRead'
    BY <1>1 DEF StaffIInv, StaffTypes, StartersRead, DeviceStatuses
<1>3. \A x, y : Fit(x, y) /\ x \in Workers /\ y \in WorkDevices => FitNext(x, y)
    BY <1>1 DEF StaffIInv, StaffTypes, Fit, FitNext
<1>4. ShiftsOnlyClose
    BY <1>1, <1>3 DEF StaffIInv, OpenAreFit, ShiftsOnlyClose
<1> QED
    BY <1>2, <1>4, ClosingKeeps DEF StaffIInv

\* A device is revoked, and the shifts on it.
LEMMA RevokeKeeps ==
    ASSUME StaffIInv, NEW w \in Workers, NEW d \in WorkDevices, RevokeDevice(w, d)
    PROVE  StaffIInv'
<1> DEFINE gone == {s \in OpenShifts(w) : shift[s].device = d}
<1>1. /\ workDevice' = [workDevice EXCEPT ![w] = [@ EXCEPT ![d] = "REVOKED"]]
      /\ shift' = ShiftsRevoked(gone)
      /\ UNCHANGED <<worker, starter, slipped>>
    BY DEF RevokeDevice
<1>2. StaffTypes
    BY DEF StaffIInv
<1>3. /\ shift' \in [Shifts -> ShiftRows]
      /\ \A s \in Shifts : shift'[s].status = "ACTIVE" => shift'[s] = shift[s] /\ s \notin gone
    BY <1>1, <1>2, RevokedIs
<1>4. StaffTypes' /\ StartersRead'
    BY <1>1, <1>2, <1>3 DEF StaffIInv, StaffTypes, StartersRead, DeviceStatuses
<1>5. ASSUME NEW s \in Shifts, shift'[s].status = "ACTIVE", Fit(shift[s].of, shift[s].device),
             shift[s].of \in Workers, shift[s].device \in WorkDevices
      PROVE  FitNext(shift[s].of, shift[s].device)
    <2>1. ~(shift[s].of = w /\ shift[s].device = d)
        BY <1>3, <1>5 DEF OpenShifts
    <2> QED BY <1>1, <1>2, <1>5, <2>1 DEF Fit, FitNext, StaffTypes
<1>6. ShiftsOnlyClose
    BY <1>1, <1>3, <1>5 DEF StaffIInv, OpenAreFit, ShiftsOnlyClose
<1> QED
    BY <1>4, <1>6, ClosingKeeps DEF StaffIInv

\* A shift is closed.
LEMMA CloseShiftKeeps ==
    ASSUME StaffIInv, NEW s \in Shifts, CloseShift(s)
    PROVE  StaffIInv'
<1>1. /\ shift' = [shift EXCEPT ![s] = [@ EXCEPT !.status = "CLOSED"]]
      /\ UNCHANGED <<worker, workDevice, starter, slipped>>
    BY DEF CloseShift
<1>2. /\ shift[s] \in ShiftRows
      /\ [shift[s] EXCEPT !.status = "CLOSED"] \in ShiftRows
      /\ [shift[s] EXCEPT !.status = "CLOSED"].status = "CLOSED"
    BY DEF StaffIInv, StaffTypes, ShiftRows, ShiftStatuses
<1>3. /\ shift' \in [Shifts -> ShiftRows]
      /\ \A t \in Shifts : shift'[t].status = "ACTIVE" => shift'[t] = shift[t]
    BY <1>1, <1>2 DEF StaffIInv, StaffTypes
<1>4. StaffTypes' /\ StartersRead'
    BY <1>1, <1>3 DEF StaffIInv, StaffTypes, StartersRead
<1>5. ShiftsOnlyClose
    BY <1>1, <1>3 DEF ShiftsOnlyClose, Fit, FitNext
<1> QED
    BY <1>4, <1>5, ClosingKeeps DEF StaffIInv

\* The request rests or goes on.
LEMMA StarterMoves ==
    ASSUME StaffIInv, NEW h \in Starters, NEW r, starter' = [starter EXCEPT ![h] = r],
           r \in [pc : {"idle", "check", "open"}, of : Workers \cup {NoShift.of},
                  device : WorkDevices \cup {NoShift.device}, hire : Nat, fit : BOOLEAN],
           r.pc # "idle" => r.of \in Workers /\ r.device \in WorkDevices /\ r.fit
    PROVE  /\ starter' \in [Starters -> [pc : {"idle", "check", "open"}, of : Workers \cup {NoShift.of},
                                 device : WorkDevices \cup {NoShift.device}, hire : Nat, fit : BOOLEAN]]
           /\ StartersRead'
BY DEF StaffIInv, StaffTypes, StartersRead

\* What resting is.
LEMMA NoStartIs ==
    /\ NoStart \in [pc : {"idle", "check", "open"}, of : Workers \cup {NoShift.of},
                    device : WorkDevices \cup {NoShift.device}, hire : Nat, fit : BOOLEAN]
    /\ NoStart.pc = "idle"
BY DEF NoStart

\* A request reads the worker, the device and the open shifts.
LEMMA BeginKeeps ==
    ASSUME StaffIInv, NEW h \in Starters, NEW w \in Workers, NEW d \in WorkDevices,
           BeginShift(h, w, d)
    PROVE  StaffIInv'
<1>1. Fit(w, d) /\ worker[w].hire \in Nat
    BY DEF BeginShift, MayStart, Fit, FitNext, StaffIInv, StaffTypes
<1>2. PICK r : r = [pc |-> "check", of |-> w, device |-> d, hire |-> worker[w].hire, fit |-> Fit(w, d)]
    OBVIOUS
<1>3. /\ r \in [pc : {"idle", "check", "open"}, of : Workers \cup {NoShift.of},
                device : WorkDevices \cup {NoShift.device}, hire : Nat, fit : BOOLEAN]
      /\ r.of \in Workers /\ r.device \in WorkDevices /\ r.fit
    <2>1. Fit(w, d) = TRUE
        BY <1>1, Zenon DEF Fit, FitNext
    <2> QED BY <1>1, <1>2, <2>1
<1>4. starter' = [starter EXCEPT ![h] = r] /\ UNCHANGED <<worker, workDevice, shift, slipped>>
    BY <1>2 DEF BeginShift
<1>5. StaffTypes' /\ StartersRead'
    BY <1>3, <1>4, StarterMoves DEF StaffIInv, StaffTypes
<1>6. ShiftsOnlyClose
    BY <1>4 DEF ShiftsOnlyClose, Fit, FitNext
<1> QED
    BY <1>5, <1>6, ClosingKeeps DEF StaffIInv

\* A request looks whether a shift is open.
LEMMA CheckOpenKeeps ==
    ASSUME StaffIInv, NEW h \in Starters, CheckOpen(h)
    PROVE  StaffIInv'
<1>1. PICK r : /\ r \in {[starter[h] EXCEPT !.pc = "open"], NoStart}
               /\ starter' = [starter EXCEPT ![h] = r]
               /\ UNCHANGED <<worker, workDevice, shift, slipped>> /\ starter[h].pc = "check"
    BY DEF CheckOpen
<1>2. /\ r \in [pc : {"idle", "check", "open"}, of : Workers \cup {NoShift.of},
                device : WorkDevices \cup {NoShift.device}, hire : Nat, fit : BOOLEAN]
      /\ r.pc # "idle" => r.of \in Workers /\ r.device \in WorkDevices /\ r.fit
    <2>1. CASE r = NoStart
        BY <2>1, NoStartIs
    <2>2. CASE r = [starter[h] EXCEPT !.pc = "open"]
        BY <1>1, <2>2 DEF StaffIInv, StaffTypes, StartersRead
    <2> QED BY <1>1, <2>1, <2>2
<1>3. StaffTypes' /\ StartersRead'
    BY <1>1, <1>2, StarterMoves DEF StaffIInv, StaffTypes
<1>4. ShiftsOnlyClose
    BY <1>1 DEF ShiftsOnlyClose, Fit, FitNext
<1> QED
    BY <1>3, <1>4, ClosingKeeps DEF StaffIInv

\* A shift is opened, on what was read.
LEMMA OpenShiftKeeps ==
    ASSUME StaffIInv, NEW h \in Starters, NEW s \in Shifts, OpenShift(h, s)
    PROVE  StaffIInv'
<1>1. PICK w \in Workers, d \in WorkDevices :
          /\ w = starter[h].of /\ d = starter[h].device /\ starter[h].fit
    BY DEF OpenShift, StaffIInv, StartersRead
<1>2. /\ starter' = [starter EXCEPT ![h] = NoStart] /\ UNCHANGED <<worker, workDevice>>
      /\ shift[s].status = "NONE"
    BY DEF OpenShift
<1>3. starter' \in [Starters -> [pc : {"idle", "check", "open"}, of : Workers \cup {NoShift.of},
                                 device : WorkDevices \cup {NoShift.device}, hire : Nat, fit : BOOLEAN]]
      /\ StartersRead'
    BY <1>2, NoStartIs, StarterMoves
<1>4. CASE worker[w].status = "NONE" \/ worker[w].hire # starter[h].hire
    <2>1. UNCHANGED <<shift, slipped>>
        BY <1>1, <1>4 DEF OpenShift
    <2>2. StaffTypes' /\ ShiftsOnlyClose
        BY <1>2, <1>3, <2>1 DEF StaffIInv, StaffTypes, ShiftsOnlyClose, Fit, FitNext
    <2> QED
        BY <1>3, <2>2, ClosingKeeps DEF StaffIInv
<1>5. CASE ~(worker[w].status = "NONE" \/ worker[w].hire # starter[h].hire)
    <2> DEFINE r == [of |-> w, device |-> d, status |-> "ACTIVE"]
    <2>1. /\ shift' = [shift EXCEPT ![s] = r]
          /\ slipped' = IF OpenShifts(w) # {} \/ ~Fit(w, d) THEN slipped \cup {s} ELSE slipped
        BY <1>1, <1>5 DEF OpenShift
    <2>2. r \in ShiftRows /\ r.of = w /\ r.device = d /\ r.status = "ACTIVE"
        BY DEF ShiftRows, ShiftStatuses
    <2> HIDE DEF r
    <2>3. shift' \in [Shifts -> ShiftRows] /\ \A t \in Shifts : shift'[t] = IF t = s THEN r ELSE shift[t]
        BY <2>1, <2>2 DEF StaffIInv, StaffTypes
    <2>4. StaffTypes'
        BY <1>2, <1>3, <2>3 DEF StaffIInv, StaffTypes
    <2>5. \A x, y : FitNext(x, y) <=> Fit(x, y)
        BY <1>2 DEF Fit, FitNext
    <2>6. ASSUME NEW t \in Shifts, shift'[t].status = "ACTIVE"
          PROVE  /\ shift'[t].of \in Workers /\ shift'[t].device \in WorkDevices
                 /\ t \notin slipped' => FitNext(shift'[t].of, shift'[t].device)
        <3>1. CASE t = s
            <4>1. shift'[t].of = w /\ shift'[t].device = d
                BY <2>2, <2>3, <3>1
            <4>2. t \notin slipped' => Fit(w, d)
                BY <2>1, <3>1
            <4>3. FitNext(shift'[t].of, shift'[t].device) <=> FitNext(w, d)
                BY <4>1 DEF Fit, FitNext
            <4> QED BY <2>5, <4>1, <4>2, <4>3
        <3>2. CASE t # s
            <4>1. shift'[t] = shift[t] /\ (t \notin slipped' => t \notin slipped)
                BY <2>1, <2>3, <3>2
            <4>2. /\ shift[t].of \in Workers /\ shift[t].device \in WorkDevices
                  /\ t \notin slipped => Fit(shift[t].of, shift[t].device)
                BY <2>6, <4>1 DEF StaffIInv, OpenAreFit
            <4>3. FitNext(shift'[t].of, shift'[t].device) <=> FitNext(shift[t].of, shift[t].device)
                BY <4>1 DEF Fit, FitNext
            <4> QED BY <2>5, <4>1, <4>2, <4>3
        <3> QED BY <3>1, <3>2
    <2>7. OpenAreFit'
        BY <2>6 DEF OpenAreFit, Fit, FitNext
    <2>8. OpenAreAlone'
        <3> SUFFICES ASSUME NEW t \in Shifts \ slipped', NEW u \in Shifts \ slipped',
                            shift'[t].status = "ACTIVE", shift'[u].status = "ACTIVE",
                            shift'[t].of = shift'[u].of
                     PROVE  t = u
            BY DEF OpenAreAlone
        <3>1. \A x \in Shifts \ slipped' : x \notin slipped
            BY <2>1
        <3>2. s \notin slipped' => OpenShifts(w) = {}
            BY <2>1
        <3>3. \A x \in Shifts : x # s /\ shift'[x].status = "ACTIVE" /\ shift'[x].of = w => x \in OpenShifts(w)
            BY <2>3 DEF OpenShifts
        <3>4. shift'[s].of = w
            BY <2>2, <2>3
        <3>5. CASE t # s /\ u # s
            BY <2>3, <3>1, <3>5 DEF StaffIInv, OpenAreAlone
        <3> QED BY <3>2, <3>3, <3>4, <3>5
    <2> QED BY <1>3, <2>4, <2>7, <2>8 DEF StaffIInv
<1> QED
    BY <1>4, <1>5

-----------------------------------------------------------------------------
(* What is proved.                                                         *)

\* Nobody works yet.
LEMMA InitStaff == StaffInit => StaffIInv
<1> SUFFICES ASSUME StaffInit PROVE StaffIInv
    OBVIOUS
<1>1. NoShift \in ShiftRows /\ NoShift.status = "NONE"
    BY DEF NoShift, ShiftRows, ShiftStatuses
<1>2. (\A s \in Shifts : shift[s] = NoShift) /\ \A h \in Starters : starter[h] = NoStart
    BY DEF StaffInit
<1>3. StaffTypes
    BY <1>1, NoStartIs DEF StaffInit, StaffTypes, WorkerStatuses, DeviceStatuses
<1> QED
    BY <1>1, <1>2, <1>3, NoStartIs DEF StaffIInv, StartersRead, OpenAreFit, OpenAreAlone

\* Every step keeps the invariant.
LEMMA StaffStep == StaffIInv /\ [StaffNext]_staffVars => StaffIInv'
<1> SUFFICES ASSUME StaffIInv, [StaffNext]_staffVars PROVE StaffIInv'
    OBVIOUS
<1>1. CASE UNCHANGED staffVars
    BY <1>1 DEF staffVars, StaffIInv, StaffTypes, StartersRead, OpenAreFit, OpenAreAlone, Fit, FitNext
<1> QED
    BY <1>1, RegisterWorkerKeeps, RemoveWorkerKeeps, UpdateWorkerKeeps, AuthorizeKeeps, RevokeKeeps,
       CloseShiftKeeps, BeginKeeps, CheckOpenKeeps, OpenShiftKeeps DEF StaffNext

\* The invariant is stronger than what the run checks.
LEMMA StaffShown == StaffIInv => StaffInv
<1> SUFFICES ASSUME StaffIInv PROVE StaffInv
    OBVIOUS
<1>1. StaffTypeOK
    BY DEF StaffIInv, StaffTypes, StaffTypeOK, ShiftRows
<1>2. ASSUME NEW w \in Workers PROVE Cardinality(OpenShifts(w) \ slipped) <= 1
    <2>1. \A s, t \in OpenShifts(w) \ slipped : s = t
        BY DEF OpenShifts, StaffIInv, OpenAreAlone
    <2>2. CASE OpenShifts(w) \ slipped = {}
        BY <2>2, FS_EmptySet
    <2>3. CASE OpenShifts(w) \ slipped # {}
        <3>1. PICK s : OpenShifts(w) \ slipped = {s}
            BY <2>1, <2>3
        <3>2. Cardinality({s}) = 1
            BY FS_Singleton
        <3> QED BY <3>1, <3>2
    <2> QED BY <2>2, <2>3
<1> QED
    BY <1>1, <1>2 DEF StaffIInv, OpenAreFit, StaffInv, ShiftIsAllowed

\* A shift is open only while its worker works on an authorized device, one for
\* each, unless it was opened on what was no longer so (club-workers.service.ts).
THEOREM StaffInvariance == StaffSpec => []StaffInv
<1> QED
    BY InitStaff, StaffStep, StaffShown, PTL DEF StaffSpec

-----------------------------------------------------------------------------
(***************************************************************************)
(* Who administers a club                                                  *)
(***************************************************************************)
-----------------------------------------------------------------------------
(* The inductive invariant.                                                *)

AccessRows == [type : AccessTypes, status : AccessStatuses, club : NewClubs \cup {OldClub, NoClub}]
ReviewRows == [pc : {"idle", "APPROVED", "REJECTED"}, of : AccessRequests \cup {NoAccessRequest},
               saw : AccessStatuses]

AccessRowTypes ==
    /\ accessRequest \in [AccessRequests -> AccessRows]
    /\ administers \subseteq NewClubs \cup {OldClub}
    /\ clubOf \in [NewClubs -> AccessRequests \cup {NoAccessRequest}]
    /\ decision \in [Reviewers -> ReviewRows]

\* A review decides a request that it read active.
ReviewsRead == \A h \in Reviewers :
    decision[h].pc # "idle" => decision[h].of \in AccessRequests /\ decision[h].saw \in ActiveStatuses

\* What is asked of a club that exists is about that club.
OldIsAsked == \A q \in AccessRequests : ~IsNew(q) => accessRequest[q].club = OldClub

\* A request that created a club stands approved.
CreatorIsApproved == \A c \in NewClubs :
    clubOf[c] # NoAccessRequest /\ clubOf[c] \notin overtaken =>
        clubOf[c] \in AccessRequests /\ accessRequest[clubOf[c]].status = "APPROVED"

AccessIInv ==
    /\ AccessRowTypes /\ ReviewsRead /\ OldIsAsked /\ CreatorIsApproved
    /\ AccessIsApproved /\ OneClubPerRequest

-----------------------------------------------------------------------------
(* The steps.                                                              *)

\* The clubs of the requests that stand approved.
ApprovedClubs == {accessRequest[q].club : q \in {p \in AccessRequests : accessRequest[p].status = "APPROVED"}}

\* A request that is not decided, before a step or after it, counts for nothing.
LEMMA UndecidedCountsNot ==
    ASSUME AccessRowTypes, NEW q \in AccessRequests, NEW row \in AccessRows,
           accessRequest' = [accessRequest EXCEPT ![q] = row],
           accessRequest[q].status # "APPROVED", row.status # "APPROVED"
    PROVE  ApprovedClubs' = ApprovedClubs
<1>1. \A p \in AccessRequests : p # q => accessRequest'[p] = accessRequest[p]
    BY DEF AccessRowTypes
<1>2. accessRequest'[q].status # "APPROVED"
    BY DEF AccessRowTypes
<1> QED
    BY <1>1, <1>2 DEF ApprovedClubs

\* A request is written that no decision is about.
LEMMA RequestMoves ==
    ASSUME AccessIInv, NEW q \in AccessRequests, NEW row \in AccessRows,
           accessRequest' = [accessRequest EXCEPT ![q] = row],
           accessRequest[q].status # "APPROVED", row.status # "APPROVED",
           row.type # "REGISTER_NEW_BUSINESS" => row.club = OldClub,
           UNCHANGED <<administers, clubOf, decision, overtaken>>
    PROVE  AccessIInv'
<1>1. \A p \in AccessRequests : accessRequest'[p] = IF p = q THEN row ELSE accessRequest[p]
    BY DEF AccessIInv, AccessRowTypes
<1>2. AccessRowTypes'
    BY DEF AccessIInv, AccessRowTypes
<1>3. ReviewsRead' /\ OneClubPerRequest'
    BY DEF AccessIInv, ReviewsRead, OneClubPerRequest
<1>4. OldIsAsked'
    BY <1>1 DEF AccessIInv, OldIsAsked, IsNew
<1>5. CreatorIsApproved'
    BY <1>1 DEF AccessIInv, CreatorIsApproved
<1>6. ApprovedClubs' = ApprovedClubs
    BY UndecidedCountsNot DEF AccessIInv
<1>7. AccessIsApproved'
    BY <1>6 DEF AccessIInv, AccessIsApproved, ApprovedClubs
<1> QED
    BY <1>2, <1>3, <1>4, <1>5, <1>7 DEF AccessIInv

\* A request is made.
LEMMA CreateRequestKeeps ==
    ASSUME AccessIInv, NEW q \in AccessRequests, NEW type \in AccessTypes, CreateRequest(q, type)
    PROVE  AccessIInv'
<1>1. PICK row : row = [type |-> type, status |-> "PENDING",
                        club |-> IF type = "REGISTER_NEW_BUSINESS" THEN NoClub ELSE OldClub]
    OBVIOUS
<1>2. /\ accessRequest' = [accessRequest EXCEPT ![q] = row]
      /\ UNCHANGED <<administers, clubOf, decision, overtaken>>
      /\ accessRequest[q].status = "NONE"
    BY <1>1 DEF CreateRequest
<1>3. /\ row \in AccessRows /\ row.status = "PENDING"
      /\ row.type # "REGISTER_NEW_BUSINESS" => row.club = OldClub
    BY <1>1 DEF AccessRows, AccessStatuses
<1> QED
    BY <1>2, <1>3, RequestMoves

\* A pending request is cancelled, or its review starts.
LEMMA PendingMoves ==
    ASSUME AccessIInv, NEW q \in AccessRequests, CancelRequest(q) \/ StartReview(q)
    PROVE  AccessIInv'
<1>1. PICK st \in {"CANCELLED", "UNDER_REVIEW"} :
          /\ accessRequest' = [accessRequest EXCEPT ![q] = [@ EXCEPT !.status = st]]
          /\ UNCHANGED <<administers, clubOf, decision, overtaken>>
          /\ accessRequest[q].status = "PENDING"
    BY DEF CancelRequest, StartReview
<1>2. PICK row : row = [accessRequest[q] EXCEPT !.status = st]
    OBVIOUS
<1>3. /\ row \in AccessRows /\ row.status = st /\ row.type = accessRequest[q].type
      /\ row.club = accessRequest[q].club
    BY <1>1, <1>2 DEF AccessIInv, AccessRowTypes, AccessRows, AccessStatuses
<1>4. row.type # "REGISTER_NEW_BUSINESS" => row.club = OldClub
    BY <1>3 DEF AccessIInv, OldIsAsked, IsNew
<1>5. accessRequest' = [accessRequest EXCEPT ![q] = row] /\ row.status # "APPROVED"
    BY <1>1, <1>2, <1>3
<1> QED
    BY <1>1, <1>3, <1>4, <1>5, RequestMoves

\* A review reads a request that is active.
LEMMA BeginDecisionKeeps ==
    ASSUME AccessIInv, NEW h \in Reviewers, NEW q \in AccessRequests,
           NEW verdict \in {"APPROVED", "REJECTED"}, BeginDecision(h, q, verdict)
    PROVE  AccessIInv'
<1>1. PICK row : row = [pc |-> verdict, of |-> q, saw |-> accessRequest[q].status]
    OBVIOUS
<1>2. /\ decision' = [decision EXCEPT ![h] = row]
      /\ UNCHANGED <<accessRequest, administers, clubOf, overtaken>>
      /\ accessRequest[q].status \in ActiveStatuses
    BY <1>1 DEF BeginDecision, Decidable
<1>3. row \in ReviewRows /\ row.of \in AccessRequests /\ row.saw \in ActiveStatuses
    BY <1>1, <1>2 DEF ReviewRows, ActiveStatuses, AccessStatuses
<1>4. AccessRowTypes' /\ ReviewsRead'
    BY <1>2, <1>3 DEF AccessIInv, AccessRowTypes, ReviewsRead
<1>5. OldIsAsked' /\ CreatorIsApproved' /\ AccessIsApproved' /\ OneClubPerRequest'
    BY <1>2 DEF AccessIInv, OldIsAsked, IsNew, CreatorIsApproved, AccessIsApproved, OneClubPerRequest
<1> QED
    BY <1>4, <1>5 DEF AccessIInv

\* A review that ends rests, and is remembered if the request was decided since.
LEMMA ReviewEnds ==
    ASSUME AccessIInv, NEW h \in Reviewers, decision[h].pc # "idle",
           decision' = [decision EXCEPT ![h] = NoReview], overtaken' = Late(h)
    PROVE  /\ decision' \in [Reviewers -> ReviewRows] /\ ReviewsRead'
           /\ decision[h].of \in AccessRequests
           /\ overtaken \subseteq overtaken'
           /\ decision[h].of \notin overtaken' => accessRequest[decision[h].of].status \in ActiveStatuses
<1>1. NoReview \in ReviewRows /\ NoReview.pc = "idle"
    BY DEF NoReview, ReviewRows, AccessStatuses
<1>2. decision' \in [Reviewers -> ReviewRows] /\ ReviewsRead'
    BY <1>1 DEF AccessIInv, AccessRowTypes, ReviewsRead
<1>3. decision[h].of \in AccessRequests /\ decision[h].saw \in ActiveStatuses
    BY DEF AccessIInv, ReviewsRead
<1> QED
    BY <1>2, <1>3 DEF Late

\* The request is approved: a club that it names, or a new one.
LEMMA GrantKeeps ==
    ASSUME AccessIInv, NEW h \in Reviewers, GrantAccess(h)
    PROVE  AccessIInv'
<1>1. PICK q \in AccessRequests : q = decision[h].of
    BY DEF GrantAccess, AccessIInv, ReviewsRead
<1>2. /\ decision[h].pc = "APPROVED"
      /\ decision' = [decision EXCEPT ![h] = NoReview] /\ overtaken' = Late(h)
    BY DEF GrantAccess
<1>3. /\ decision' \in [Reviewers -> ReviewRows] /\ ReviewsRead'
      /\ overtaken \subseteq overtaken'
      /\ q \notin overtaken' => accessRequest[q].status \in ActiveStatuses
    BY <1>1, <1>2, ReviewEnds
<1>4. PICK c \in IF IsNew(q) THEN {c \in NewClubs : clubOf[c] = NoAccessRequest} ELSE {accessRequest[q].club} :
          /\ clubOf' = IF IsNew(q) THEN [clubOf EXCEPT ![c] = q] ELSE clubOf
          /\ administers' = administers \cup {c}
          /\ accessRequest' = [accessRequest EXCEPT ![q].status = "APPROVED", ![q].club = c]
    BY <1>1 DEF GrantAccess
<1>5. c \in NewClubs \cup {OldClub} /\ (~IsNew(q) => c = OldClub)
    BY <1>4 DEF AccessIInv, OldIsAsked
<1>6. PICK row : row = [accessRequest[q] EXCEPT !.status = "APPROVED", !.club = c]
    OBVIOUS
<1>7. row \in AccessRows /\ row.status = "APPROVED" /\ row.club = c /\ row.type = accessRequest[q].type
    BY <1>5, <1>6 DEF AccessIInv, AccessRowTypes, AccessRows, AccessStatuses
<1>8. /\ accessRequest' \in [AccessRequests -> AccessRows]
      /\ \A p \in AccessRequests : accessRequest'[p] = IF p = q THEN row ELSE accessRequest[p]
    <2>1. PICK mid : mid = [accessRequest EXCEPT ![q] = [@ EXCEPT !.status = "APPROVED"]]
        OBVIOUS
    <2>2. accessRequest' = [mid EXCEPT ![q] = [@ EXCEPT !.club = c]]
        BY <1>4, <2>1
    <2>3. /\ DOMAIN mid = AccessRequests /\ mid[q] = [accessRequest[q] EXCEPT !.status = "APPROVED"]
          /\ \A p \in AccessRequests : p # q => mid[p] = accessRequest[p]
        BY <2>1 DEF AccessIInv, AccessRowTypes
    <2>4. [mid[q] EXCEPT !.club = c] = row
        BY <1>6, <2>3 DEF AccessIInv, AccessRowTypes, AccessRows
    <2>5. accessRequest' = [p \in AccessRequests |-> IF p = q THEN row ELSE accessRequest[p]]
        BY <2>2, <2>3, <2>4
    <2> QED BY <1>7, <2>5 DEF AccessIInv, AccessRowTypes
<1>9. clubOf' \in [NewClubs -> AccessRequests \cup {NoAccessRequest}]
      /\ \A e \in NewClubs : clubOf'[e] = IF IsNew(q) /\ e = c THEN q ELSE clubOf[e]
    BY <1>4 DEF AccessIInv, AccessRowTypes
<1>10. AccessRowTypes'
    BY <1>3, <1>4, <1>5, <1>8, <1>9 DEF AccessIInv, AccessRowTypes
<1>11. OldIsAsked'
    BY <1>5, <1>7, <1>8 DEF AccessIInv, OldIsAsked, IsNew
<1>12. CreatorIsApproved'
    BY <1>3, <1>7, <1>8, <1>9 DEF AccessIInv, CreatorIsApproved
<1>13. ActiveStatuses = {"PENDING", "UNDER_REVIEW"}
    BY DEF ActiveStatuses
<1>14. OneClubPerRequest'
    <2> SUFFICES ASSUME NEW d \in NewClubs, NEW e \in NewClubs, clubOf'[d] = clubOf'[e],
                        clubOf'[d] # NoAccessRequest, clubOf'[d] \notin overtaken'
                 PROVE  d = e
        BY DEF OneClubPerRequest
    <2>1. CASE clubOf'[d] = q
        <3>1. accessRequest[q].status # "APPROVED" /\ q \notin overtaken /\ q # NoAccessRequest
            BY <1>3, <1>13, <2>1
        <3>2. \A x \in NewClubs : clubOf[x] # q
            BY <3>1 DEF AccessIInv, CreatorIsApproved
        <3> QED BY <1>9, <2>1, <3>2
    <2>2. CASE clubOf'[d] # q
        <3>1. clubOf'[d] = clubOf[d] /\ clubOf'[e] = clubOf[e]
            BY <1>9, <2>2
        <3>2. clubOf[d] \notin overtaken
            BY <1>3, <3>1
        <3> QED BY <3>1, <3>2 DEF AccessIInv, OneClubPerRequest
    <2> QED BY <2>1, <2>2
<1>15. AccessIsApproved'
    <2> SUFFICES ASSUME overtaken' = {} PROVE administers' = ApprovedClubs'
        BY DEF AccessIsApproved, ApprovedClubs
    <2>1. overtaken = {} /\ accessRequest[q].status # "APPROVED"
        BY <1>3, <1>13
    <2>2. administers = ApprovedClubs
        BY <2>1 DEF AccessIInv, AccessIsApproved, ApprovedClubs
    <2>3. ApprovedClubs' = ApprovedClubs \cup {c}
        BY <1>7, <1>8, <2>1 DEF ApprovedClubs
    <2> QED BY <1>4, <2>2, <2>3
<1> QED
    BY <1>3, <1>10, <1>11, <1>12, <1>14, <1>15 DEF AccessIInv

\* The request is rejected.
LEMMA RejectionKeeps ==
    ASSUME AccessIInv, NEW h \in Reviewers, CommitRejection(h)
    PROVE  AccessIInv'
<1>1. PICK q \in AccessRequests : q = decision[h].of
    BY DEF CommitRejection, AccessIInv, ReviewsRead
<1>2. /\ decision[h].pc = "REJECTED" /\ UNCHANGED <<administers, clubOf>>
      /\ decision' = [decision EXCEPT ![h] = NoReview] /\ overtaken' = Late(h)
      /\ accessRequest' = [accessRequest EXCEPT ![q] = [@ EXCEPT !.status = "REJECTED"]]
    BY <1>1 DEF CommitRejection
<1>3. /\ decision' \in [Reviewers -> ReviewRows] /\ ReviewsRead'
      /\ overtaken \subseteq overtaken'
      /\ q \notin overtaken' => accessRequest[q].status \in ActiveStatuses
    BY <1>1, <1>2, ReviewEnds
<1>4. PICK row : row = [accessRequest[q] EXCEPT !.status = "REJECTED"]
    OBVIOUS
<1>5. row \in AccessRows /\ row.status = "REJECTED" /\ row.club = accessRequest[q].club
      /\ row.type = accessRequest[q].type
    BY <1>4 DEF AccessIInv, AccessRowTypes, AccessRows, AccessStatuses
<1>6. /\ accessRequest' \in [AccessRequests -> AccessRows]
      /\ \A p \in AccessRequests : accessRequest'[p] = IF p = q THEN row ELSE accessRequest[p]
    BY <1>2, <1>4, <1>5 DEF AccessIInv, AccessRowTypes
<1>7. ActiveStatuses = {"PENDING", "UNDER_REVIEW"}
    BY DEF ActiveStatuses
<1>8. AccessRowTypes'
    BY <1>2, <1>3, <1>6 DEF AccessIInv, AccessRowTypes
<1>9. OldIsAsked'
    BY <1>5, <1>6 DEF AccessIInv, OldIsAsked, IsNew
<1>10. CreatorIsApproved'
    BY <1>2, <1>3, <1>6, <1>7 DEF AccessIInv, CreatorIsApproved
<1>11. OneClubPerRequest'
    BY <1>2, <1>3 DEF AccessIInv, OneClubPerRequest
<1>12. AccessIsApproved'
    <2> SUFFICES ASSUME overtaken' = {} PROVE administers' = ApprovedClubs'
        BY DEF AccessIsApproved, ApprovedClubs
    <2>1. overtaken = {} /\ accessRequest[q].status # "APPROVED"
        BY <1>3, <1>7
    <2>2. administers = ApprovedClubs
        BY <2>1 DEF AccessIInv, AccessIsApproved, ApprovedClubs
    <2>3. ApprovedClubs' = ApprovedClubs
        BY <1>5, <1>6, <2>1 DEF ApprovedClubs
    <2> QED BY <1>2, <2>2, <2>3
<1> QED
    BY <1>3, <1>8, <1>9, <1>10, <1>11, <1>12 DEF AccessIInv

-----------------------------------------------------------------------------
(* What is proved.                                                         *)

\* Nothing was asked.
LEMMA InitAccess == AccessInit => AccessIInv
<1> SUFFICES ASSUME AccessInit PROVE AccessIInv
    OBVIOUS
<1>1. PICK row : row = [type |-> "REGISTER_NEW_BUSINESS", status |-> "NONE", club |-> NoClub]
    OBVIOUS
<1>2. accessRequest = [q \in AccessRequests |-> row] /\ row \in AccessRows /\ row.status = "NONE"
      /\ row.type = "REGISTER_NEW_BUSINESS"
    BY <1>1 DEF AccessInit, AccessRows, AccessTypes, AccessStatuses
<1>3. NoReview \in ReviewRows /\ NoReview.pc = "idle"
    BY DEF NoReview, ReviewRows, AccessStatuses
<1>4. AccessRowTypes
    BY <1>2, <1>3 DEF AccessInit, AccessRowTypes
<1>5. AccessIsApproved
    BY <1>2 DEF AccessInit, AccessIsApproved
<1> QED
    BY <1>2, <1>3, <1>4, <1>5 DEF AccessInit, AccessIInv, ReviewsRead, OldIsAsked, IsNew,
                                  CreatorIsApproved, OneClubPerRequest

\* Every step keeps the invariant.
LEMMA AccessStep == AccessIInv /\ [AccessNext]_accessVars => AccessIInv'
<1> SUFFICES ASSUME AccessIInv, [AccessNext]_accessVars PROVE AccessIInv'
    OBVIOUS
<1>1. CASE UNCHANGED accessVars
    BY <1>1 DEF accessVars, AccessIInv, AccessRowTypes, ReviewsRead, OldIsAsked, IsNew,
                CreatorIsApproved, AccessIsApproved, OneClubPerRequest
<1> QED
    BY <1>1, CreateRequestKeeps, PendingMoves, BeginDecisionKeeps, GrantKeeps, RejectionKeeps DEF AccessNext

\* The invariant is stronger than what the run checks.
LEMMA AccessShown == AccessIInv => AccessInv
BY DEF AccessIInv, AccessRowTypes, AccessRows, AccessInv, AccessTypeOK

\* A user administers the clubs of the requests that stand approved, and a
\* request creates one at most, unless reviews overlapped
\* (business-access.service.ts).
THEOREM AccessInvariance == AccessSpec => []AccessInv
<1> QED
    BY InitAccess, AccessStep, AccessShown, PTL DEF AccessSpec

-----------------------------------------------------------------------------
(***************************************************************************)
(* The audit log                                                           *)
(***************************************************************************)
-----------------------------------------------------------------------------
(* The walk of verifyIntegrity: what the fold computes.                    *)

\* What the walk starts from.
NoneChecked == [valid |-> TRUE, checked |-> 0, previous |-> 0]

\* A row stands before another, or is it.
NotAfter(k, i) == entries[k].at < entries[i].at \/ (entries[k].at = entries[i].at /\ k <= i)

\* A table of what the walk finds on the subsets of a set of rows.
IsWalking(S, g) ==
    g = [s \in SUBSET S |-> IF s = {} THEN NoneChecked
                            ELSE Verified(g[s \ {LastOf(s)}], LastOf(s))]

\* The rows of a log, and when they were written.
EntryRows == [at : Nat, chained : BOOLEAN, after : Nat, altered : BOOLEAN, removed : BOOLEAN]

\* A row is before what is not before one that it is before.
LEMMA NotAfterIsTotal ==
    ASSUME NEW k \in Nat, NEW x \in Nat, NEW m \in Nat, entries[k].at \in Nat,
           entries[x].at \in Nat, entries[m].at \in Nat, ~NotAfter(x, m), NotAfter(k, m)
    PROVE  NotAfter(k, x)
BY DEF NotAfter

\* A set of rows has a last one.
LEMMA LastOfIs ==
    ASSUME NEW S, IsFiniteSet(S), S # {}, entries \in Seq(EntryRows), S \subseteq DOMAIN entries
    PROVE  LastOf(S) \in S /\ \A k \in S : NotAfter(k, LastOf(S))
<1> DEFINE HasLast(s) == \E i \in s : \A k \in s : NotAfter(k, i)
           W == {s \in SUBSET S : s # {} /\ ~HasLast(s)}
<1>1. \A i \in S : entries[i].at \in Nat /\ i \in Nat
    <2>1. \A i \in S : i \in Nat /\ entries[i] \in EntryRows
        OBVIOUS
    <2> QED BY <2>1 DEF EntryRows
<1>2. HasLast(S)
    <2> SUFFICES ASSUME W # {} PROVE FALSE
        OBVIOUS
    <2>1. PICK s \in W : \A t \in W : t \subseteq s => t = s
        <3>1. W \subseteq SUBSET S
            OBVIOUS
        <3> HIDE DEF W
        <3> QED BY <3>1, Smallest
    <2>2. PICK x \in s : TRUE
        BY <2>1
    <2>3. s \ {x} = {} \/ HasLast(s \ {x})
        <3>1. s \ {x} \in SUBSET S /\ s \ {x} \notin W
            BY <2>1, <2>2
        <3> HIDE DEF HasLast
        <3> QED BY <3>1
    <2>4. CASE s \ {x} = {}
        <3>1. \A k \in s : NotAfter(k, x)
            BY <1>1, <2>1, <2>2, <2>4 DEF NotAfter
        <3> QED BY <2>1, <2>2, <3>1
    <2>5. CASE HasLast(s \ {x})
        <3>1. PICK m \in s \ {x} : \A k \in s \ {x} : NotAfter(k, m)
            BY <2>5
        <3>2. CASE NotAfter(x, m)
            <4>1. \A k \in s : NotAfter(k, m)
                BY <3>1, <3>2
            <4> QED BY <2>1, <3>1, <4>1
        <3>3. CASE ~NotAfter(x, m)
            <4>1. \A k \in s : NotAfter(k, x)
                <5>1. ASSUME NEW k \in s PROVE NotAfter(k, x)
                    <6>1. k \in S /\ m \in S /\ x \in S
                        BY <2>1, <2>2, <3>1
                    <6>2. k = x \/ NotAfter(k, m)
                        BY <3>1
                    <6>3. /\ entries[k].at \in Nat /\ entries[x].at \in Nat /\ entries[m].at \in Nat
                          /\ k \in Nat /\ x \in Nat /\ m \in Nat
                        BY <1>1, <6>1
                    <6>4. k = x => NotAfter(k, x)
                        BY <6>3 DEF NotAfter
                    <6> QED BY <3>3, <6>2, <6>3, <6>4, NotAfterIsTotal
                <5> QED BY <5>1
            <4> QED BY <2>1, <2>2, <4>1
        <3> QED BY <3>2, <3>3
    <2> QED BY <2>3, <2>4, <2>5
<1>3. \E i \in S : \A k \in S : entries[k].at < entries[i].at \/ (entries[k].at = entries[i].at /\ k <= i)
    BY <1>2 DEF NotAfter
<1>4. LastOf(S) \in S /\ \A k \in S : \/ entries[k].at < entries[LastOf(S)].at
                                      \/ entries[k].at = entries[LastOf(S)].at /\ k <= LastOf(S)
    BY <1>3, Zenon DEF LastOf
<1> QED
    BY <1>4 DEF NotAfter

\* What the walk finds on a set and on a subset of it agree.
LEMMA WalkingAgree ==
    ASSUME entries \in Seq(EntryRows), NEW S, IsFiniteSet(S), S \subseteq DOMAIN entries,
           NEW T, T \subseteq S, NEW g, NEW h, IsWalking(S, g), IsWalking(T, h)
    PROVE  \A s \in SUBSET T : g[s] = h[s]
<1> DEFINE W == {s \in SUBSET T : g[s] # h[s]}
<1> SUFFICES ASSUME W # {} PROVE FALSE
    OBVIOUS
<1>1. IsFiniteSet(T)
    BY FS_Subset
<1>2. PICK s \in W : \A t \in W : t \subseteq s => t = s
    <2>1. W \subseteq SUBSET T
        OBVIOUS
    <2> HIDE DEF W
    <2> QED
        BY <1>1, <2>1, Smallest
<1>3. s \in SUBSET T /\ s \in SUBSET S
    OBVIOUS
<1>4. CASE s = {}
    <2>1. g[s] = NoneChecked /\ h[s] = NoneChecked
        BY <1>3, <1>4 DEF IsWalking
    <2> QED
        BY <2>1
<1>5. CASE s # {}
    <2> DEFINE c == LastOf(s)
    <2>1. c \in s
        <3>1. IsFiniteSet(s) /\ s \subseteq DOMAIN entries
            BY <1>3, FS_Subset
        <3> QED BY <1>5, <3>1, LastOfIs
    <2>2. g[s] = Verified(g[s \ {c}], c)
        BY <1>3, <1>5, Zenon DEF IsWalking
    <2>3. h[s] = Verified(h[s \ {c}], c)
        BY <1>3, <1>5, Zenon DEF IsWalking
    <2>4. g[s \ {c}] = h[s \ {c}]
        BY <1>2, <1>3, <2>1
    <2> QED
        BY <1>2, <2>2, <2>3, <2>4
<1> QED
    BY <1>4, <1>5

\* There is such a table.
LEMMA WalkingExists ==
    ASSUME entries \in Seq(EntryRows), NEW S, IsFiniteSet(S), S \subseteq DOMAIN entries
    PROVE  \E g : IsWalking(S, g)
<1> DEFINE W == {s \in SUBSET S : ~ \E g : IsWalking(s, g)}
<1> SUFFICES ASSUME W # {} PROVE FALSE
    OBVIOUS
<1>1. PICK s \in W : \A t \in W : t \subseteq s => t = s
    <2>1. W \subseteq SUBSET S
        OBVIOUS
    <2> HIDE DEF W
    <2> QED
        BY <2>1, Smallest
<1>2. IsFiniteSet(s) /\ s \subseteq DOMAIN entries
    BY <1>1, FS_Subset
<1> DEFINE G(t) == CHOOSE g : IsWalking(t, g)
<1>3. \A t \in SUBSET s : t # s => IsWalking(t, G(t))
    <2> TAKE t \in SUBSET s
    <2> HAVE t # s
    <2>1. t \in SUBSET S /\ t \notin W
        BY <1>1
    <2>2. \E g : IsWalking(t, g)
        BY <2>1
    <2> QED
        BY <2>2, Zenon
<1>4. ASSUME NEW t \in SUBSET s, t # {} PROVE LastOf(t) \in t
    <2>1. IsFiniteSet(t) /\ t \subseteq DOMAIN entries
        BY <1>2, FS_Subset
    <2> QED BY <1>4, <2>1, LastOfIs
<1> DEFINE step(t) == IF t = {} THEN NoneChecked
                      ELSE Verified(G(t \ {LastOf(t)})[t \ {LastOf(t)}], LastOf(t))
           g == [t \in SUBSET s |-> step(t)]
<1>5. \A t \in SUBSET s : t # s => g[t] = G(t)[t]
    <2> TAKE t \in SUBSET s
    <2> HAVE t # s
    <2>1. IsWalking(t, G(t))
        BY <1>3, Zenon
    <2>2. CASE t = {}
        <3>1. G(t)[t] = NoneChecked
            <4> HIDE DEF G
            <4> QED BY <2>1, <2>2 DEF IsWalking
        <3>2. g[t] = NoneChecked
            <4> HIDE DEF G
            <4> QED BY <2>2
        <3> QED
            BY <3>1, <3>2
    <2>3. CASE t # {}
        <3> DEFINE u == t \ {LastOf(t)}
        <3>1. LastOf(t) \in t /\ u \subseteq t /\ u # t /\ u \in SUBSET s /\ u # s
            BY <1>4, <2>3
        <3>2. IsWalking(u, G(u))
            <4> HIDE DEF G, u
            <4> QED BY <1>3, <3>1, Zenon
        <3>3. G(t)[u] = G(u)[u]
            <4>1. IsFiniteSet(t) /\ t \subseteq DOMAIN entries
                BY <1>2, FS_Subset
            <4> HIDE DEF G, u
            <4> QED BY <4>1, <3>1, <3>2, <2>1, WalkingAgree
        <3>4. G(t)[t] = Verified(G(t)[u], LastOf(t))
            <4> HIDE DEF G
            <4> QED BY <2>1, <2>3, Zenon DEF IsWalking
        <3>5. g[t] = Verified(G(u)[u], LastOf(t))
            <4> HIDE DEF G
            <4> QED BY <2>3
        <3> QED
            BY <3>3, <3>4, <3>5
    <2> QED
        BY <2>2, <2>3
<1>6. \A t \in SUBSET s : g[t] = IF t = {} THEN NoneChecked
                                 ELSE Verified(g[t \ {LastOf(t)}], LastOf(t))
    <2> TAKE t \in SUBSET s
    <2>1. CASE t = {}
        <3> HIDE DEF G
        <3> QED BY <2>1
    <2>2. CASE t # {}
        <3> DEFINE u == t \ {LastOf(t)}
        <3>1. u \in SUBSET s /\ u # s
            BY <1>4, <2>2
        <3>2. g[u] = G(u)[u]
            <4> HIDE DEF G, g, u
            <4> QED BY <1>5, <3>1
        <3>3. g[t] = Verified(G(u)[u], LastOf(t))
            <4> HIDE DEF G
            <4> QED BY <2>2
        <3> QED
            BY <2>2, <3>2, <3>3
    <2> QED
        BY <2>1, <2>2
<1>7. IsWalking(s, g)
    <2>1. g = [t \in SUBSET s |-> g[t]]
        <3> HIDE DEF step
        <3> QED OBVIOUS
    <2>2. g = [t \in SUBSET s |-> IF t = {} THEN NoneChecked
                                  ELSE Verified(g[t \ {LastOf(t)}], LastOf(t))]
        <3> HIDE DEF g
        <3> QED BY <2>1, <1>6
    <2> HIDE DEF g
    <2> QED BY <2>2 DEF IsWalking
<1> QED
    BY <1>1, <1>7

\* The walk is the table.
LEMMA WalkIs ==
    ASSUME NEW S
    PROVE  Walk(S) = (CHOOSE g : IsWalking(S, g))[S]
BY DEF Walk, MapThenFoldSet, IsWalking, NoneChecked

\* The walk, one row at a time.
LEMMA WalkOf ==
    ASSUME entries \in Seq(EntryRows), NEW S, IsFiniteSet(S), S \subseteq DOMAIN entries
    PROVE  /\ S = {} => Walk(S) = NoneChecked
           /\ S # {} => Walk(S) = Verified(Walk(S \ {LastOf(S)}), LastOf(S))
<1> DEFINE T == S \ {LastOf(S)}
           g == CHOOSE x : IsWalking(S, x)
           h == CHOOSE x : IsWalking(T, x)
<1>1. T \subseteq S /\ IsFiniteSet(T) /\ T \subseteq DOMAIN entries
    BY FS_Subset
<1>2. IsWalking(S, g)
    BY WalkingExists, Zenon
<1>3. IsWalking(T, h)
    <2> HIDE DEF T
    <2> QED BY <1>1, WalkingExists, Zenon
<1>4. g[T] = h[T]
    <2> HIDE DEF g, h, T
    <2> QED BY <1>1, <1>2, <1>3, WalkingAgree
<1>5. Walk(S) = g[S] /\ Walk(T) = h[T]
    BY WalkIs, Zenon
<1>6. S = {} => g[S] = NoneChecked
    <2> HIDE DEF g
    <2> QED BY <1>2 DEF IsWalking
<1>7. S # {} => g[S] = Verified(g[T], LastOf(S))
    <2> HIDE DEF g
    <2> QED BY <1>2, Zenon DEF IsWalking
<1> QED
    BY <1>4, <1>5, <1>6, <1>7, Zenon
-----------------------------------------------------------------------------
(* The inductive invariant.                                                *)

Chained == {i \in DOMAIN entries : entries[i].chained}

AuditTypes ==
    /\ entries \in Seq(EntryRows)
    /\ chainLock \subseteq Recorders
    /\ latest \in [Recorders -> Nat]

\* One recorder holds the lock, and found a row of the log or none.
OneRecorder == \A q, r \in chainLock : q = r
LatestKnown == \A r \in chainLock : latest[r] \in 0..Len(entries)

\* What a row without a hash can be, and one with it.
RowsAreWritten == \A i \in DOMAIN entries :
    /\ entries[i].after \in 0..(i - 1)
    /\ ~entries[i].chained => entries[i].after = 0 /\ ~entries[i].altered

\* The instants of the chained rows grow, and each follows the one before.
ChainGrows ==
    /\ \A i, k \in Chained : i < k => entries[i].at < entries[k].at
    /\ \A i \in Chained :
           /\ entries[i].after = 0 \/ entries[i].after \in Chained
           /\ \A k \in Chained : k < i => k <= entries[i].after

\* Who holds the lock found a row that no chained one is later than.
LatestIsLast == \A r \in chainLock :
    IF latest[r] = 0 THEN Chained = {}
    ELSE \A k \in Chained : entries[k].at <= entries[latest[r]].at

AuditIInv ==
    /\ AuditTypes /\ OneRecorder /\ LatestKnown /\ RowsAreWritten
    /\ Untouched => LatestIsLast
    /\ Untouched /\ ~Mixed => ChainGrows

-----------------------------------------------------------------------------
(* The steps.                                                              *)

\* What a row is, and where.
LEMMA LogRowIs ==
    ASSUME AuditTypes
    PROVE  /\ DOMAIN entries = 1..Len(entries) /\ Len(entries) \in Nat
           /\ IsFiniteSet(DOMAIN entries)
           /\ \A i \in DOMAIN entries :
                  /\ i \in Nat /\ i # 0 /\ entries[i] \in EntryRows
                  /\ entries[i].at \in Nat /\ entries[i].after \in Nat
                  /\ entries[i].chained \in BOOLEAN
<1>1. DOMAIN entries = 1..Len(entries) /\ Len(entries) \in Nat
    BY DEF AuditTypes
<1>2. IsFiniteSet(DOMAIN entries)
    BY <1>1, FS_Interval
<1>3. \A i \in DOMAIN entries : i \in Nat /\ i # 0 /\ entries[i] \in EntryRows
    BY <1>1 DEF AuditTypes
<1> QED
    BY <1>1, <1>2, <1>3 DEF EntryRows

\* The row that is found last.
LEMMA LatestIs ==
    ASSUME AuditTypes, NEW i,
           i = IF Latest = {} THEN 0 ELSE CHOOSE k \in Latest : TRUE
    PROVE  /\ i \in 0..Len(entries)
           /\ i = 0 => Rows = {}
           /\ i # 0 => i \in Rows /\ \A k \in Rows : entries[k].at <= entries[i].at
<1>1. Rows \subseteq DOMAIN entries /\ IsFiniteSet(Rows)
    BY LogRowIs, FS_Subset DEF Rows
<1>2. Rows # {} => Latest # {}
    <2> SUFFICES ASSUME Rows # {} PROVE Latest # {}
        OBVIOUS
    <2>1. LastOf(Rows) \in Rows /\ \A k \in Rows : NotAfter(k, LastOf(Rows))
        BY <1>1, LastOfIs DEF AuditTypes
    <2>2. \A k \in Rows : entries[k].at <= entries[LastOf(Rows)].at
        BY <1>1, <2>1, LogRowIs DEF NotAfter
    <2> QED BY <2>1, <2>2 DEF Latest
<1>3. Latest # {} => i \in Latest
    <2>1. Latest # {} => i = CHOOSE k \in Latest : TRUE
        OBVIOUS
    <2> QED BY <2>1, Zenon
<1>4. Latest = {} => i = 0
    OBVIOUS
<1>5. \A k \in Latest : k \in Rows /\ k \in 1..Len(entries)
    BY <1>1, LogRowIs DEF Latest
<1> QED
    BY <1>2, <1>3, <1>4, <1>5, LogRowIs DEF Latest

\* A recorder takes the lock and finds the last row.
LEMMA ReadLatestKeeps ==
    ASSUME AuditIInv, NEW r \in Recorders, ReadLatest(r)
    PROVE  AuditIInv'
<1>1. PICK i : i = IF Latest = {} THEN 0 ELSE CHOOSE k \in Latest : TRUE
    OBVIOUS
<1>2. /\ i \in 0..Len(entries)
      /\ i = 0 => Rows = {}
      /\ i # 0 => i \in Rows /\ \A k \in Rows : entries[k].at <= entries[i].at
    BY <1>1, LatestIs DEF AuditIInv
<1>3. chainLock' = {r} /\ latest' = [latest EXCEPT ![r] = i] /\ entries' = entries
    BY <1>1 DEF ReadLatest, LockIsFree
<1>4. AuditTypes' /\ latest'[r] = i
    BY <1>2, <1>3 DEF AuditIInv, AuditTypes
<1>5. OneRecorder' /\ LatestKnown'
    BY <1>2, <1>3, <1>4 DEF OneRecorder, LatestKnown
<1>6. RowsAreWritten' /\ (Untouched' <=> Untouched) /\ (Mixed' <=> Mixed) /\ (ChainGrows' <=> ChainGrows)
    BY <1>3 DEF AuditIInv, RowsAreWritten, Untouched, Mixed, Rows, ChainGrows, Chained
<1>7. Untouched => LatestIsLast'
    <2> SUFFICES ASSUME Untouched PROVE LatestIsLast'
        OBVIOUS
    <2>1. Rows = DOMAIN entries /\ Chained \subseteq Rows
        BY DEF Untouched, Rows, Chained
    <2>2. IF i = 0 THEN Chained = {} ELSE \A k \in Chained : entries[k].at <= entries[i].at
        BY <1>2, <2>1
    <2>3. Chained' = Chained
        BY <1>3 DEF Chained
    <2> QED BY <1>3, <1>4, <2>2, <2>3 DEF LatestIsLast
<1> QED
    BY <1>4, <1>5, <1>6, <1>7 DEF AuditIInv

\* A row is added at the end.
LEMMA AppendIs ==
    ASSUME AuditTypes, NEW e \in EntryRows, entries' = Append(entries, e)
    PROVE  /\ entries' \in Seq(EntryRows)
           /\ Len(entries') = Len(entries) + 1
           /\ DOMAIN entries' = DOMAIN entries \cup {Len(entries) + 1}
           /\ Len(entries) + 1 \notin DOMAIN entries
           /\ entries'[Len(entries) + 1] = e
           /\ \A i \in DOMAIN entries : entries'[i] = entries[i]
BY DEF AuditTypes

\* A log that nobody touched and where nothing is mixed was so before a row.
LEMMA AppendMixes ==
    ASSUME AuditTypes, NEW e \in EntryRows, entries' = Append(entries, e)
    PROVE  /\ Untouched' => Untouched
           /\ Untouched' /\ ~Mixed' => ~Mixed
           /\ Untouched' /\ ~Mixed' => Rows' = DOMAIN entries' /\ Rows = DOMAIN entries
<1>1. /\ DOMAIN entries \subseteq DOMAIN entries'
      /\ \A i \in DOMAIN entries : entries'[i] = entries[i]
    BY AppendIs
<1>2. Untouched' => Untouched
    BY <1>1 DEF Untouched
<1>3. Untouched' => Rows' = DOMAIN entries'
    BY DEF Untouched, Rows
<1>4. Untouched => Rows = DOMAIN entries
    BY DEF Untouched, Rows
<1>5. Untouched' /\ Mixed => Mixed'
    <2> SUFFICES ASSUME Untouched', Mixed PROVE Mixed'
        OBVIOUS
    <2>1. PICK i \in Rows, k \in Rows : entries[i].chained /\ ~entries[k].chained /\ entries[k].at >= entries[i].at
        BY DEF Mixed
    <2>2. i \in Rows' /\ k \in Rows' /\ entries'[i] = entries[i] /\ entries'[k] = entries[k]
        BY <1>1, <1>2, <1>3, <1>4
    <2> QED BY <2>1, <2>2 DEF Mixed
<1> QED
    BY <1>2, <1>3, <1>4, <1>5

\* The recorder adds its row after the one it found.
LEMMA RecordEntryKeeps ==
    ASSUME AuditIInv, NEW r \in Recorders, Record(r)
    PROVE  AuditIInv'
<1>1. PICK now \in 0..MaxNow :
          entries' = Append(entries, Entry(AtAfter(latest[r], now), TRUE, HashOf(latest[r])))
    BY DEF Record
<1>0. PICK e : e = Entry(AtAfter(latest[r], now), TRUE, HashOf(latest[r])) /\ entries' = Append(entries, e)
    BY <1>1
<1>2. r \in chainLock /\ chainLock' = chainLock \ {r} /\ latest' = latest
    BY DEF Record
<1>3. PICK l \in 0..Len(entries), n \in Nat : l = latest[r] /\ n = Len(entries) + 1
    BY <1>2, LogRowIs DEF AuditIInv, LatestKnown
<1>4. l # 0 => l \in DOMAIN entries /\ entries[l].at \in Nat /\ entries[l].chained \in BOOLEAN
    BY <1>3, LogRowIs DEF AuditIInv
<1>5. PICK at \in Nat : at = AtAfter(l, now) /\ (l # 0 => at > entries[l].at)
    <2>1. MaxNow \in Nat /\ now \in Nat
        BY AuditAssumption
    <2>2. CASE l # 0 /\ entries[l].at >= now
        BY <1>4, <2>1, <2>2 DEF AtAfter
    <2>3. CASE ~(l # 0 /\ entries[l].at >= now)
        BY <1>4, <2>1, <2>3 DEF AtAfter
    <2> QED BY <2>2, <2>3
<1>6. PICK after \in 0..Len(entries) :
          /\ after = HashOf(l)
          /\ after = 0 \/ (after = l /\ entries[l].chained)
          /\ l # 0 /\ entries[l].chained => after = l
    BY <1>3 DEF HashOf
<1>7. /\ e \in EntryRows /\ e.at = at /\ e.after = after /\ e.chained = TRUE
      /\ e.altered = FALSE /\ e.removed = FALSE
    BY <1>0, <1>3, <1>5, <1>6 DEF Entry, EntryRows
<1>8. /\ entries' \in Seq(EntryRows) /\ Len(entries') = n
      /\ DOMAIN entries' = DOMAIN entries \cup {n} /\ n \notin DOMAIN entries
      /\ entries'[n] = e
      /\ \A i \in DOMAIN entries : entries'[i] = entries[i]
    BY <1>0, <1>3, <1>7, AppendIs DEF AuditIInv
<1>9. AuditTypes' /\ chainLock' = {}
    BY <1>2, <1>8 DEF AuditIInv, AuditTypes, OneRecorder
<1>10. OneRecorder' /\ LatestKnown' /\ LatestIsLast'
    BY <1>9 DEF OneRecorder, LatestKnown, LatestIsLast
<1>11. RowsAreWritten'
    BY <1>3, <1>7, <1>8 DEF AuditIInv, RowsAreWritten
<1>12. ASSUME Untouched', ~Mixed' PROVE ChainGrows'
    <2>1. Untouched /\ ~Mixed /\ Rows = DOMAIN entries
        BY <1>0, <1>7, <1>12, AppendMixes DEF AuditIInv
    <2>2. ChainGrows /\ LatestIsLast
        BY <2>1 DEF AuditIInv
    <2>3. Chained' = Chained \cup {n} /\ Chained \subseteq DOMAIN entries /\ n \notin Chained
        BY <1>7, <1>8 DEF Chained
    <2>4. \A i \in Chained : i < n /\ i \in Nat /\ i # 0 /\ entries'[i] = entries[i] /\ entries[i].at \in Nat
        BY <1>3, <1>8, <2>3, LogRowIs DEF AuditIInv
    <2>5. \A i \in Chained : l # 0 /\ entries[i].at <= entries[l].at
        BY <1>2, <1>3, <2>2 DEF LatestIsLast
    <2>6. \A i \in Chained : entries[i].at < at
        BY <1>4, <1>5, <2>4, <2>5
    <2>7. \A i \in Chained : entries[l].chained
        <3> SUFFICES ASSUME NEW i \in Chained, ~entries[l].chained PROVE FALSE
            OBVIOUS
        <3>1. i \in Rows /\ l \in Rows /\ entries[i].chained
            BY <1>4, <2>1, <2>3, <2>5 DEF Chained
        <3>2. entries[l].at >= entries[i].at
            BY <1>4, <2>4, <2>5
        <3> QED BY <2>1, <3>1, <3>2 DEF Mixed
    <2>8. \A i \in Chained : i <= after
        <3> SUFFICES ASSUME NEW i \in Chained PROVE i <= after
            OBVIOUS
        <3>1. after = l /\ l \in Chained
            BY <1>4, <1>6, <2>5, <2>7 DEF Chained
        <3>2. ~(l < i)
            BY <1>4, <2>2, <2>4, <2>5, <3>1 DEF ChainGrows
        <3> QED BY <2>4, <3>1, <3>2
    <2>9. after = 0 \/ after \in Chained
        BY <1>4, <1>6 DEF Chained
    <2>10. \A i, k \in Chained' : i < k => entries'[i].at < entries'[k].at
        BY <1>3, <1>7, <1>8, <2>2, <2>3, <2>4, <2>6 DEF ChainGrows
    <2>11. \A i \in Chained' :
               /\ entries'[i].after = 0 \/ entries'[i].after \in Chained'
               /\ \A k \in Chained' : k < i => k <= entries'[i].after
        BY <1>3, <1>7, <1>8, <2>2, <2>3, <2>4, <2>8, <2>9 DEF ChainGrows
    <2> QED BY <2>10, <2>11 DEF ChainGrows
<1> QED
    BY <1>9, <1>10, <1>11, <1>12 DEF AuditIInv

\* Another service adds a row without a hash.
LEMMA WriteEntryKeeps ==
    ASSUME AuditIInv, WriteEntry
    PROVE  AuditIInv'
<1>1. PICK now \in 0..MaxNow : entries' = Append(entries, Entry(now, FALSE, 0))
    BY DEF WriteEntry
<1>0. PICK e : e = Entry(now, FALSE, 0) /\ entries' = Append(entries, e)
    BY <1>1
<1>2. chainLock' = chainLock /\ latest' = latest
    BY DEF WriteEntry
<1>3. PICK n \in Nat : n = Len(entries) + 1
    BY LogRowIs DEF AuditIInv
<1>4. /\ e \in EntryRows /\ e.after = 0 /\ e.chained = FALSE /\ e.altered = FALSE
    BY <1>0, AuditAssumption DEF Entry, EntryRows
<1>5. /\ entries' \in Seq(EntryRows) /\ Len(entries') = n
      /\ DOMAIN entries' = DOMAIN entries \cup {n} /\ n \notin DOMAIN entries
      /\ entries'[n] = e
      /\ \A i \in DOMAIN entries : entries'[i] = entries[i]
    BY <1>0, <1>3, <1>4, AppendIs DEF AuditIInv
<1>6. AuditTypes' /\ OneRecorder'
    BY <1>2, <1>5 DEF AuditIInv, AuditTypes, OneRecorder
<1>7. LatestKnown'
    BY <1>2, <1>3, <1>5 DEF AuditIInv, LatestKnown
<1>8. RowsAreWritten'
    BY <1>3, <1>4, <1>5 DEF AuditIInv, RowsAreWritten
<1>9. Chained' = Chained /\ \A i \in Chained : entries'[i] = entries[i]
    BY <1>4, <1>5 DEF Chained
<1>10. LatestIsLast => LatestIsLast'
    <2> SUFFICES ASSUME LatestIsLast, NEW r \in chainLock
                 PROVE  IF latest[r] = 0 THEN Chained = {}
                        ELSE \A k \in Chained : entries'[k].at <= entries'[latest[r]].at
        BY <1>2, <1>9 DEF LatestIsLast
    <2>1. latest[r] # 0 => latest[r] \in DOMAIN entries
        BY LogRowIs DEF AuditIInv, LatestKnown
    <2> QED BY <1>5, <1>9, <2>1 DEF LatestIsLast
<1>11. ChainGrows => ChainGrows'
    BY <1>9 DEF ChainGrows
<1>12. (Untouched' => Untouched) /\ (Untouched' /\ ~Mixed' => ~Mixed)
    BY <1>0, <1>4, AppendMixes DEF AuditIInv
<1> QED
    BY <1>6, <1>7, <1>8, <1>10, <1>11, <1>12 DEF AuditIInv

\* A row is changed, or deleted.
LEMMA AlterKeeps ==
    ASSUME AuditIInv, NEW i \in DOMAIN entries, Alter(i)
    PROVE  AuditIInv'
<1>1. PICK e : /\ e \in {[entries[i] EXCEPT !.altered = TRUE], [entries[i] EXCEPT !.removed = TRUE]}
               /\ entries' = [entries EXCEPT ![i] = e]
    BY DEF Alter
<1>2. chainLock' = chainLock /\ latest' = latest /\ entries[i].chained
    BY DEF Alter
<1>3. entries[i] \in EntryRows
    BY LogRowIs DEF AuditIInv
<1>4. /\ e \in EntryRows /\ e.at = entries[i].at /\ e.chained = entries[i].chained
      /\ e.after = entries[i].after /\ (e.altered \/ e.removed)
    BY <1>1, <1>3 DEF EntryRows
<1>5. /\ entries' \in Seq(EntryRows) /\ Len(entries') = Len(entries)
      /\ DOMAIN entries' = DOMAIN entries /\ entries'[i] = e
      /\ \A k \in DOMAIN entries : k # i => entries'[k] = entries[k]
    BY <1>1, <1>4 DEF AuditIInv, AuditTypes
<1>6. AuditTypes' /\ OneRecorder' /\ LatestKnown'
    BY <1>2, <1>5 DEF AuditIInv, AuditTypes, OneRecorder, LatestKnown
<1>7. RowsAreWritten'
    BY <1>2, <1>4, <1>5 DEF AuditIInv, RowsAreWritten
<1>8. ~Untouched'
    BY <1>4, <1>5 DEF Untouched
<1> QED
    BY <1>6, <1>7, <1>8 DEF AuditIInv

-----------------------------------------------------------------------------
(* What the walk shows.                                                    *)

\* What the walk holds is a chain.
Chains == [valid : BOOLEAN, checked : Nat, previous : Nat]

\* One row of the walk.
LEMMA VerifiedIs ==
    ASSUME AuditTypes, NEW chain \in Chains, NEW i \in DOMAIN entries
    PROVE  /\ Verified(chain, i) \in Chains
           /\ Verified(chain, i).previous \in {chain.previous, i, 0}
           /\ ~chain.valid => ~Verified(chain, i).valid
<1>1. entries[i].altered \in BOOLEAN /\ entries[i].chained \in BOOLEAN /\ i \in Nat
    BY LogRowIs DEF EntryRows
<1>2. HashOf(i) \in {i, 0} /\ HashOf(i) \in Nat
    BY <1>1 DEF HashOf
<1>3. PICK sound \in BOOLEAN :
          sound = (entries[i].chained /\ ~entries[i].altered /\ entries[i].after = chain.previous)
    OBVIOUS
<1>4. chain.checked + 1 \in Nat
    BY DEF Chains
<1>5. \/ Verified(chain, i) = chain
      \/ /\ chain.valid
         /\ Verified(chain, i) = [valid |-> sound, checked |-> chain.checked + 1, previous |-> HashOf(i)]
    BY <1>3, Zenon DEF Verified
<1> QED
    BY <1>2, <1>4, <1>5 DEF Chains

\* The walk holds what rows it saw, and stays wrong once it is.
LEMMA WalkHolds ==
    ASSUME AuditIInv, NEW S \in SUBSET Rows
    PROVE  /\ Walk(S) \in Chains /\ Walk(S).previous \in S \cup {0}
           /\ (\E i \in S : entries[i].altered \/ (entries[i].after # 0 /\ entries[i].after \notin Rows))
                 => ~Walk(S).valid
<1> DEFINE Wrong(i) == entries[i].altered \/ (entries[i].after # 0 /\ entries[i].after \notin Rows)
           Holds(s) == /\ Walk(s) \in Chains /\ Walk(s).previous \in s \cup {0}
                       /\ (\E i \in s : Wrong(i)) => ~Walk(s).valid
           W == {s \in SUBSET Rows : ~Holds(s)}
<1>1. Rows \subseteq DOMAIN entries /\ IsFiniteSet(Rows) /\ AuditTypes
    BY LogRowIs, FS_Subset DEF AuditIInv, Rows
<1>2. W = {}
    <2> SUFFICES ASSUME W # {} PROVE FALSE
        OBVIOUS
    <2>1. PICK s \in W : \A t \in W : t \subseteq s => t = s
        <3>1. W \subseteq SUBSET Rows
            OBVIOUS
        <3> HIDE DEF W
        <3> QED BY <1>1, <3>1, Smallest
    <2>2. s \in SUBSET Rows /\ ~Holds(s)
        BY <2>1
    <2>3. IsFiniteSet(s) /\ s \subseteq DOMAIN entries /\ entries \in Seq(EntryRows)
        BY <1>1, <2>2, FS_Subset DEF AuditTypes
    <2>4. CASE s = {}
        <3>1. Walk(s) = NoneChecked
            BY <2>3, <2>4, WalkOf
        <3>2. NoneChecked \in Chains /\ NoneChecked.previous = 0
            BY DEF NoneChecked, Chains
        <3> QED BY <2>2, <2>4, <3>1, <3>2
    <2>5. CASE s # {}
        <3>1. PICK x : x = LastOf(s)
            OBVIOUS
        <3>2. x \in s /\ x \in DOMAIN entries
            BY <2>3, <2>5, <3>1, LastOfIs
        <3>3. Holds(s \ {x})
            <4>1. s \ {x} \in SUBSET Rows /\ s \ {x} \notin W
                BY <2>1, <2>2, <3>2
            <4> HIDE DEF Holds
            <4> QED BY <4>1
        <3>4. PICK chain \in Chains : chain = Walk(s \ {x})
            BY <3>3
        <3>5. Walk(s) = Verified(chain, x)
            BY <2>3, <2>5, <3>1, <3>4, WalkOf
        <3>6. /\ Walk(s) \in Chains
              /\ Walk(s).previous \in {chain.previous, x, 0}
              /\ ~chain.valid => ~Walk(s).valid
            BY <1>1, <3>2, <3>5, VerifiedIs
        <3>7. Walk(s).previous \in s \cup {0}
            BY <3>2, <3>3, <3>4, <3>6
        <3>8. Wrong(x) => ~Walk(s).valid
            <4> SUFFICES ASSUME Wrong(x), chain.valid PROVE ~Walk(s).valid
                BY <3>6
            <4>1. chain.previous = 0 \/ chain.previous \in Rows
                BY <2>2, <3>3, <3>4
            <4>2. entries[x].chained \/ entries[x].after # 0
                BY <3>2 DEF AuditIInv, RowsAreWritten
            <4>3. ~(entries[x].chained /\ ~entries[x].altered /\ entries[x].after = chain.previous)
                BY <4>1
            <4>4. Verified(chain, x) =
                      [valid |-> entries[x].chained /\ ~entries[x].altered /\ entries[x].after = chain.previous,
                       checked |-> chain.checked + 1, previous |-> HashOf(x)]
                BY <4>2, Zenon DEF Verified
            <4>5. Verified(chain, x).valid =
                      (entries[x].chained /\ ~entries[x].altered /\ entries[x].after = chain.previous)
                BY <4>4
            <4> QED BY <3>5, <4>3, <4>5
        <3>9. (\E i \in s : Wrong(i)) => ~Walk(s).valid
            <4> SUFFICES ASSUME NEW i \in s, Wrong(i) PROVE ~Walk(s).valid
                BY Zenon
            <4>1. i # x => ~chain.valid
                BY <3>3, <3>4
            <4> HIDE DEF Wrong
            <4> QED BY <3>6, <3>8, <4>1
        <3> QED BY <2>2, <3>6, <3>7, <3>9
    <2> QED BY <2>4, <2>5
<1> QED
    BY <1>2

\* The walk of a log that nobody touched finds every row sound.
LEMMA WalkIsSound ==
    ASSUME AuditIInv, Untouched, ~Mixed
    PROVE  Valid
<1> DEFINE Prefix(s) == \A i \in s, k \in Rows : NotAfter(k, i) => k \in s
           Sound(s) == /\ Walk(s).valid
                       /\ Walk(s).checked = 0 <=> s \cap Chained = {}
                       /\ \A k \in s \cap Chained : k <= Walk(s).previous
                       /\ Walk(s).previous = 0 \/ Walk(s).previous \in Chained
           W == {s \in SUBSET Rows : Prefix(s) /\ ~Sound(s)}
<1>1. Rows = DOMAIN entries /\ IsFiniteSet(Rows) /\ AuditTypes /\ ChainGrows
    BY LogRowIs, FS_Subset DEF AuditIInv, Rows, Untouched
<1>2. W = {}
    <2> SUFFICES ASSUME W # {} PROVE FALSE
        OBVIOUS
    <2>1. PICK s \in W : \A t \in W : t \subseteq s => t = s
        <3>1. W \subseteq SUBSET Rows
            OBVIOUS
        <3> HIDE DEF W
        <3> QED BY <1>1, <3>1, Smallest
    <2>2. s \in SUBSET Rows /\ Prefix(s) /\ ~Sound(s)
        BY <2>1
    <2>3. IsFiniteSet(s) /\ s \subseteq DOMAIN entries /\ entries \in Seq(EntryRows)
        BY <1>1, <2>2, FS_Subset DEF AuditTypes
    <2>4. CASE s = {}
        <3>1. Walk(s) = NoneChecked
            BY <2>3, <2>4, WalkOf
        <3> QED BY <2>2, <2>4, <3>1 DEF NoneChecked
    <2>5. CASE s # {}
        <3>1. PICK x : x = LastOf(s)
            OBVIOUS
        <3>2. x \in s /\ x \in DOMAIN entries /\ \A k \in s : NotAfter(k, x)
            BY <2>3, <2>5, <3>1, LastOfIs
        <3>3. \A k \in Rows : k \in Nat /\ k # 0 /\ entries[k].at \in Nat
            BY <1>1, LogRowIs
        <3>4. Prefix(s \ {x})
            <4> SUFFICES ASSUME NEW i \in s \ {x}, NEW k \in Rows, NotAfter(k, i)
                         PROVE  k \in s \ {x}
                OBVIOUS
            <4>1. k \in s
                BY <2>2
            <4>2. NotAfter(i, x) /\ i # x
                BY <3>2
            <4>3. k # x
                BY <1>1, <2>2, <3>2, <3>3, <4>2 DEF NotAfter
            <4> QED BY <4>1, <4>3
        <3>5. Sound(s \ {x})
            <4>1. s \ {x} \in SUBSET Rows /\ s \ {x} \notin W
                BY <2>1, <2>2, <3>2
            <4> HIDE DEF Sound, Prefix
            <4> QED BY <3>4, <4>1
        <3>6. PICK chain \in Chains : chain = Walk(s \ {x})
            <4>1. s \ {x} \in SUBSET Rows
                BY <2>2
            <4> QED BY <4>1, WalkHolds
        <3>7. Walk(s) = Verified(chain, x)
            BY <2>3, <2>5, <3>1, <3>6, WalkOf
        <3>8. CASE x \notin Chained
            <4>1. s \cap Chained = {}
                <5> SUFFICES ASSUME NEW k \in s \cap Chained PROVE FALSE
                    OBVIOUS
                <5>1. entries[x].at >= entries[k].at
                    BY <1>1, <2>2, <3>2, <3>3 DEF NotAfter
                <5>2. k \in Rows /\ x \in Rows /\ entries[k].chained /\ ~entries[x].chained
                    BY <1>1, <2>2, <3>2, <3>8 DEF Chained
                <5> QED BY <5>1, <5>2 DEF Mixed
            <4>2. chain.checked = 0
                BY <3>5, <3>6, <4>1
            <4>3. ~entries[x].chained /\ entries[x].after = 0
                BY <3>2, <3>8 DEF Chained, AuditIInv, RowsAreWritten
            <4>4. Walk(s) = chain
                BY <3>7, <4>2, <4>3, Zenon DEF Verified
            <4>5. Sound(s)
                BY <3>5, <3>6, <4>1, <4>2, <4>4
            <4> QED BY <2>2, <4>5
        <3>9. CASE x \in Chained
            <4>1. /\ entries[x].after = 0 \/ entries[x].after \in Chained
                  /\ \A k \in Chained : k < x => k <= entries[x].after
                  /\ \A i, k \in Chained : i < k => entries[i].at < entries[k].at
                BY <1>1, <3>9 DEF ChainGrows
            <4>2. entries[x].after < x /\ entries[x].after \in Nat /\ x \in Nat
                BY <3>2, LogRowIs DEF AuditIInv, RowsAreWritten
            <4>3. \A k \in Chained : k \in Rows /\ k \in Nat /\ k # 0
                BY <1>1, <3>3 DEF Chained
            <4>4. ASSUME NEW k \in Chained PROVE k \in s <=> k <= x
                <5>1. k <= x => NotAfter(k, x)
                    BY <3>9, <4>1, <4>2, <4>3 DEF NotAfter
                <5>2. k <= x => k \in s
                    BY <2>2, <3>2, <4>3, <5>1
                <5>3. ~(k <= x) => entries[x].at < entries[k].at
                    BY <3>9, <4>1, <4>2, <4>3
                <5>4. k \in s => NotAfter(k, x)
                    BY <3>2
                <5> QED BY <1>1, <3>2, <3>3, <4>3, <5>2, <5>3, <5>4 DEF NotAfter
            <4>5. chain.previous = entries[x].after
                <5>1. /\ \A k \in (s \ {x}) \cap Chained : k <= chain.previous
                      /\ chain.previous = 0 \/ chain.previous \in Chained
                    BY <3>5, <3>6
                <5>2. chain.previous \in (s \ {x}) \cup {0}
                    <6>1. s \ {x} \in SUBSET Rows
                        BY <2>2
                    <6> QED BY <3>6, <6>1, WalkHolds
                <5>3. chain.previous \in Nat
                    BY DEF Chains
                <5>4. entries[x].after # 0 => entries[x].after \in (s \ {x}) \cap Chained
                    BY <4>1, <4>2, <4>4
                <5>5. entries[x].after <= chain.previous
                    BY <4>2, <5>1, <5>3, <5>4
                <5>6. chain.previous # 0 => chain.previous < x
                    BY <4>2, <4>4, <5>1, <5>2, <5>3
                <5>7. chain.previous <= entries[x].after
                    BY <4>1, <4>2, <5>1, <5>3, <5>6
                <5> QED BY <4>2, <5>3, <5>5, <5>7
            <4>6. entries[x].chained /\ ~entries[x].altered
                BY <3>2, <3>9 DEF Chained, Untouched
            <4>7. chain.valid
                BY <3>5, <3>6
            <4>8. PICK sound \in BOOLEAN :
                      sound = (entries[x].chained /\ ~entries[x].altered /\ entries[x].after = chain.previous)
                OBVIOUS
            <4>9. sound = TRUE
                BY <4>5, <4>6, <4>8
            <4>10. HashOf(x) = x
                BY <4>6, <3>3, <3>2, <1>1 DEF HashOf
            <4>11. Walk(s) = [valid |-> sound, checked |-> chain.checked + 1, previous |-> x]
                BY <3>7, <4>6, <4>7, <4>8, <4>10, Zenon DEF Verified
            <4>12. Walk(s).valid /\ Walk(s).checked # 0 /\ Walk(s).previous = x
                BY <4>9, <4>11 DEF Chains
            <4>13. Sound(s)
                BY <3>2, <3>9, <4>4, <4>12
            <4> QED BY <2>2, <4>13
        <3> QED BY <3>8, <3>9
    <2> QED BY <2>4, <2>5
<1>3. Rows \in SUBSET Rows /\ Prefix(Rows)
    OBVIOUS
<1>4. Sound(Rows)
    <2> HIDE DEF Sound, Prefix
    <2> QED BY <1>2, <1>3
<1> QED
    BY <1>4 DEF Valid

-----------------------------------------------------------------------------
(* What is proved.                                                         *)

\* The log is empty.
LEMMA InitAudit == AuditInit => AuditIInv
<1> SUFFICES ASSUME AuditInit PROVE AuditIInv
    OBVIOUS
<1>1. entries = <<>> /\ chainLock = {} /\ latest \in [Recorders -> Nat]
    BY DEF AuditInit
<1>2. DOMAIN entries = {} /\ entries \in Seq(EntryRows)
    BY <1>1
<1> QED
    BY <1>1, <1>2 DEF AuditIInv, AuditTypes, OneRecorder, LatestKnown, RowsAreWritten, LatestIsLast,
                      ChainGrows, Chained

\* Every step keeps the invariant.
LEMMA AuditStep == AuditIInv /\ [AuditNext]_auditVars => AuditIInv'
<1> SUFFICES ASSUME AuditIInv, [AuditNext]_auditVars PROVE AuditIInv'
    OBVIOUS
<1>1. CASE UNCHANGED auditVars
    BY <1>1 DEF auditVars, AuditIInv, AuditTypes, OneRecorder, LatestKnown, RowsAreWritten, LatestIsLast,
                ChainGrows, Chained, Untouched, Mixed, Rows
<1> QED
    BY <1>1, ReadLatestKeeps, RecordEntryKeeps, WriteEntryKeeps, AlterKeeps DEF AuditNext

\* The invariant is stronger than what the run checks.
LEMMA AuditShown == AuditIInv => AuditInv
<1> SUFFICES ASSUME AuditIInv PROVE AuditInv
    OBVIOUS
<1>1. \A i \in DOMAIN entries : entries[i].after \in 0..(i - 1)
    BY DEF AuditIInv, RowsAreWritten
<1>2. ChainIsSound
    BY WalkIsSound DEF ChainIsSound
<1>3. TouchIsNoticed
    <2> SUFFICES ASSUME NEW i \in DOMAIN entries,
                        \/ entries[i].altered /\ ~entries[i].removed
                        \/ entries[i].removed /\ \E k \in Rows : entries[k].after = i
                 PROVE  ~Valid
        BY DEF TouchIsNoticed
    <2>1. \E k \in Rows : entries[k].altered \/ (entries[k].after # 0 /\ entries[k].after \notin Rows)
        <3>1. i # 0
            BY LogRowIs DEF AuditIInv
        <3> QED BY <3>1 DEF Rows
    <2>2. Rows \in SUBSET Rows
        OBVIOUS
    <2> QED BY <2>1, <2>2, WalkHolds, Zenon DEF Valid
<1> QED
    BY <1>1, <1>2, <1>3 DEF AuditInv

\* A log that nobody touched is found valid, and a row that was altered, or
\* removed from under a later one, is noticed (audit.service.ts).
THEOREM AuditInvariance == AuditSpec => []AuditInv
<1> QED
    BY InitAudit, AuditStep, AuditShown, PTL DEF AuditSpec

-----------------------------------------------------------------------------
(***************************************************************************)
(* The administrators of the platform                                      *)
(***************************************************************************)
-----------------------------------------------------------------------------
(* The inductive invariant.                                                *)

\* What any column may hold, and the rows of the variables.
AnyValue == UNION {ColumnValues(r) : r \in Columns}

OfficeRows == [pc : {"idle", "global", "writeGlobal", "writeSettings", "write", "record"},
               row : Columns \cup {NoColumn}, value : AnyValue \cup {Unset}, held : Documents,
               patch : Patches, changed : SUBSET SettingKeys]

ResolverRows == [pc : {"idle", "global", "resolved"}, club : FeeClubs \cup {NoColumn},
                 override : Fees \cup {Unset}, bps : Fees \cup {Unset},
                 source : {"NONE", "GLOBAL", "BUSINESS_OVERRIDE"},
                 inForce : SUBSET (TypedBps \cup {Unset}), overridden : BOOLEAN]

AdminTypes ==
    /\ settings \in Documents
    /\ column \in [Columns -> AnyValue]
    /\ logged \in [Columns -> AnyValue]
    /\ office \in [Administrators -> OfficeRows]
    /\ owing \in [Columns -> SUBSET Administrators]
    /\ resolver \in [Resolvers -> ResolverRows]

\* What a request is about to write fits what it is written to.
ChangesFit == \A h \in Administrators :
    /\ office[h].pc \in {"write", "record"} =>
           office[h].row \in Columns /\ office[h].value \in ColumnValues(office[h].row)
    /\ office[h].pc \in {"global", "writeGlobal"} => office[h].patch.bps \in TypedBps

\* Who owes an entry are the requests that wrote the column.
OwingIs == \A h \in Administrators, r \in Columns :
    h \in owing[r] <=> office[h].pc = "record" /\ office[h].row = r

\* What a checkout that read the fee of its club can still end with was in force.
ReadWasInForce == \A q \in Resolvers : resolver[q].pc = "global" =>
    /\ resolver[q].club \in FeeClubs
    /\ resolver[q].override # Unset => resolver[q].override \in resolver[q].inForce
    /\ resolver[q].override = Unset =>
           \/ resolver[q].overridden
           \/ /\ column[resolver[q].club] = Unset
              /\ GlobalBps(settings) \in resolver[q].inForce

AdminIInv ==
    /\ AdminTypes /\ AdminTypeOK /\ ChangesFit /\ OwingIs /\ ReadWasInForce
    /\ HeldIsCurrent /\ LogTellsLast /\ FeeWasInForce

-----------------------------------------------------------------------------
(* Values.                                                                 *)

\* What the assumptions say of the special values.
LEMMA SpecialsAre ==
    /\ Keep # Unset /\ Unset \notin TypedBps /\ Keep \notin TypedBps
    /\ Keep \notin Prices /\ Unset \notin Prices
    /\ FeeClubs \subseteq Columns /\ NoColumn \notin Columns
    /\ Empty \in Documents /\ NoPatch \in Patches
    /\ \A b \in TypedBps : b \in Nat
    /\ Fees \subseteq TypedBps /\ \A b \in Fees : b <= MaximumBps
    /\ \A r \in FeeClubs : ColumnValues(r) = Fees \cup {Unset}
    /\ \A r \in Columns : ColumnValues(r) \subseteq AnyValue
BY AdminAssumption DEF Columns, Empty, NoPatch, Documents, Patches, Fees, ColumnValues, AnyValue

\* What resting is.
LEMMA RestingIs ==
    /\ NoChange \in OfficeRows /\ NoChange.pc = "idle"
    /\ Resolves \in ResolverRows /\ Resolves.pc = "idle"
<1>1. NoChange \in OfficeRows /\ NoChange.pc = "idle"
    BY SpecialsAre DEF NoChange, OfficeRows
<1>2. Resolves \in ResolverRows /\ Resolves.pc = "idle"
    BY DEF Resolves, ResolverRows
<1> QED
    BY <1>1, <1>2

\* The fee of the platform, in a document.
LEMMA GlobalBpsIs ==
    ASSUME NEW d \in Documents
    PROVE  /\ GlobalBps(d) \in TypedBps \cup {Unset}
           /\ GlobalReads(d) => GlobalBps(d) \in Fees \cup {Unset}
BY DEF Documents, GlobalBps, GlobalReads

\* The fee of a club is one that may be typed, or none.
LEMMA ClubFeeIs ==
    ASSUME AdminTypes, AdminTypeOK, NEW c \in FeeClubs
    PROVE  column[c] \in Fees \cup {Unset} /\ Effective(c) \in TypedBps \cup {Unset}
BY SpecialsAre, GlobalBpsIs DEF AdminTypes, AdminTypeOK, Effective

\* A product of naturals.
LEMMA FeeProduct ==
    ASSUME NEW g \in Nat, NEW b \in Nat, b <= 10000
    PROVE  g * b \in Nat /\ g * b <= g * 10000
<1>1. g * b \in Nat /\ g * (10000 - b) \in Nat
    OBVIOUS
<1>2. g * 10000 = g * b + g * (10000 - b)
    OBVIOUS
<1> QED
    BY <1>1, <1>2

\* A fee is never more than what is charged.
LEMMA FeeFits ==
    ASSUME NEW b \in Fees
    PROVE  FeeCents(GrossCents, b) \in 0..GrossCents
<1>1. b \in Nat /\ b <= 10000 /\ GrossCents \in Nat
    <2>1. b \in Nat /\ b <= MaximumBps
        BY SpecialsAre
    <2>2. MaximumBps \in Nat /\ MaximumBps <= 10000 /\ GrossCents \in Nat
        BY AdminAssumption
    <2> QED BY <2>1, <2>2
<1>2. PICK p \in Nat : p = GrossCents * b /\ p <= GrossCents * 10000
    BY <1>1, FeeProduct
<1>3. (p + 5000) \div 10000 <= GrossCents
    <2>1. p + 5000 < 10000 * GrossCents + 10000 /\ p + 5000 \in Int
        BY <1>1, <1>2
    <2> QED BY <1>1, <2>1, DivisionAtMost
<1>4. 0 <= (p + 5000) \div 10000 /\ (p + 5000) \div 10000 \in Int
    BY <1>2, DivisionAtLeast, DivisionIs
<1> QED
    BY <1>1, <1>2, <1>3, <1>4 DEF FeeCents

-----------------------------------------------------------------------------
(* The steps of the administrators that write nothing.                     *)

\* What a step of one request leaves of the others.
LEMMA ChangeMoves ==
    ASSUME AdminIInv, NEW h \in Administrators, NEW row \in OfficeRows,
           office' = [office EXCEPT ![h] = row],
           UNCHANGED <<settings, column, logged, owing, muddled, resolver>>,
           office[h].pc # "record", row.pc # "record",
           row.pc = "write" => row.row \in Columns /\ row.value \in ColumnValues(row.row),
           row.pc \in {"global", "writeGlobal"} => row.patch.bps \in TypedBps,
           row.pc \in {"writeGlobal", "writeSettings"} => row.held = settings
    PROVE  AdminIInv'
<1>1. \A g \in Administrators : office'[g] = IF g = h THEN row ELSE office[g]
    BY DEF AdminIInv, AdminTypes
<1>2. AdminTypes' /\ AdminTypeOK'
    BY DEF AdminIInv, AdminTypes, AdminTypeOK
<1>3. ChangesFit'
    BY <1>1 DEF AdminIInv, ChangesFit
<1>4. OwingIs'
    BY <1>1 DEF AdminIInv, OwingIs
<1>5. HeldIsCurrent'
    BY <1>1 DEF AdminIInv, HeldIsCurrent
<1>6. LogTellsLast'
    <2> SUFFICES ASSUME NEW r \in Columns \ muddled, ~(owing[r] = {} /\ logged[r] = column[r])
                 PROVE  \E g \in Administrators :
                            owing[r] = {g} /\ office'[g].row = r /\ office'[g].value = column[r]
        BY DEF LogTellsLast
    <2>1. PICK g \in Administrators : owing[r] = {g} /\ office[g].row = r /\ office[g].value = column[r]
        BY DEF AdminIInv, LogTellsLast
    <2>2. g # h
        BY <2>1 DEF AdminIInv, OwingIs
    <2> QED BY <1>1, <2>1, <2>2
<1>7. ReadWasInForce' /\ FeeWasInForce'
    BY DEF AdminIInv, ReadWasInForce, FeeWasInForce
<1> QED
    BY <1>2, <1>3, <1>4, <1>5, <1>6, <1>7 DEF AdminIInv

\* updateGlobal starts.
LEMMA BeginGlobalKeeps ==
    ASSUME AdminIInv, NEW h \in Administrators, NEW b \in TypedBps, BeginGlobal(h, b)
    PROVE  AdminIInv'
<1>1. PICK row : row = [NoChange EXCEPT !.pc = "global", !.patch.bps = b]
    OBVIOUS
<1>2. /\ row \in OfficeRows /\ row.pc = "global" /\ row.patch.bps = b
    BY <1>1, SpecialsAre DEF NoChange, NoPatch, OfficeRows, Patches
<1>3. /\ office' = [office EXCEPT ![h] = row] /\ office[h].pc = "idle"
      /\ UNCHANGED <<settings, column, logged, owing, muddled, resolver>>
    BY <1>1 DEF BeginGlobal
<1> QED
    BY <1>2, <1>3, ChangeMoves

\* updateGlobal reads the document again.
LEMMA ReadSettingsKeeps ==
    ASSUME AdminIInv, NEW h \in Administrators, ReadSettings(h)
    PROVE  AdminIInv'
<1>1. PICK row : row = [office[h] EXCEPT !.pc = "writeGlobal", !.held = settings]
    OBVIOUS
<1>2. office[h] \in OfficeRows /\ settings \in Documents /\ office[h].pc = "global"
    BY DEF AdminIInv, AdminTypes, ReadSettings
<1>3. /\ row \in OfficeRows /\ row.pc = "writeGlobal" /\ row.patch = office[h].patch /\ row.held = settings
    BY <1>1, <1>2 DEF OfficeRows
<1>4. row.patch.bps \in TypedBps
    BY <1>2, <1>3 DEF AdminIInv, ChangesFit
<1>5. /\ office' = [office EXCEPT ![h] = row]
      /\ UNCHANGED <<settings, column, logged, owing, muddled, resolver>>
    <2>1. office' = [office EXCEPT ![h].pc = "writeGlobal", ![h].held = settings]
        BY DEF ReadSettings
    <2>2. PICK mid : mid = [office EXCEPT ![h] = [@ EXCEPT !.pc = "writeGlobal"]]
        OBVIOUS
    <2>3. office' = [mid EXCEPT ![h] = [@ EXCEPT !.held = settings]]
        BY <2>1, <2>2
    <2>4. /\ DOMAIN mid = Administrators /\ mid[h] = [office[h] EXCEPT !.pc = "writeGlobal"]
          /\ \A g \in Administrators : g # h => mid[g] = office[g]
        BY <2>2 DEF AdminIInv, AdminTypes
    <2>5. [mid[h] EXCEPT !.held = settings] = row
        BY <1>1, <1>2, <2>4 DEF OfficeRows
    <2>6. office' = [office EXCEPT ![h] = row]
        BY <2>3, <2>4, <2>5 DEF AdminIInv, AdminTypes
    <2> QED BY <2>6 DEF ReadSettings
<1> QED
    BY <1>2, <1>3, <1>4, <1>5, ChangeMoves

\* updateSettings reads the document.
LEMMA BeginSettingsKeeps ==
    ASSUME AdminIInv, NEW h \in Administrators, NEW patch \in TypedPatches, BeginSettings(h, patch)
    PROVE  AdminIInv'
<1>1. PICK row : row = [NoChange EXCEPT !.pc = "writeSettings", !.patch = patch, !.held = settings]
    OBVIOUS
<1>2. patch \in Patches /\ settings \in Documents
    BY AdminAssumption DEF AdminIInv, AdminTypes
<1>3. row \in OfficeRows /\ row.pc = "writeSettings" /\ row.held = settings
    BY <1>1, <1>2, RestingIs DEF NoChange, OfficeRows
<1>4. /\ office' = [office EXCEPT ![h] = row] /\ office[h].pc = "idle"
      /\ UNCHANGED <<settings, column, logged, owing, muddled, resolver>>
    BY <1>1 DEF BeginSettings
<1> QED
    BY <1>3, <1>4, ChangeMoves

\* A request is about to write a column.
LEMMA BeginColumnKeeps ==
    ASSUME AdminIInv, NEW h \in Administrators, NEW r \in Columns, NEW v \in ColumnValues(r),
           BeginColumn(h, r, v)
    PROVE  AdminIInv'
<1>1. PICK row : row = [NoChange EXCEPT !.pc = "write", !.row = r, !.value = v]
    OBVIOUS
<1>2. v \in AnyValue
    BY SpecialsAre
<1>3. row \in OfficeRows /\ row.pc = "write" /\ row.row = r /\ row.value = v
    BY <1>1, <1>2, RestingIs DEF NoChange, OfficeRows
<1>4. /\ office' = [office EXCEPT ![h] = row] /\ office[h].pc = "idle"
      /\ UNCHANGED <<settings, column, logged, owing, muddled, resolver>>
    BY <1>1 DEF BeginColumn
<1> QED
    BY <1>3, <1>4, ChangeMoves

-----------------------------------------------------------------------------
(* The steps that write.                                                   *)

\* The checkouts that are at work, when the fee of their clubs becomes "fee".
LEMMA WitnessedIs ==
    ASSUME AdminTypes, ReadWasInForce, NEW fee \in [FeeClubs -> TypedBps \cup {Unset}]
    PROVE  /\ Witnessed(fee) \in [Resolvers -> ResolverRows]
           /\ \A q \in Resolvers :
                  /\ resolver[q].pc # "global" => Witnessed(fee)[q] = resolver[q]
                  /\ resolver[q].pc = "global" =>
                         /\ Witnessed(fee)[q].pc = "global"
                         /\ Witnessed(fee)[q].club = resolver[q].club
                         /\ Witnessed(fee)[q].override = resolver[q].override
                         /\ Witnessed(fee)[q].overridden = resolver[q].overridden
                         /\ Witnessed(fee)[q].inForce = resolver[q].inForce \cup {fee[resolver[q].club]}
<1>1. ASSUME NEW q \in Resolvers, resolver[q].pc = "global"
      PROVE  LET row == [resolver[q] EXCEPT !.inForce = @ \cup {fee[resolver[q].club]}] IN
             /\ row \in ResolverRows
             /\ row.pc = "global" /\ row.club = resolver[q].club /\ row.override = resolver[q].override
             /\ row.overridden = resolver[q].overridden
             /\ row.inForce = resolver[q].inForce \cup {fee[resolver[q].club]}
    <2>1. resolver[q] \in ResolverRows /\ fee[resolver[q].club] \in TypedBps \cup {Unset}
        BY <1>1 DEF AdminTypes, ReadWasInForce
    <2> QED BY <1>1, <2>1 DEF ResolverRows
<1>2. \A q \in Resolvers : resolver[q] \in ResolverRows
    BY DEF AdminTypes
<1> QED
    BY <1>1, <1>2 DEF Witnessed

\* What is written to the document fits it.
LEMMA DocumentIs ==
    ASSUME AdminIInv, NEW h \in Administrators, office[h].pc \in {"writeGlobal", "writeSettings"}
    PROVE  Document(office[h]) \in Documents
<1>1. office[h] \in OfficeRows
    BY DEF AdminIInv, AdminTypes
<1>2. office[h].held \in Documents /\ office[h].patch \in Patches
    BY <1>1 DEF OfficeRows
<1>3. CASE office[h].pc = "writeGlobal"
    <2>1. office[h].patch.bps \in TypedBps
        BY <1>3 DEF AdminIInv, ChangesFit
    <2> QED BY <1>2, <1>3, <2>1 DEF Document, WithFee, Documents
<1>4. CASE office[h].pc = "writeSettings"
    BY <1>2, <1>4, SpecialsAre DEF Document, Merged, Documents, Patches
<1> QED
    BY <1>3, <1>4

\* The document is written.
LEMMA WriteSettingsKeeps ==
    ASSUME AdminIInv, NEW h \in Administrators, WriteSettings(h)
    PROVE  AdminIInv'
<1> DEFINE fee == [c \in FeeClubs |-> IF column[c] # Unset THEN column[c] ELSE GlobalBps(settings')]
           missed(g) == {k \in SettingKeys : office[g].pc \in {"writeGlobal", "writeSettings"}
                                             /\ settings'[k] # settings[k]}
           row(g) == [office[g] EXCEPT !.changed = @ \cup missed(g)]
<1>1. /\ settings' \in Documents /\ UNCHANGED <<column, logged, owing, muddled>>
      /\ resolver' = Witnessed(fee)
    BY DocumentIs DEF WriteSettings
<1>2. office' = [g \in Administrators |-> IF g = h THEN NoChange ELSE row(g)]
    BY DEF WriteSettings
<1>3. ASSUME NEW g \in Administrators
      PROVE  /\ row(g) \in OfficeRows /\ row(g).pc = office[g].pc /\ row(g).row = office[g].row
             /\ row(g).value = office[g].value /\ row(g).held = office[g].held
             /\ row(g).patch = office[g].patch /\ row(g).changed = office[g].changed \cup missed(g)
    <2>1. office[g] \in OfficeRows /\ missed(g) \subseteq SettingKeys
        BY DEF AdminIInv, AdminTypes
    <2> HIDE DEF missed
    <2> QED BY <2>1 DEF OfficeRows
<1>4. /\ office' \in [Administrators -> OfficeRows]
      /\ office'[h] = NoChange
      /\ \A g \in Administrators : g # h => office'[g] = row(g)
    <2> HIDE DEF row
    <2> QED BY <1>2, <1>3, RestingIs
<1>5. fee \in [FeeClubs -> TypedBps \cup {Unset}]
    <2>1. \A c \in FeeClubs : column[c] \in TypedBps \cup {Unset}
        BY ClubFeeIs, SpecialsAre DEF AdminIInv
    <2>2. GlobalBps(settings') \in TypedBps \cup {Unset}
        BY <1>1, GlobalBpsIs
    <2> QED BY <2>1, <2>2
<1>6. /\ resolver' \in [Resolvers -> ResolverRows]
      /\ \A q \in Resolvers :
             /\ resolver[q].pc # "global" => resolver'[q] = resolver[q]
             /\ resolver[q].pc = "global" =>
                    /\ resolver'[q].pc = "global" /\ resolver'[q].club = resolver[q].club
                    /\ resolver'[q].override = resolver[q].override
                    /\ resolver'[q].overridden = resolver[q].overridden
                    /\ resolver'[q].inForce = resolver[q].inForce \cup {fee[resolver[q].club]}
    <2> HIDE DEF fee
    <2> QED BY <1>1, <1>5, WitnessedIs DEF AdminIInv
<1>7. AdminTypes' /\ AdminTypeOK'
    BY <1>1, <1>4, <1>6 DEF AdminIInv, AdminTypes, AdminTypeOK
<1>8. ChangesFit' /\ OwingIs' /\ LogTellsLast'
    <2>1. \A g \in Administrators : g # h =>
              /\ office'[g].pc = office[g].pc /\ office'[g].row = office[g].row
              /\ office'[g].value = office[g].value /\ office'[g].patch = office[g].patch
        <3> HIDE DEF row
        <3> QED BY <1>3, <1>4
    <2>2. office'[h].pc = "idle" /\ office[h].pc \in {"writeGlobal", "writeSettings"}
        BY <1>4, RestingIs DEF WriteSettings
    <2>3. ChangesFit'
        BY <2>1, <2>2 DEF AdminIInv, ChangesFit
    <2>4. OwingIs'
        BY <1>1, <2>1, <2>2 DEF AdminIInv, OwingIs
    <2>5. LogTellsLast'
        <3> SUFFICES ASSUME NEW r \in Columns \ muddled, ~(owing[r] = {} /\ logged[r] = column[r])
                     PROVE  \E g \in Administrators :
                                owing[r] = {g} /\ office'[g].row = r /\ office'[g].value = column[r]
            BY <1>1 DEF LogTellsLast
        <3>1. PICK g \in Administrators : owing[r] = {g} /\ office[g].row = r /\ office[g].value = column[r]
            BY DEF AdminIInv, LogTellsLast
        <3>2. g # h
            BY <2>2, <3>1 DEF AdminIInv, OwingIs
        <3> QED BY <2>1, <3>1, <3>2
    <2> QED BY <2>3, <2>4, <2>5
<1>9. HeldIsCurrent'
    <2> SUFFICES ASSUME NEW g \in Administrators, office'[g].pc \in {"writeGlobal", "writeSettings"},
                        NEW k \in SettingKeys \ office'[g].changed
                 PROVE  office'[g].held[k] = settings'[k]
        BY DEF HeldIsCurrent
    <2>1. g # h
        BY <1>4, RestingIs
    <2>2. /\ office[g].pc \in {"writeGlobal", "writeSettings"} /\ office'[g].held = office[g].held
          /\ k \notin office[g].changed /\ k \notin missed(g)
        <3> HIDE DEF row, missed
        <3> QED BY <1>3, <1>4, <2>1
    <2>3. settings'[k] = settings[k]
        BY <2>2
    <2> QED BY <2>2, <2>3 DEF AdminIInv, HeldIsCurrent
<1>10. ReadWasInForce'
    <2> SUFFICES ASSUME NEW q \in Resolvers, resolver'[q].pc = "global"
                 PROVE  /\ resolver'[q].club \in FeeClubs
                        /\ resolver'[q].override # Unset => resolver'[q].override \in resolver'[q].inForce
                        /\ resolver'[q].override = Unset =>
                               \/ resolver'[q].overridden
                               \/ /\ column[resolver'[q].club] = Unset
                                  /\ GlobalBps(settings') \in resolver'[q].inForce
        BY <1>1 DEF ReadWasInForce, GlobalBps
    <2>1. resolver[q].pc = "global"
        BY <1>6
    <2>2. /\ resolver[q].club \in FeeClubs
          /\ resolver[q].override # Unset => resolver[q].override \in resolver[q].inForce
          /\ resolver[q].override = Unset => resolver[q].overridden \/ column[resolver[q].club] = Unset
        BY <2>1 DEF AdminIInv, ReadWasInForce
    <2>3. column[resolver[q].club] = Unset => fee[resolver[q].club] = GlobalBps(settings')
        BY <2>2
    <2> HIDE DEF fee
    <2> QED BY <1>6, <2>1, <2>2, <2>3
<1>11. FeeWasInForce'
    <2>1. ASSUME NEW q \in Resolvers, resolver'[q].pc = "resolved" PROVE resolver'[q] = resolver[q]
        BY <1>6, <2>1
    <2> QED BY <2>1 DEF AdminIInv, FeeWasInForce
<1> QED
    BY <1>7, <1>8, <1>9, <1>10, <1>11 DEF AdminIInv

\* A column is written.
LEMMA WriteColumnKeeps ==
    ASSUME AdminIInv, NEW h \in Administrators, WriteColumn(h)
    PROVE  AdminIInv'
<1>0. PICK r \in Columns : r = office[h].row
    BY DEF WriteColumn, AdminIInv, ChangesFit
<1>1. PICK v \in ColumnValues(r) : r = office[h].row /\ v = office[h].value
    BY <1>0 DEF WriteColumn, AdminIInv, ChangesFit
<1>2. /\ office[h].pc = "write"
      /\ column' = [column EXCEPT ![r] = v]
      /\ office' = [office EXCEPT ![h] = [@ EXCEPT !.pc = "record"]]
      /\ owing' = [owing EXCEPT ![r] = @ \cup {h}]
      /\ muddled' = IF owing[r] = {} THEN muddled \ {r} ELSE muddled \cup {r}
      /\ UNCHANGED <<settings, logged>>
    BY <1>1 DEF WriteColumn
<1> DEFINE fee == [c \in FeeClubs |-> IF column'[c] # Unset THEN column'[c] ELSE GlobalBps(settings)]
           given(q) == \/ Witnessed(fee)[q].overridden
                       \/ /\ Witnessed(fee)[q].pc = "global" /\ Witnessed(fee)[q].club = r
                          /\ Witnessed(fee)[q].override = Unset /\ column'[r] # Unset
<1>3. resolver' = [q \in Resolvers |-> [Witnessed(fee)[q] EXCEPT !.overridden = given(q)]]
    BY <1>1 DEF WriteColumn
<1>4. v \in AnyValue /\ column' \in [Columns -> AnyValue]
      /\ \A x \in Columns : column'[x] = IF x = r THEN v ELSE column[x]
    BY <1>2, SpecialsAre DEF AdminIInv, AdminTypes
<1>5. \A x \in Columns : column'[x] \in ColumnValues(x)
    BY <1>4 DEF AdminIInv, AdminTypeOK
<1>6. fee \in [FeeClubs -> TypedBps \cup {Unset}]
    <2>1. \A c \in FeeClubs : column'[c] \in TypedBps \cup {Unset}
        BY <1>5, SpecialsAre
    <2>2. GlobalBps(settings) \in TypedBps \cup {Unset}
        BY GlobalBpsIs DEF AdminIInv, AdminTypes
    <2> QED BY <2>1, <2>2
<1>7. /\ Witnessed(fee) \in [Resolvers -> ResolverRows]
      /\ \A q \in Resolvers :
             /\ resolver[q].pc # "global" => Witnessed(fee)[q] = resolver[q]
             /\ resolver[q].pc = "global" =>
                    /\ Witnessed(fee)[q].pc = "global" /\ Witnessed(fee)[q].club = resolver[q].club
                    /\ Witnessed(fee)[q].override = resolver[q].override
                    /\ Witnessed(fee)[q].overridden = resolver[q].overridden
                    /\ Witnessed(fee)[q].inForce = resolver[q].inForce \cup {fee[resolver[q].club]}
    <2> HIDE DEF fee
    <2> QED BY <1>6, WitnessedIs DEF AdminIInv
<1>8. ASSUME NEW q \in Resolvers
      PROVE  /\ resolver'[q] \in ResolverRows /\ given(q) \in BOOLEAN
             /\ resolver'[q].pc = Witnessed(fee)[q].pc /\ resolver'[q].club = Witnessed(fee)[q].club
             /\ resolver'[q].override = Witnessed(fee)[q].override
             /\ resolver'[q].bps = Witnessed(fee)[q].bps
             /\ resolver'[q].inForce = Witnessed(fee)[q].inForce
             /\ resolver'[q].overridden = given(q)
    <2>1. PICK saw \in ResolverRows : saw = Witnessed(fee)[q]
        BY <1>7
    <2>2. saw.overridden \in BOOLEAN
        BY DEF ResolverRows
    <2>3. given(q) \in BOOLEAN
        BY <2>1, <2>2, Zenon
    <2>4. resolver'[q] = [saw EXCEPT !.overridden = given(q)]
        BY <1>3, <2>1
    <2> HIDE DEF fee, given
    <2> QED BY <2>1, <2>3, <2>4 DEF ResolverRows
<1>9. resolver' \in [Resolvers -> ResolverRows]
    <2> HIDE DEF fee, given
    <2> QED BY <1>3, <1>8
<1>10. office' \in [Administrators -> OfficeRows]
       /\ office'[h].pc = "record" /\ office'[h].row = r /\ office'[h].value = v
       /\ \A g \in Administrators : g # h => office'[g] = office[g]
    <2>1. PICK change \in OfficeRows : change = [office[h] EXCEPT !.pc = "record"]
        BY DEF AdminIInv, AdminTypes, OfficeRows
    <2>2. change.pc = "record" /\ change.row = r /\ change.value = v
        BY <1>1, <2>1 DEF AdminIInv, AdminTypes, OfficeRows
    <2> QED BY <1>2, <2>1, <2>2 DEF AdminIInv, AdminTypes
<1>11. owing' \in [Columns -> SUBSET Administrators]
       /\ \A x \in Columns : owing'[x] = IF x = r THEN owing[x] \cup {h} ELSE owing[x]
    BY <1>2 DEF AdminIInv, AdminTypes
<1>12. AdminTypes' /\ AdminTypeOK'
    BY <1>2, <1>4, <1>5, <1>9, <1>10, <1>11 DEF AdminIInv, AdminTypes, AdminTypeOK
<1>13. ChangesFit'
    <2>1. ColumnValues(office'[h].row) = ColumnValues(r)
        BY <1>10
    <2> QED BY <1>10, <2>1 DEF AdminIInv, ChangesFit
<1>14. OwingIs'
    BY <1>2, <1>10, <1>11 DEF AdminIInv, OwingIs
<1>15. LogTellsLast'
    <2> SUFFICES ASSUME NEW x \in Columns \ muddled', ~(owing'[x] = {} /\ logged[x] = column'[x])
                 PROVE  \E g \in Administrators :
                            owing'[x] = {g} /\ office'[g].row = x /\ office'[g].value = column'[x]
        BY <1>2 DEF LogTellsLast
    <2>1. CASE x = r
        <3>1. owing[r] = {}
            BY <1>2, <2>1
        <3> QED BY <1>4, <1>10, <1>11, <2>1, <3>1
    <2>2. CASE x # r
        <3>1. /\ x \notin muddled /\ owing'[x] = owing[x] /\ column'[x] = column[x]
            BY <1>2, <1>4, <1>11, <2>2
        <3>2. PICK g \in Administrators : owing[x] = {g} /\ office[g].row = x /\ office[g].value = column[x]
            BY <3>1 DEF AdminIInv, LogTellsLast
        <3>3. g # h
            BY <1>2, <3>2 DEF AdminIInv, OwingIs
        <3> QED BY <1>10, <3>1, <3>2, <3>3
    <2> QED BY <2>1, <2>2
<1>16. HeldIsCurrent'
    BY <1>2, <1>10 DEF AdminIInv, HeldIsCurrent
<1>17. ReadWasInForce'
    <2> SUFFICES ASSUME NEW q \in Resolvers, resolver'[q].pc = "global"
                 PROVE  /\ resolver'[q].club \in FeeClubs
                        /\ resolver'[q].override # Unset => resolver'[q].override \in resolver'[q].inForce
                        /\ resolver'[q].override = Unset =>
                               \/ resolver'[q].overridden
                               \/ /\ column'[resolver'[q].club] = Unset
                                  /\ GlobalBps(settings) \in resolver'[q].inForce
        BY <1>2 DEF ReadWasInForce, GlobalBps
    <2>1. resolver[q].pc = "global"
        <3> HIDE DEF fee, given
        <3> QED BY <1>7, <1>8
    <2>2. PICK c \in FeeClubs : c = resolver[q].club
        BY <2>1 DEF AdminIInv, ReadWasInForce
    <2>3. /\ resolver[q].override # Unset => resolver[q].override \in resolver[q].inForce
          /\ resolver[q].override = Unset => resolver[q].overridden \/ column[c] = Unset
        BY <2>1, <2>2 DEF AdminIInv, ReadWasInForce
    <2>4. /\ resolver'[q].club = c /\ resolver'[q].override = resolver[q].override
          /\ resolver'[q].inForce = resolver[q].inForce \cup {fee[c]}
        <3> HIDE DEF fee, given
        <3> QED BY <1>7, <1>8, <2>1, <2>2
    <2>5. resolver'[q].overridden = (resolver[q].overridden \/ (c = r /\ resolver[q].override = Unset
                                                                /\ column'[r] # Unset))
        <3>1. given(q) <=> (resolver[q].overridden \/ (c = r /\ resolver[q].override = Unset
                                                                /\ column'[r] # Unset))
            <4> HIDE DEF fee
            <4> QED BY <1>7, <2>1, <2>2
        <3>2. given(q) \in BOOLEAN /\ resolver'[q].overridden = given(q)
            <4> HIDE DEF fee, given
            <4> QED BY <1>8
        <3> HIDE DEF given
        <3> QED BY <3>1, <3>2, Zenon
    <2>6. c \in Columns /\ (c # r => column'[c] = column[c])
        BY <1>4, SpecialsAre
    <2>7. column'[c] = Unset => fee[c] = GlobalBps(settings)
        OBVIOUS
    <2>8. resolver[q].override = Unset => resolver'[q].overridden \/ column'[c] = Unset
        <3> HIDE DEF fee, given
        <3> QED BY <2>3, <2>5, <2>6, Zenon
    <2> HIDE DEF fee, given
    <2> QED BY <2>3, <2>4, <2>7, <2>8
<1>18. FeeWasInForce'
    <2> SUFFICES ASSUME NEW q \in Resolvers, resolver'[q].pc = "resolved"
                 PROVE  /\ resolver'[q].bps \in Fees
                        /\ FeeCents(GrossCents, resolver'[q].bps) \in 0..GrossCents
                        /\ resolver'[q].bps \in resolver'[q].inForce \/ resolver'[q].overridden
        BY DEF FeeWasInForce
    <2>1. resolver[q].pc = "resolved" /\ Witnessed(fee)[q] = resolver[q]
        <3> HIDE DEF fee, given
        <3> QED BY <1>7, <1>8
    <2>2. resolver'[q].bps = resolver[q].bps /\ resolver'[q].inForce = resolver[q].inForce
        <3> HIDE DEF fee, given
        <3> QED BY <1>8, <2>1
    <2>3. resolver[q].overridden => resolver'[q].overridden
        <3>1. resolver[q].overridden => given(q)
            BY <2>1, Zenon
        <3>2. resolver'[q].overridden = given(q)
            <4> HIDE DEF fee, given
            <4> QED BY <1>8
        <3> HIDE DEF given
        <3> QED BY <3>1, <3>2, Zenon
    <2>4. /\ resolver[q].bps \in Fees
          /\ resolver[q].bps \in resolver[q].inForce \/ resolver[q].overridden
        BY <2>1 DEF AdminIInv, FeeWasInForce
    <2>5. FeeCents(GrossCents, resolver[q].bps) \in 0..GrossCents
        BY <2>4, FeeFits
    <2> HIDE DEF fee, given
    <2> QED BY <2>2, <2>3, <2>4, <2>5
<1> QED
    BY <1>12, <1>13, <1>14, <1>15, <1>16, <1>17, <1>18 DEF AdminIInv
\* The entry of a column is recorded.
LEMMA RecordColumnKeeps ==
    ASSUME AdminIInv, NEW h \in Administrators, RecordColumn(h)
    PROVE  AdminIInv'
<1>0. PICK r \in Columns : r = office[h].row
    BY DEF RecordColumn, AdminIInv, ChangesFit
<1>1. PICK v \in ColumnValues(r) : r = office[h].row /\ v = office[h].value
    BY <1>0 DEF RecordColumn, AdminIInv, ChangesFit
<1>2. /\ office[h].pc = "record"
      /\ logged' = [logged EXCEPT ![r] = v]
      /\ owing' = [owing EXCEPT ![r] = @ \ {h}]
      /\ office' = [office EXCEPT ![h] = NoChange]
      /\ UNCHANGED <<settings, column, muddled, resolver>>
    BY <1>1 DEF RecordColumn
<1>3. /\ office' \in [Administrators -> OfficeRows] /\ office'[h].pc = "idle"
      /\ \A g \in Administrators : g # h => office'[g] = office[g]
    BY <1>2, RestingIs DEF AdminIInv, AdminTypes
<1>4. /\ owing' \in [Columns -> SUBSET Administrators]
      /\ \A x \in Columns : owing'[x] = IF x = r THEN owing[x] \ {h} ELSE owing[x]
    BY <1>2 DEF AdminIInv, AdminTypes
<1>5. /\ v \in AnyValue /\ logged' \in [Columns -> AnyValue]
      /\ \A x \in Columns : logged'[x] = IF x = r THEN v ELSE logged[x]
    BY <1>2, SpecialsAre DEF AdminIInv, AdminTypes
<1>6. AdminTypes' /\ AdminTypeOK'
    BY <1>2, <1>3, <1>4, <1>5 DEF AdminIInv, AdminTypes, AdminTypeOK
<1>7. ChangesFit' /\ HeldIsCurrent'
    BY <1>2, <1>3 DEF AdminIInv, ChangesFit, HeldIsCurrent
<1>8. OwingIs'
    BY <1>1, <1>2, <1>3, <1>4 DEF AdminIInv, OwingIs
<1>9. LogTellsLast'
    <2> SUFFICES ASSUME NEW x \in Columns \ muddled, ~(owing'[x] = {} /\ logged'[x] = column[x])
                 PROVE  \E g \in Administrators :
                            owing'[x] = {g} /\ office'[g].row = x /\ office'[g].value = column[x]
        BY <1>2 DEF LogTellsLast
    <2>1. x # r
        <3> SUFFICES ASSUME x = r PROVE FALSE
            OBVIOUS
        <3>1. h \in owing[r]
            BY <1>1, <1>2 DEF AdminIInv, OwingIs
        <3>2. owing[r] = {h} /\ v = column[r]
            BY <1>1, <3>1 DEF AdminIInv, LogTellsLast
        <3> QED BY <1>4, <1>5, <3>2
    <2>2. PICK g \in Administrators : owing[x] = {g} /\ office[g].row = x /\ office[g].value = column[x]
        BY <1>4, <1>5, <2>1 DEF AdminIInv, LogTellsLast
    <2>3. g # h
        BY <1>1, <2>1, <2>2
    <2> QED BY <1>3, <1>4, <2>1, <2>2, <2>3
<1>10. ReadWasInForce' /\ FeeWasInForce'
    BY <1>2 DEF AdminIInv, ReadWasInForce, FeeWasInForce
<1> QED
    BY <1>6, <1>7, <1>8, <1>9, <1>10 DEF AdminIInv

\* A request dies.
LEMMA AdminDiesKeeps ==
    ASSUME AdminIInv, NEW h \in Administrators, AdminDies(h)
    PROVE  AdminIInv'
<1>1. /\ office[h].pc # "idle"
      /\ owing' = [x \in Columns |-> owing[x] \ {h}]
      /\ muddled' = IF office[h].pc = "record" THEN muddled \cup {office[h].row} ELSE muddled
      /\ office' = [office EXCEPT ![h] = NoChange]
      /\ UNCHANGED <<settings, column, logged, resolver>>
    BY DEF AdminDies
<1>2. /\ office' \in [Administrators -> OfficeRows] /\ office'[h].pc = "idle"
      /\ \A g \in Administrators : g # h => office'[g] = office[g]
    BY <1>1, RestingIs DEF AdminIInv, AdminTypes
<1>3. AdminTypes' /\ AdminTypeOK'
    BY <1>1, <1>2 DEF AdminIInv, AdminTypes, AdminTypeOK
<1>4. ChangesFit' /\ HeldIsCurrent'
    BY <1>1, <1>2 DEF AdminIInv, ChangesFit, HeldIsCurrent
<1>5. OwingIs'
    BY <1>1, <1>2 DEF AdminIInv, OwingIs
<1>6. LogTellsLast'
    <2> SUFFICES ASSUME NEW x \in Columns \ muddled', ~(owing'[x] = {} /\ logged[x] = column[x])
                 PROVE  \E g \in Administrators :
                            owing'[x] = {g} /\ office'[g].row = x /\ office'[g].value = column[x]
        BY <1>1 DEF LogTellsLast
    <2>1. x \notin muddled /\ ~(office[h].pc = "record" /\ office[h].row = x)
        BY <1>1
    <2>2. h \notin owing[x]
        BY <2>1 DEF AdminIInv, OwingIs
    <2>3. owing'[x] = owing[x]
        BY <1>1, <2>2 DEF AdminIInv, AdminTypes
    <2>4. PICK g \in Administrators : owing[x] = {g} /\ office[g].row = x /\ office[g].value = column[x]
        BY <2>1, <2>3 DEF AdminIInv, LogTellsLast
    <2>5. g # h
        BY <2>2, <2>4
    <2> QED BY <1>2, <2>3, <2>4, <2>5
<1>7. ReadWasInForce' /\ FeeWasInForce'
    BY <1>1 DEF AdminIInv, ReadWasInForce, FeeWasInForce
<1> QED
    BY <1>3, <1>4, <1>5, <1>6, <1>7 DEF AdminIInv

-----------------------------------------------------------------------------
(* The steps of a checkout.                                                *)

\* A checkout that rests, reads or is resolved.
LEMMA ResolverMoves ==
    ASSUME AdminIInv, NEW q \in Resolvers, NEW row \in ResolverRows,
           resolver' = [resolver EXCEPT ![q] = row],
           UNCHANGED <<settings, column, logged, office, owing, muddled>>,
           row.pc = "global" =>
               /\ row.club \in FeeClubs
               /\ row.override # Unset => row.override \in row.inForce
               /\ row.override = Unset =>
                      column[row.club] = Unset /\ GlobalBps(settings) \in row.inForce,
           row.pc = "resolved" => row.bps \in Fees /\ (row.bps \in row.inForce \/ row.overridden)
    PROVE  AdminIInv'
<1>1. /\ resolver' \in [Resolvers -> ResolverRows]
      /\ \A p \in Resolvers : resolver'[p] = IF p = q THEN row ELSE resolver[p]
    BY DEF AdminIInv, AdminTypes
<1>2. AdminTypes' /\ AdminTypeOK' /\ ChangesFit' /\ OwingIs' /\ HeldIsCurrent' /\ LogTellsLast'
    BY <1>1 DEF AdminIInv, AdminTypes, AdminTypeOK, ChangesFit, OwingIs, HeldIsCurrent, LogTellsLast
<1>3. ReadWasInForce'
    BY <1>1 DEF AdminIInv, ReadWasInForce, GlobalBps
<1>4. row.pc = "resolved" => FeeCents(GrossCents, row.bps) \in 0..GrossCents
    BY FeeFits
<1>5. FeeWasInForce'
    BY <1>1, <1>4 DEF AdminIInv, FeeWasInForce
<1> QED
    BY <1>2, <1>3, <1>5 DEF AdminIInv

\* The fee of the club is read.
LEMMA BeginResolveKeeps ==
    ASSUME AdminIInv, NEW q \in Resolvers, NEW c \in FeeClubs, BeginResolve(q, c)
    PROVE  AdminIInv'
<1>1. column[c] \in Fees \cup {Unset} /\ Effective(c) \in TypedBps \cup {Unset}
    BY ClubFeeIs DEF AdminIInv
<1>2. PICK fee \in TypedBps \cup {Unset} : fee = Effective(c)
    BY <1>1
<1>3. PICK row : row = [Resolves EXCEPT !.pc = "global", !.club = c, !.override = column[c], !.inForce = {fee}]
    OBVIOUS
<1>4. /\ row \in ResolverRows /\ row.pc = "global" /\ row.club = c /\ row.override = column[c]
      /\ row.inForce = {fee}
    BY <1>1, <1>3 DEF Resolves, ResolverRows
<1>5. /\ resolver' = [resolver EXCEPT ![q] = row]
      /\ UNCHANGED <<settings, column, logged, office, owing, muddled>>
    BY <1>2, <1>3 DEF BeginResolve
<1>6. /\ column[c] # Unset => fee = column[c]
      /\ column[c] = Unset => fee = GlobalBps(settings)
    BY <1>2 DEF Effective
<1> QED
    BY <1>4, <1>5, <1>6, ResolverMoves

\* The document is read, and the fee chosen.
LEMMA ResolveFeeKeeps ==
    ASSUME AdminIInv, NEW q \in Resolvers, ResolveFee(q)
    PROVE  AdminIInv'
<1>1. PICK fee : fee = Chosen(resolver[q].override, GlobalBps(settings))
    OBVIOUS
<1>2. resolver[q] \in ResolverRows /\ resolver[q].pc = "global" /\ settings \in Documents
    BY DEF AdminIInv, AdminTypes, ResolveFee
<1>3. UNCHANGED <<settings, column, logged, office, owing, muddled>>
    BY DEF ResolveFee
<1>4. CASE GlobalReads(settings) /\ fee # Unset
    <2>1. PICK origin \in {"GLOBAL", "BUSINESS_OVERRIDE"} :
              origin = IF resolver[q].override = Unset THEN "GLOBAL" ELSE "BUSINESS_OVERRIDE"
        OBVIOUS
    <2>2. PICK row : row = [resolver[q] EXCEPT !.pc = "resolved", !.bps = fee, !.source = origin]
        OBVIOUS
    <2>3. resolver' = [resolver EXCEPT ![q] = row]
        BY <1>1, <1>4, <2>1, <2>2 DEF ResolveFee
    <2>4. fee \in Fees /\ (fee \in resolver[q].inForce \/ resolver[q].overridden)
        <3>1. CASE resolver[q].override # Unset
            <4>1. fee = resolver[q].override
                BY <1>1, <3>1 DEF Chosen
            <4> QED BY <1>2, <3>1, <4>1 DEF ResolverRows, AdminIInv, ReadWasInForce
        <3>2. CASE resolver[q].override = Unset
            <4>1. fee = GlobalBps(settings)
                BY <1>1, <3>2 DEF Chosen
            <4>2. fee \in Fees
                BY <1>2, <1>4, <4>1, GlobalBpsIs
            <4> QED BY <1>2, <3>2, <4>1, <4>2 DEF AdminIInv, ReadWasInForce
        <3> QED BY <3>1, <3>2
    <2>5. /\ row \in ResolverRows /\ row.pc = "resolved" /\ row.bps = fee
          /\ row.inForce = resolver[q].inForce /\ row.overridden = resolver[q].overridden
        BY <1>2, <2>1, <2>2, <2>4 DEF ResolverRows
    <2>6. row.pc = "resolved" => row.bps \in Fees /\ (row.bps \in row.inForce \/ row.overridden)
        BY <2>4, <2>5, Zenon
    <2> QED BY <1>3, <2>3, <2>5, <2>6, ResolverMoves
<1>5. CASE ~(GlobalReads(settings) /\ fee # Unset)
    <2>1. resolver' = [resolver EXCEPT ![q] = Resolves]
        BY <1>1, <1>5 DEF ResolveFee
    <2> QED BY <1>3, <2>1, RestingIs, ResolverMoves
<1> QED
    BY <1>4, <1>5

\* The request is served.
LEMMA EndResolveKeeps ==
    ASSUME AdminIInv, NEW q \in Resolvers, EndResolve(q)
    PROVE  AdminIInv'
BY RestingIs, ResolverMoves DEF EndResolve

-----------------------------------------------------------------------------
(* What is proved.                                                         *)

\* Nothing was set.
LEMMA InitAdmin == AdminInit => AdminIInv
<1> SUFFICES ASSUME AdminInit PROVE AdminIInv
    OBVIOUS
<1>1. /\ settings = Empty /\ column \in [Columns -> AnyValue] /\ logged = column
      /\ \A r \in Columns : column[r] \in ColumnValues(r)
      /\ \A h \in Administrators : office[h] = NoChange
      /\ \A q \in Resolvers : resolver[q] = Resolves
      /\ \A r \in Columns : owing[r] = {}
    BY DEF AdminInit, AnyValue
<1>2. AdminTypes /\ AdminTypeOK
    BY <1>1, SpecialsAre, RestingIs DEF AdminInit, AdminTypes, AdminTypeOK
<1>3. ChangesFit /\ OwingIs /\ HeldIsCurrent
    BY <1>1, RestingIs DEF ChangesFit, OwingIs, HeldIsCurrent
<1>4. LogTellsLast
    BY <1>1 DEF LogTellsLast
<1>5. ReadWasInForce /\ FeeWasInForce
    BY <1>1, RestingIs DEF ReadWasInForce, FeeWasInForce
<1> QED
    BY <1>2, <1>3, <1>4, <1>5 DEF AdminIInv

\* Every step keeps the invariant.
LEMMA AdminStep == AdminIInv /\ [AdminNext]_adminVars => AdminIInv'
<1> SUFFICES ASSUME AdminIInv, [AdminNext]_adminVars PROVE AdminIInv'
    OBVIOUS
<1>1. CASE UNCHANGED adminVars
    BY <1>1 DEF adminVars, AdminIInv, AdminTypes, AdminTypeOK, ChangesFit, OwingIs, HeldIsCurrent,
                LogTellsLast, ReadWasInForce, FeeWasInForce
<1>2. CASE AdminNext
    <2>1. CASE \E h \in Administrators :
                   \/ \E b \in TypedBps : BeginGlobal(h, b)
                   \/ \E patch \in TypedPatches : BeginSettings(h, patch)
                   \/ ReadSettings(h) \/ WriteSettings(h)
                   \/ \E r \in Columns : \E v \in ColumnValues(r) : BeginColumn(h, r, v)
                   \/ WriteColumn(h) \/ RecordColumn(h) \/ AdminDies(h)
        BY <2>1, BeginGlobalKeeps, BeginSettingsKeeps, ReadSettingsKeeps, WriteSettingsKeeps,
           BeginColumnKeeps, WriteColumnKeeps, RecordColumnKeeps, AdminDiesKeeps
    <2>2. CASE \E q \in Resolvers :
                   \/ \E c \in FeeClubs : BeginResolve(q, c)
                   \/ ResolveFee(q) \/ EndResolve(q)
        BY <2>2, BeginResolveKeeps, ResolveFeeKeeps, EndResolveKeeps
    <2> QED BY <1>2, <2>1, <2>2 DEF AdminNext
<1> QED
    BY <1>1, <1>2

\* The invariant is stronger than what the run checks.
LEMMA AdminShown == AdminIInv => AdminInv
BY DEF AdminIInv, AdminInv

\* Nothing that others set is put back, the log tells what a column holds, and a
\* checkout pays a fee that was in force, unless what the properties name
\* happened (platform.service.ts, marketplace-fee.service.ts).
THEOREM AdminInvariance == AdminSpec => []AdminInv
<1> QED
    BY InitAdmin, AdminStep, AdminShown, PTL DEF AdminSpec

-----------------------------------------------------------------------------
(***************************************************************************)
(* The platform                                                            *)
(***************************************************************************)
\* Of the parts that share no table only the one that runs is asked of, and
\* the others rest: the invariant of the part is an invariant of the whole.
\* Sessions, one-time codes, leads and the markets of the launch keep what was
\* verified when requests overlap, are repeated or die (auth.service.ts,
\* prelaunch.service.ts).
THEOREM AccountsInvariance == PlatformSpec => []AccountsInv
<1> DEFINE I == /\ Runs("sessions") => SessionIInv
                /\ Runs("prelaunch") => PrelaunchIInv
                /\ Runs("launch") => LaunchIInv
<1>1. PlatformInit => I
    BY InitSession, InitPrelaunch, InitLaunch DEF PlatformInit
<1>2. I /\ [PlatformNext]_platformVars => I'
    <2> SUFFICES ASSUME I, [PlatformNext]_platformVars PROVE I'
        OBVIOUS
    <2>1. [SessionNext]_sessionVars /\ [PrelaunchNext]_prelaunchVars /\ [LaunchNext]_launchVars
          /\ UNCHANGED part
        BY DEF PlatformNext, OthersRest, platformVars
    <2>2. Runs("sessions") => SessionIInv'
        BY <2>1, SessionStep
    <2>3. Runs("prelaunch") => PrelaunchIInv'
        BY <2>1, PrelaunchStep
    <2>4. Runs("launch") => LaunchIInv'
        BY <2>1, LaunchStep
    <2> QED
        BY <2>1, <2>2, <2>3, <2>4 DEF Runs
<1>3. I => AccountsInv
    BY SessionShown, PrelaunchShown, LaunchShown DEF AccountsInv
<1> QED
    BY <1>1, <1>2, <1>3, PTL DEF PlatformSpec

\* On the platform too, who verified keeps the place in the list
\* (verifyOtp of prelaunch.service.ts).
THEOREM PlaceIsKeptOnPlatform == PlatformSpec => PlaceIsKept
<1> DEFINE I == Runs("prelaunch") => PrelaunchIInv
<1>1. PlatformInit => I
    BY InitPrelaunch DEF PlatformInit
<1>2. I /\ [PlatformNext]_platformVars => I'
    <2> SUFFICES ASSUME I, [PlatformNext]_platformVars PROVE I'
        OBVIOUS
    <2>1. [PrelaunchNext]_prelaunchVars /\ UNCHANGED part
        BY DEF PlatformNext, OthersRest, platformVars
    <2> QED
        BY <2>1, PrelaunchStep DEF Runs
<1>3. I /\ [PlatformNext]_platformVars =>
          [\A l \in Leads : IsVerified(lead[l]) /\ doubled' = {} => lead'[l].place = lead[l].place]_prelaunchVars
    <2> SUFFICES ASSUME I, [PlatformNext]_platformVars, ~UNCHANGED prelaunchVars PROVE PlaceStays
        BY DEF PlaceStays
    <2>1. [PrelaunchNext]_prelaunchVars /\ Runs("prelaunch")
        BY DEF PlatformNext, OthersRest, platformVars, Runs
    <2> QED
        BY <2>1, PlaceStep
<1> QED
    BY <1>1, <1>2, <1>3, PTL DEF PlatformSpec, PlaceIsKept

\* The office: the log of a club is sound and its changes are noticed, a shift
\* is open only for who may work, a user administers what was approved, a fee
\* that is charged was in force, and a badge counts what was not read
\* (audit.service.ts, club-workers.service.ts, business-access.service.ts,
\* platform.service.ts, notification.service.ts).
THEOREM OfficeInvariance == PlatformSpec => []OfficeInv
<1> DEFINE I == /\ Runs("audit") => AuditIInv
                /\ Runs("staff") => StaffIInv
                /\ Runs("access") => AccessIInv
                /\ Runs("admin") => AdminIInv
                /\ Runs("inbox") => InboxIInv
<1>1. PlatformInit => I
    BY InitAudit, InitStaff, InitAccess, InitAdmin, InitInbox DEF PlatformInit
<1>2. I /\ [PlatformNext]_platformVars => I'
    <2> SUFFICES ASSUME I, [PlatformNext]_platformVars PROVE I'
        OBVIOUS
    <2>1. /\ [AuditNext]_auditVars /\ [StaffNext]_staffVars /\ [AccessNext]_accessVars
          /\ [AdminNext]_adminVars /\ [InboxNext]_inboxListVars /\ UNCHANGED part
        BY DEF PlatformNext, OthersRest, platformVars
    <2>2. Runs("audit") => AuditIInv'
        BY <2>1, AuditStep
    <2>3. Runs("staff") => StaffIInv'
        BY <2>1, StaffStep
    <2>4. Runs("access") => AccessIInv'
        BY <2>1, AccessStep
    <2>5. Runs("admin") => AdminIInv'
        BY <2>1, AdminStep
    <2>6. Runs("inbox") => InboxIInv'
        BY <2>1, InboxStep
    <2> QED
        BY <2>1, <2>2, <2>3, <2>4, <2>5, <2>6 DEF Runs
<1>3. I => OfficeInv
    BY AuditShown, StaffShown, AccessShown, AdminShown, InboxShown DEF OfficeInv
<1> QED
    BY <1>1, <1>2, <1>3, PTL DEF PlatformSpec
=============================================================================
