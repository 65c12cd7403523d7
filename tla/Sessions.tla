------------------------------- MODULE Sessions -------------------------------
(***************************************************************************)
(* One account: its registration, the codes that confirm its phone or      *)
(* reset its password, and its sessions, each kept by a refresh token that *)
(* is replaced when it is used.  AuthService and TokenService.             *)
(*                                                                         *)
(* A handler reads the user, the code or the token, spends its time on     *)
(* bcrypt, and writes: it stops between the two, and between the token it  *)
(* issues and the one it revokes.                                          *)
(*                                                                         *)
(* A definition under "Bug:" is used by no other: it takes the place of    *)
(* the one after it to show that a property notices the bug.               *)
(***************************************************************************)
EXTENDS Integers, FiniteSets

CONSTANTS
    Tokens,         \* RefreshToken rows that may be created
    NoToken,
    Handlers,       \* requests being served
    MaxCodes,       \* bound on the codes of a purpose
    MaxAttempts,    \* MAX_PHONE_CODE_ATTEMPTS
    MaxResets       \* bound on the changes of the password

ASSUME SessionAssumption ==
    /\ NoToken \notin Tokens /\ IsFiniteSet(Tokens) /\ IsFiniteSet(Handlers)
    /\ MaxCodes \in Nat /\ MaxAttempts \in Nat \ {0} /\ MaxResets \in Nat

VARIABLES
    account,        \* User.status
    hasWallet,      \* its Wallet exists
    password,       \* how many times the password was changed
    code,           \* the last code of a purpose: its number, its state, its attempts
    token,          \* state of a RefreshToken
    login,          \* the token of the login a token descends from
    knew,           \* the password a token descends from
    handler,        \* what a request does, and what it read
    ended,          \* logins that were ended: logout, expiry, reset
    overlapped,     \* a token was used, or ended, while a request was replacing it
    died            \* a request died half-way

accountVars == <<account, hasWallet, password>>
tokenVars   == <<token, login, knew, ended>>
sessionVars == <<accountVars, code, tokenVars, handler, overlapped, died>>

-----------------------------------------------------------------------------
(* Types and helper state formulae.                                        *)

UserStatuses == {"NONE", "PENDING_PHONE_CONFIRMATION", "ACTIVE"}
Purposes     == {"REGISTRATION", "ACCOUNT_RECOVERY"}
CodeStates   == {"none", "live", "expired", "consumed"}
TokenStates  == {"NONE", "LIVE", "REVOKED", "EXPIRED"}
HandlerPCs   == {"idle", "issue", "revoke", "guess", "consume"}

\* of: the token it was given; number: the code it read; pass: the password it
\* was given, or that its token descends from.
NoRequestYet == [pc |-> "idle", of |-> NoToken, purpose |-> "REGISTRATION", number |-> 0, pass |-> 0]

Done(h) == handler' = [handler EXCEPT ![h] = NoRequestYet]
Replacing(t) == \E h \in Handlers : handler[h].of = t

\* Bug: off by one.
TakesOneMore(attempts) == attempts <= MaxAttempts

\* A code takes attempts while it has fewer than the limit.
TakesAttempts(attempts) == attempts < MaxAttempts

SessionInit ==
    /\ account = "NONE" /\ hasWallet = FALSE /\ password = 0
    /\ code = [p \in Purposes |-> [number |-> 0, state |-> "none", attempts |-> 0]]
    /\ token = [t \in Tokens |-> "NONE"] /\ login = [t \in Tokens |-> NoToken]
    /\ knew = [t \in Tokens |-> 0]
    /\ handler = [h \in Handlers |-> NoRequestYet]
    /\ ended = {} /\ overlapped = FALSE /\ died = FALSE

-----------------------------------------------------------------------------
(* The account and its codes.                                              *)

\* createAndSendPhoneCode: the code that was live is consumed.
NewCode(p) ==
    /\ code[p].number < MaxCodes
    /\ code' = [code EXCEPT ![p] = [number |-> @.number + 1, state |-> "live", attempts |-> 0]]

Register ==
    /\ account = "NONE"
    /\ account' = "PENDING_PHONE_CONFIRMATION"
    /\ NewCode("REGISTRATION")
    /\ UNCHANGED <<hasWallet, password, tokenVars, handler, overlapped, died>>

\* resendPhoneCode, requestPasswordReset.
SendCode(p) ==
    /\ account = IF p = "REGISTRATION" THEN "PENDING_PHONE_CONFIRMATION" ELSE "ACTIVE"
    /\ NewCode(p)
    /\ UNCHANGED <<accountVars, tokenVars, handler, overlapped, died>>

CodeExpires(p) ==
    /\ code[p].state = "live"
    /\ code' = [code EXCEPT ![p].state = "expired"]
    /\ UNCHANGED <<accountVars, tokenVars, handler, overlapped, died>>

\* confirmPhone and resetPassword read the code (validatePhoneCode), and find
\* the one they were given right or wrong.
ReadCode(h, p) ==
    /\ handler[h].pc = "idle"
    /\ p = "REGISTRATION" => account = "PENDING_PHONE_CONFIRMATION"
    /\ code[p].state = "live" /\ TakesAttempts(code[p].attempts)
    /\ \E pc \in {"guess", "consume"} :
           handler' = [handler EXCEPT ![h] = [@ EXCEPT !.pc = pc, !.purpose = p,
                                                       !.number = code[p].number]]
    /\ UNCHANGED <<accountVars, code, tokenVars, overlapped, died>>

\* A row that was replaced keeps its attempts to itself.
WrongCode(h) ==
    LET p == handler[h].purpose IN
    /\ handler[h].pc = "guess"
    /\ code' = IF code[p].number = handler[h].number
               THEN [code EXCEPT ![p].attempts = @ + 1] ELSE code
    /\ Done(h)
    /\ UNCHANGED <<accountVars, tokenVars, overlapped, died>>

Consumed(h) ==
    LET p == handler[h].purpose IN
    IF code[p].number = handler[h].number THEN [code EXCEPT ![p].state = "consumed"] ELSE code

ConfirmPhone(h) ==
    /\ handler[h].pc = "consume" /\ handler[h].purpose = "REGISTRATION"
    /\ code' = Consumed(h)
    /\ account' = "ACTIVE" /\ hasWallet' = TRUE
    /\ Done(h)
    /\ UNCHANGED <<password, tokenVars, overlapped, died>>

\* Bug: only the tokens that were never replaced.
EndsLogins == {t \in Tokens : token[t] = "LIVE" /\ login[t] = t}

\* The sessions a reset ends.
EndsSessions == {t \in Tokens : token[t] = "LIVE"}

ResetPassword(h) ==
    /\ handler[h].pc = "consume" /\ handler[h].purpose = "ACCOUNT_RECOVERY"
    /\ password < MaxResets
    /\ code' = Consumed(h)
    /\ password' = password + 1
    /\ token' = [t \in Tokens |-> IF t \in EndsSessions THEN "REVOKED" ELSE token[t]]
    /\ ended' = ended \cup {login[t] : t \in EndsSessions}
    /\ overlapped' = (overlapped \/ \E i \in Handlers : handler[i].pc \in {"issue", "revoke"})
    /\ Done(h)
    /\ UNCHANGED <<account, hasWallet, login, knew, died>>

-----------------------------------------------------------------------------
(* The sessions.                                                           *)

\* Bug: the token is revoked first.
RefreshStepsSwapped == <<"revoke", "issue">>

\* The writes of refresh, in their order.
RefreshSteps == <<"issue", "revoke">>

\* What a request does after a step.
Then(h, step) ==
    IF handler[h].of # NoToken /\ step = RefreshSteps[1]
    THEN handler' = [handler EXCEPT ![h].pc = RefreshSteps[2]] ELSE Done(h)

\* login: the password is compared, then the tokens are issued.
Login(h) ==
    /\ handler[h].pc = "idle" /\ account = "ACTIVE"
    /\ handler' = [handler EXCEPT ![h].pc = "issue", ![h].pass = password]
    /\ UNCHANGED <<accountVars, code, tokenVars, overlapped, died>>

\* refresh reads the token it is given.
ReadToken(h, t) ==
    /\ handler[h].pc = "idle" /\ account = "ACTIVE"
    /\ token[t] = "LIVE"
    /\ handler' = [handler EXCEPT ![h] = [@ EXCEPT !.pc = RefreshSteps[1], !.of = t,
                                                   !.pass = knew[t]]]
    /\ overlapped' = (overlapped \/ Replacing(t))
    /\ UNCHANGED <<accountVars, code, tokenVars, died>>

\* issueAuthTokens.
IssueTokens(h, t) ==
    LET of == handler[h].of IN
    /\ handler[h].pc = "issue" /\ token[t] = "NONE"
    /\ token' = [token EXCEPT ![t] = "LIVE"]
    /\ login' = [login EXCEPT ![t] = IF of = NoToken THEN t ELSE login[of]]
    /\ knew' = [knew EXCEPT ![t] = handler[h].pass]
    /\ Then(h, "issue")
    /\ UNCHANGED <<accountVars, code, ended, overlapped, died>>

RevokeToken(h) ==
    /\ handler[h].pc = "revoke"
    /\ token' = [token EXCEPT ![handler[h].of] = "REVOKED"]
    /\ Then(h, "revoke")
    /\ UNCHANGED <<accountVars, code, login, knew, ended, overlapped, died>>

\* logout; a token expires.
EndToken(t) ==
    /\ token[t] = "LIVE"
    /\ \E end \in {"REVOKED", "EXPIRED"} : token' = [token EXCEPT ![t] = end]
    /\ ended' = ended \cup {login[t]}
    /\ overlapped' = (overlapped \/ Replacing(t))
    /\ UNCHANGED <<accountVars, code, login, knew, handler, died>>

\* The instance dies, or a statement fails.
HandlerDies(h) ==
    /\ handler[h].pc # "idle"
    /\ died' = TRUE
    /\ Done(h)
    /\ UNCHANGED <<accountVars, code, tokenVars, overlapped>>

SessionNext ==
    \/ Register
    \/ \E p \in Purposes : SendCode(p) \/ CodeExpires(p)
    \/ \E h \in Handlers : \/ \E p \in Purposes : ReadCode(h, p)
                           \/ WrongCode(h)
                           \/ ConfirmPhone(h)
                           \/ ResetPassword(h)
                           \/ Login(h)
                           \/ \E t \in Tokens : ReadToken(h, t) \/ IssueTokens(h, t)
                           \/ RevokeToken(h)
                           \/ HandlerDies(h)
    \/ \E t \in Tokens : EndToken(t)

SessionSpec == SessionInit /\ [][SessionNext]_sessionVars

-----------------------------------------------------------------------------
(* Properties.                                                             *)

SessionTypeOK ==
    /\ account \in UserStatuses /\ hasWallet \in BOOLEAN /\ password \in 0..MaxResets
    /\ code \in [Purposes -> [number : 0..MaxCodes, state : CodeStates, attempts : Nat]]
    /\ token \in [Tokens -> TokenStates] /\ login \in [Tokens -> Tokens \cup {NoToken}]
    /\ knew \in [Tokens -> Nat]
    /\ handler \in [Handlers -> [pc : HandlerPCs, of : Tokens \cup {NoToken}, purpose : Purposes,
                                 number : 0..MaxCodes, pass : 0..MaxResets]]
    /\ ended \subseteq Tokens

LiveOf(t) == {u \in Tokens : login[u] = t /\ token[u] = "LIVE"}
Logins    == {t \in Tokens : login[t] = t}

\* A session that was not ended keeps a live token, whatever dies half-way and
\* whoever refreshes it at the same time.
SessionIsKept == \A t \in Logins \ ended : LiveOf(t) # {}

\* "refresh" replaces the token: unless requests overlapped on it or one died,
\* a session has one live token, two while it is being replaced.
OneTokenPerSession ==
    ~overlapped /\ ~died =>
        \A t \in Logins : Cardinality(LiveOf(t)) <= 1 + Cardinality({h \in Handlers :
                             handler[h].pc = "revoke" /\ login[handler[h].of] = t})

\* A reset leaves no session of the password before, unless one was being made.
ResetEndsSessions == ~overlapped => \A t \in Tokens : token[t] = "LIVE" => knew[t] = password

\* Wrong codes are counted after bcrypt: more than the limit are taken only
\* from requests that are served at the same time.
AttemptsAreLimited ==
    \A p \in Purposes : code[p].attempts <= MaxAttempts + Cardinality(Handlers) - 1

SessionInv == /\ SessionTypeOK
              /\ SessionIsKept
              /\ OneTokenPerSession
              /\ ResetEndsSessions
              /\ AttemptsAreLimited
              /\ account = "ACTIVE" <=> hasWallet
=============================================================================
