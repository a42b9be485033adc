---------------------------- MODULE AuthAccount ----------------------------
(***************************************************************************)
(* The account of one user (AuthService): its verification, its tokens,    *)
(* the lockout after failed logins, two-factor codes and recovery codes.   *)
(* The sessions of the user are in AuthSessions.                           *)
(*                                                                         *)
(* A request loads the user, then the security document, decides, and      *)
(* saves what it has changed of its copy: mongoose sends the modified      *)
(* fields alone, and asks for the version it loaded when one of them is    *)
(* the list of recovery codes.  A transaction whose attempt is aborted     *)
(* after a save runs again on documents that have nothing left to save.    *)
(*                                                                         *)
(* What only refuses a request (an expired token, the cooldown of a        *)
(* resend, a wrong code) is a request that fails.  Delivery may fail.      *)
(***************************************************************************)
EXTENDS Naturals, FiniteSets

CONSTANTS
  Token,        \* tokens, of verifications and of password resets
  Code,         \* recovery codes
  Batches,      \* the sets of codes generateRecoveryCodes may return
  Req,          \* requests served at the same time
  None,
  MAX_FAILED_LOGIN_ATTEMPTS,
  MaxRequests   \* bound: requests ever started

ASSUME AccountAssumption ==
  /\ Batches \subseteq SUBSET Code
  /\ None \notin Token \cup Code
  /\ MAX_FAILED_LOGIN_ATTEMPTS \in Nat \ {0} /\ MaxRequests \in Nat

Kinds == {"register", "verify", "resend", "forgot", "reset", "change", "login", "wrong",
          "setup", "confirm", "disable", "regenerate"}
MaybeToken == Token \cup {None}

\* status is of the user document, the other fields are of user_security.
Fields == {"status", "password", "verified", "verifyToken", "resetToken", "twoFactor", "pending",
           "codes", "attempts", "lockout"}
Account == [status : {"absent", "pending_verification", "active"},
            password : {"first", "next"}, verified : BOOLEAN, verifyToken : MaybeToken,
            resetToken : MaybeToken, twoFactor : BOOLEAN, pending : BOOLEAN, codes : SUBSET Code,
            attempts : 0 .. (MAX_FAILED_LOGIN_ATTEMPTS - 1),
            lockout : {"none", "running", "over"}]
NoAccount == [status |-> "absent", password |-> "first", verified |-> FALSE, verifyToken |-> None,
              resetToken |-> None, twoFactor |-> FALSE, pending |-> FALSE, codes |-> {},
              attempts |-> 0, lockout |-> "none"]

VARIABLES
  account,     \* the user and user_security documents
  issued,      \* tokens ever generated
  given,       \* recovery codes ever generated
  pc, input,   \* where each request is and what it asks for
  copy,        \* the documents as the request has loaded and saved them
  patch,       \* the fields it has modified and not saved
  prior,       \* the token it will put back if the delivery fails
  outdated,    \* has another request saved the list of codes since it loaded them
  uses,        \* history: the requests each recovery code has admitted
  used,        \* history: tokens that have reset a password
  back,        \* history: tokens a failed delivery has put back
  usedBefore,  \* history: what had been used when the request loaded
  asked        \* requests started

requests == <<pc, input, copy, patch, prior>>
history == <<uses, used, back, usedBefore>>
vars == <<account, issued, given, requests, outdated, history, asked>>

Input == [kind : Kinds \cup {"none"}, token : MaybeToken, code : Code \cup {None}]
NoInput == [kind |-> "none", token |-> None, code |-> None]
NoPatch == [f \in {} |-> None]

Merged(a, p) == [f \in Fields |-> IF f \in DOMAIN p THEN p[f] ELSE a[f]]

\* The fields of p that differ from those of a; a new hash or secret always does.
Modified(a, p) ==
  [f \in {g \in DOMAIN p : \/ p[g] # a[g] \/ g = "password"
                           \/ g = "pending" /\ p[g]} |-> p[f]]

TypeOK ==
  /\ account \in Account
  /\ issued \subseteq Token /\ given \subseteq Code
  /\ pc \in [Req -> {"idle", "user", "load", "challenge", "save", "tx", "deliver", "restore"}]
  /\ input \in [Req -> Input]
  /\ copy \in [Req -> Account]
  /\ \A r \in Req : DOMAIN patch[r] \subseteq Fields /\ Merged(copy[r], patch[r]) \in Account
  /\ prior \in [Req -> MaybeToken]
  /\ outdated \in [Req -> BOOLEAN]
  /\ uses \in [Code -> Nat]
  /\ used \subseteq Token /\ back \subseteq Token
  /\ usedBefore \in [Req -> SUBSET Token]
  /\ asked \in Nat

\* No account, or one that is verified, with two-factor authentication or without, and
\* with an earlier lockout or none.
Init ==
  /\ \E batch \in Batches, on \in BOOLEAN, earlier \in {"none", "over"} :
       /\ account \in {NoAccount,
            [NoAccount EXCEPT !.status = "active", !.verified = TRUE, !.twoFactor = on,
                              !.codes = IF on THEN batch ELSE {}, !.lockout = earlier]}
       /\ given = account.codes
  /\ issued = {}
  /\ pc = [r \in Req |-> "idle"]
  /\ input = [r \in Req |-> NoInput]
  /\ copy = [r \in Req |-> NoAccount]
  /\ patch = [r \in Req |-> NoPatch]
  /\ prior = [r \in Req |-> None]
  /\ outdated = [r \in Req |-> FALSE]
  /\ uses = [k \in Code |-> 0]
  /\ used = {} /\ back = {}
  /\ usedBefore = [r \in Req |-> {}]
  /\ asked = 0

At(r, step, kind) == pc[r] = step /\ input[r].kind = kind
End(r) ==
  /\ pc' = [pc EXCEPT ![r] = "idle"]
  /\ input' = [input EXCEPT ![r] = NoInput]
  /\ copy' = [copy EXCEPT ![r] = NoAccount]
  /\ patch' = [patch EXCEPT ![r] = NoPatch]
  /\ prior' = [prior EXCEPT ![r] = None]

\* What the request assigns to its copy c, and the step that saves it.
Assign(r, c, p, step) ==
  /\ copy' = [copy EXCEPT ![r] = c]
  /\ patch' = [patch EXCEPT ![r] = Modified(c, p)]
  /\ pc' = [pc EXCEPT ![r] = step]
  /\ UNCHANGED <<input, prior>>

\* The saved list of codes has a new version: other copies are out of date.
Versions(r, p) ==
  outdated' = [q \in Req |-> outdated[q] \/ (q # r /\ "codes" \in DOMAIN p
                                             /\ pc[q] \notin {"idle", "user", "load"})]

-----------------------------------------------------------------------------
(* Requests.                                                                *)

Ask(r, request) ==
  /\ pc[r] = "idle"
  /\ asked < MaxRequests
  /\ asked' = asked + 1
  /\ input' = [input EXCEPT ![r] = request]
  /\ pc' = [pc EXCEPT ![r] = "user"]
  /\ UNCHANGED <<account, issued, given, copy, patch, prior, outdated, history>>

\* A refusal, a query that rejects or the death of the process.
Fail(r) ==
  /\ pc[r] # "idle"
  /\ End(r)
  /\ UNCHANGED <<account, issued, given, outdated, history, asked>>

\* register looks for the address and goes on to its transaction if nobody has it; the
\* others go on to the security document.
LoadUser(r) ==
  /\ pc[r] = "user"
  /\ IF (account.status = "absent") # (input[r].kind = "register") THEN End(r)
     ELSE /\ copy' = [copy EXCEPT ![r].status = account.status]
          /\ pc' = [pc EXCEPT ![r] = IF input[r].kind = "register" THEN "tx" ELSE "load"]
          /\ UNCHANGED <<input, patch, prior>>
  /\ UNCHANGED <<account, issued, given, outdated, history, asked>>

\* The security document, with the user as it was loaded before.
Loaded(r) == [account EXCEPT !.status = copy[r].status]
LoadSecurity(r, kind) ==
  /\ At(r, "load", kind)
  /\ outdated' = [outdated EXCEPT ![r] = FALSE]
  /\ usedBefore' = [usedBefore EXCEPT ![r] = used]
  /\ UNCHANGED <<account, uses, used, back, asked>>

-----------------------------------------------------------------------------
(* Registration and verification.                                           *)

\* The address is unique: of two registrations one is refused.
Register(r) ==
  /\ At(r, "tx", "register")
  /\ IF account.status # "absent" THEN UNCHANGED <<account, issued>>
     ELSE \E t \in Token \ issued :
            /\ issued' = issued \cup {t}
            /\ account' = [NoAccount EXCEPT !.status = "pending_verification", !.verifyToken = t]
  /\ End(r)
  /\ UNCHANGED <<given, outdated, history, asked>>

Verified == [status |-> "active", verified |-> TRUE, verifyToken |-> None]

VerifyEmail(r) ==
  /\ LoadSecurity(r, "verify")
  /\ IF account.verifyToken # input[r].token THEN End(r)
     ELSE Assign(r, Loaded(r), Verified, "tx")
  /\ UNCHANGED <<issued, given>>

\* Resend and forgot generate a token, save it and deliver it.
Send(r, field) ==
  \E t \in Token \ issued :
    /\ issued' = issued \cup {t}
    /\ copy' = [copy EXCEPT ![r] = Loaded(r)]
    /\ patch' = [patch EXCEPT ![r] = [f \in {field} |-> t]]
    /\ prior' = [prior EXCEPT ![r] = account[field]]
    /\ pc' = [pc EXCEPT ![r] = "save"]
    /\ UNCHANGED input

ResendVerification(r) ==
  /\ LoadSecurity(r, "resend")
  /\ IF copy[r].status # "pending_verification" \/ account.verified
     THEN End(r) /\ UNCHANGED issued
     ELSE Send(r, "verifyToken")
  /\ UNCHANGED given

ForgotPassword(r) ==
  /\ LoadSecurity(r, "forgot")
  /\ IF copy[r].status # "active" \/ ~account.verified
     THEN End(r) /\ UNCHANGED issued
     ELSE Send(r, "resetToken")
  /\ UNCHANGED given

Sent(r) == IF input[r].kind = "forgot" THEN "resetToken" ELSE "verifyToken"

\* What follows the delivery is an audit record and the time of the last mail.
Deliver(r) ==
  /\ pc[r] = "deliver"
  /\ End(r)
  /\ UNCHANGED <<account, issued, given, outdated, history, asked>>

\* The catch block puts the token back that the request had found.
DeliveryFails(r) ==
  /\ pc[r] = "deliver"
  /\ patch' = [patch EXCEPT ![r] = [f \in {Sent(r)} |-> prior[r]]]
  /\ pc' = [pc EXCEPT ![r] = "restore"]
  /\ UNCHANGED <<input, copy, prior>>
  /\ UNCHANGED <<account, issued, given, outdated, history, asked>>

-----------------------------------------------------------------------------
(* Passwords.                                                               *)

\* Mutated form of ResetPassword: the token is left where it is.
ResetKeepingToken(r) ==
  /\ LoadSecurity(r, "reset")
  /\ IF account.resetToken # input[r].token \/ ~account.verified \/ copy[r].status # "active"
     THEN End(r)
     ELSE Assign(r, Loaded(r), [password |-> "next", attempts |-> 0, lockout |-> "none"], "tx")
  /\ UNCHANGED <<issued, given>>

ResetPassword(r) ==
  /\ LoadSecurity(r, "reset")
  /\ IF account.resetToken # input[r].token \/ ~account.verified \/ copy[r].status # "active"
     THEN End(r)
     ELSE Assign(r, Loaded(r),
                 [password |-> "next", resetToken |-> None, attempts |-> 0,
                  lockout |-> "none"], "tx")
  /\ UNCHANGED <<issued, given>>

ChangePassword(r) ==
  /\ LoadSecurity(r, "change")
  /\ Assign(r, Loaded(r), [password |-> "next", resetToken |-> None], "tx")
  /\ UNCHANGED <<issued, given>>

-----------------------------------------------------------------------------
(* Logins.                                                                  *)

\* Mutated form of Failure: one attempt more than the policy allows.
FailureLate(a) ==
  IF a.attempts + 1 > MAX_FAILED_LOGIN_ATTEMPTS
  THEN [attempts |-> 0, lockout |-> "running"] ELSE [attempts |-> a.attempts + 1]

\* registerFailedLoginAttempt, on the copy.
Failure(a) ==
  IF a.attempts + 1 >= MAX_FAILED_LOGIN_ATTEMPTS
  THEN [attempts |-> 0, lockout |-> "running"] ELSE [attempts |-> a.attempts + 1]

\* The password is wrong.
LoginFails(r) ==
  /\ LoadSecurity(r, "wrong")
  /\ IF account.lockout = "running" THEN End(r)
     ELSE Assign(r, Loaded(r), Failure(account), "save")
  /\ UNCHANGED <<issued, given>>

\* Mutated form of Challenge: the code stays in the list.
ChallengeKeepingCode(r) == Assign(r, Loaded(r), [codes |-> account.codes], "challenge")

\* assertValidTwoFactorChallenge with a recovery code: the list without it.
Challenge(r) == Assign(r, Loaded(r), [codes |-> account.codes \ {input[r].code}], "challenge")

\* resetFailedLoginAttempts, on the copy.
Reset(r, c) ==
  IF c.attempts = 0 /\ c.lockout = "none" THEN End(r)
  ELSE Assign(r, c, [attempts |-> 0, lockout |-> "none"], "save")

\* The password is right; a session follows (AuthSessions).
Login(r) ==
  /\ LoadSecurity(r, "login")
  /\ IF account.lockout = "running" \/ ~account.verified THEN End(r)
     ELSE IF ~account.twoFactor \/ input[r].code = None THEN Reset(r, Loaded(r))
     ELSE IF input[r].code \in account.codes THEN Challenge(r) ELSE End(r)
  /\ UNCHANGED <<issued, given>>

\* Time passes: lockoutUntil is over.
Lapse ==
  /\ account.lockout = "running"
  /\ account' = [account EXCEPT !.lockout = "over"]
  /\ UNCHANGED <<issued, given, requests, outdated, history, asked>>

-----------------------------------------------------------------------------
(* Two-factor authentication.  No code is a TOTP code that is right.        *)

SetupTwoFactor(r) ==
  /\ LoadSecurity(r, "setup")
  /\ IF account.twoFactor THEN End(r) ELSE Assign(r, Loaded(r), [pending |-> TRUE], "tx")
  /\ UNCHANGED <<issued, given>>

ConfirmTwoFactor(r) ==
  /\ LoadSecurity(r, "confirm")
  /\ IF ~account.pending THEN End(r) /\ UNCHANGED given
     ELSE \E batch \in Batches :
            /\ batch \cap given = {}
            /\ given' = given \cup batch
            /\ Assign(r, Loaded(r),
                      [twoFactor |-> TRUE, pending |-> FALSE, codes |-> batch], "tx")
  /\ UNCHANGED issued

Disabled == [twoFactor |-> FALSE, pending |-> FALSE, codes |-> {}]

DisableTwoFactor(r) ==
  /\ LoadSecurity(r, "disable")
  /\ IF ~account.twoFactor THEN End(r)
     ELSE IF input[r].code = None THEN Assign(r, Loaded(r), Disabled, "tx")
     ELSE IF input[r].code \in account.codes THEN Challenge(r) ELSE End(r)
  /\ UNCHANGED <<issued, given>>

Regenerate(r, c) ==
  \E batch \in Batches :
    /\ batch \cap given = {}
    /\ given' = given \cup batch
    /\ Assign(r, c, [codes |-> batch], "tx")

RegenerateRecoveryCodes(r) ==
  /\ LoadSecurity(r, "regenerate")
  /\ IF ~account.twoFactor THEN End(r) /\ UNCHANGED given
     ELSE IF input[r].code = None THEN Regenerate(r, Loaded(r))
     ELSE /\ IF input[r].code \in account.codes THEN Challenge(r) ELSE End(r)
          /\ UNCHANGED given
  /\ UNCHANGED issued

-----------------------------------------------------------------------------
(* Saves.                                                                   *)

\* A save of the list of codes asks for the version that was loaded.
VersionMatches(r) == "codes" \in DOMAIN patch[r] => ~outdated[r]

\* The save of a challenge, after which the request goes on with its saved copy.
SaveChallenge(r) ==
  /\ pc[r] = "challenge"
  /\ VersionMatches(r)
  /\ LET saved == Merged(copy[r], patch[r]) IN
       /\ account' = Merged(account, patch[r])
       /\ uses' = [uses EXCEPT ![input[r].code] = @ + 1]
       /\ CASE input[r].kind = "login" -> Reset(r, saved) /\ UNCHANGED given
            [] input[r].kind = "disable" -> Assign(r, saved, Disabled, "tx") /\ UNCHANGED given
            [] input[r].kind = "regenerate" -> Regenerate(r, saved)
  /\ Versions(r, patch[r])
  /\ UNCHANGED <<issued, used, back, usedBefore, asked>>

\* The saves outside a transaction: a count of failures, or a token to be delivered.
Save(r) ==
  /\ pc[r] = "save"
  /\ account' = Merged(account, patch[r])
  /\ IF input[r].kind \notin {"resend", "forgot"} THEN End(r)
     ELSE /\ copy' = [copy EXCEPT ![r] = Merged(copy[r], patch[r])]
          /\ patch' = [patch EXCEPT ![r] = NoPatch]
          /\ pc' = [pc EXCEPT ![r] = "deliver"]
          /\ UNCHANGED <<input, prior>>
  /\ UNCHANGED <<issued, given, outdated, history, asked>>

Restore(r) ==
  /\ pc[r] = "restore"
  /\ account' = Merged(account, patch[r])
  /\ back' = IF input[r].kind = "forgot" THEN back \cup ({prior[r]} \ {None}) ELSE back
  /\ End(r)
  /\ UNCHANGED <<issued, given, outdated, uses, used, usedBefore, asked>>

\* The saves of a transaction and its audit record are committed.
Commit(r) ==
  /\ pc[r] = "tx" /\ input[r].kind # "register"
  /\ VersionMatches(r)
  /\ account' = Merged(account, patch[r])
  /\ used' = IF input[r].kind = "reset" /\ "password" \in DOMAIN patch[r]
             THEN used \cup {input[r].token} ELSE used
  /\ Versions(r, patch[r])
  /\ End(r)
  /\ UNCHANGED <<issued, given, uses, back, usedBefore, asked>>

\* The version is another one: the save throws.
VersionFails(r) ==
  /\ pc[r] \in {"challenge", "tx"}
  /\ ~VersionMatches(r)
  /\ End(r)
  /\ UNCHANGED <<account, issued, given, outdated, history, asked>>

\* The documents an attempt saves, in this order: verifyEmail is the only one with two.
SaveOrder == <<Fields \ {"status"}, {"status"}>>

\* An attempt is aborted after its first or its second save; the callback runs again
\* with what it has not saved yet.
Abort(r) ==
  /\ pc[r] = "tx"
  /\ \E fields \in {SaveOrder[1], Fields} :
       patch' = [patch EXCEPT ![r] = [f \in DOMAIN patch[r] \ fields |-> patch[r][f]]]
  /\ UNCHANGED <<account, issued, given, pc, input, copy, prior, outdated, history, asked>>

-----------------------------------------------------------------------------
Arrive(r) ==
  \/ \E kind \in {"register", "resend", "forgot", "login", "wrong"} :
       Ask(r, [NoInput EXCEPT !.kind = kind])
  \/ \E kind \in {"verify", "reset"}, t \in issued : Ask(r, [NoInput EXCEPT !.kind = kind, !.token = t])
  \/ \E k \in given : Ask(r, [NoInput EXCEPT !.kind = "login", !.code = k])
  \/ /\ account.verified
     /\ \/ \E kind \in {"change", "setup", "confirm"} : Ask(r, [NoInput EXCEPT !.kind = kind])
        \/ \E kind \in {"disable", "regenerate"}, k \in given \cup {None} :
             Ask(r, [NoInput EXCEPT !.kind = kind, !.code = k])

Serve(r) ==
  \/ LoadUser(r) \/ Register(r) \/ VerifyEmail(r) \/ ResendVerification(r)
  \/ ForgotPassword(r) \/ Deliver(r) \/ DeliveryFails(r)
  \/ ResetPassword(r) \/ ChangePassword(r) \/ LoginFails(r) \/ Login(r)
  \/ SetupTwoFactor(r) \/ ConfirmTwoFactor(r) \/ DisableTwoFactor(r)
  \/ RegenerateRecoveryCodes(r)
  \/ SaveChallenge(r) \/ Save(r) \/ Restore(r) \/ Commit(r) \/ VersionFails(r)

Next == Lapse \/ \E r \in Req : Arrive(r) \/ Serve(r) \/ Abort(r) \/ Fail(r)

Spec == Init /\ [][Next]_vars

-----------------------------------------------------------------------------
(* Properties.                                                              *)

\* A recovery code admits one request: of two that have found it in the list, the save
\* of one meets another version (auth.service.ts:1417).
RecoveryCodesAdmitOnce == \A k \in Code : uses[k] <= 1

\* A token resets a password a second time only if both requests had loaded it before
\* either was committed, or if the failed delivery of another mail has put it back
\* (auth.service.ts:467, 414).
ReuseNeedsARace ==
  \A r \in Req : At(r, "tx", "reset") /\ input[r].token \in usedBefore[r] =>
    input[r].token \in back
=============================================================================
