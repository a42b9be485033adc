------------------------- MODULE AuthAccountProofs -------------------------
(***************************************************************************)
(* Proofs about AuthAccount, for any tokens, codes, batches and requests,  *)
(* any number of failures the policy allows and any bound on requests.     *)
(*                                                                         *)
(* RecoveryCodesAdmitOnce is not inductive: it needs that the codes in the *)
(* list, and those a transaction is going to put there, have not been      *)
(* used, and that a request whose copy of the list is out of date is known *)
(* by its version.  ReuseNeedsARace needs that nobody but its request      *)
(* knows a reset token before it is saved.                                 *)
(***************************************************************************)
EXTENDS AuthAccount, TLAPS

USE AccountAssumption

-----------------------------------------------------------------------------
(* Documents and patches.                                                   *)

\* The values of each field of an account.
Values == [status |-> {"absent", "pending_verification", "active"},
           password |-> {"first", "next"}, verified |-> BOOLEAN, verifyToken |-> MaybeToken,
           resetToken |-> MaybeToken, twoFactor |-> BOOLEAN, pending |-> BOOLEAN,
           codes |-> SUBSET Code, attempts |-> 0 .. (MAX_FAILED_LOGIN_ATTEMPTS - 1),
           lockout |-> {"none", "running", "over"}]

\* A patch of fields an account has, with values they may take.
IsPatch(p) == DOMAIN p \subseteq Fields /\ \A f \in DOMAIN p : p[f] \in Values[f]

\* An account is a function with these fields and these values.
LEMMA AccountFields ==
  \A a : a \in Account <=> /\ a = [f \in Fields |-> a[f]]
                          /\ \A f \in Fields : a[f] \in Values[f]
<1>1. ASSUME NEW a \in Account
      PROVE  a = [f \in Fields |-> a[f]] /\ \A f \in Fields : a[f] \in Values[f]
  <2>1. DOMAIN a = Fields
    BY DEF Account, Fields
  <2>2. a = [f \in DOMAIN a |-> a[f]]
    BY DEF Account
  <2>3. \A f \in Fields : a[f] \in Values[f]
    BY DEF Account, Fields, Values
  <2> QED BY <2>1, <2>2, <2>3
<1>2. ASSUME NEW a, a = [f \in Fields |-> a[f]], \A f \in Fields : a[f] \in Values[f]
      PROVE  a \in Account
  <2>1. /\ a.status \in Values.status /\ a.password \in Values.password
        /\ a.verified \in Values.verified /\ a.verifyToken \in Values.verifyToken
        /\ a.resetToken \in Values.resetToken /\ a.twoFactor \in Values.twoFactor
        /\ a.pending \in Values.pending /\ a.codes \in Values.codes
        /\ a.attempts \in Values.attempts /\ a.lockout \in Values.lockout
    BY <1>2 DEF Fields
  <2>2. a = [status |-> a.status, password |-> a.password, verified |-> a.verified,
             verifyToken |-> a.verifyToken, resetToken |-> a.resetToken,
             twoFactor |-> a.twoFactor, pending |-> a.pending, codes |-> a.codes,
             attempts |-> a.attempts, lockout |-> a.lockout]
    BY <1>2 DEF Fields
  <2> QED BY <2>1, <2>2 DEF Account, Values
<1> QED BY <1>1, <1>2

\* A merge takes the patched fields from the patch and the others from the document.
LEMMA MergedFields ==
  ASSUME NEW a, NEW p, NEW f \in Fields
  PROVE  /\ f \in DOMAIN p => Merged(a, p)[f] = p[f]
         /\ f \notin DOMAIN p => Merged(a, p)[f] = a[f]
BY DEF Merged

LEMMA MergedType ==
  ASSUME NEW a \in Account, NEW p, IsPatch(p)
  PROVE  Merged(a, p) \in Account
<1>1. \A f \in Fields : Merged(a, p)[f] \in Values[f]
  BY AccountFields, MergedFields DEF IsPatch
<1>2. Merged(a, p) = [f \in Fields |-> Merged(a, p)[f]]
  BY DEF Merged
<1> QED BY <1>1, <1>2, AccountFields

\* What a merge is typed by, is a patch.
LEMMA PatchFields ==
  ASSUME NEW a, NEW p, DOMAIN p \subseteq Fields, Merged(a, p) \in Account
  PROVE  IsPatch(p)
BY AccountFields, MergedFields DEF IsPatch

\* The fields that are left of an assignment.
LEMMA ModifiedFields ==
  ASSUME NEW a, NEW p
  PROVE  /\ DOMAIN Modified(a, p) \subseteq DOMAIN p
         /\ \A f \in DOMAIN Modified(a, p) : Modified(a, p)[f] = p[f]
         /\ \A f \in DOMAIN p : p[f] # a[f] => f \in DOMAIN Modified(a, p)
BY DEF Modified

LEMMA ModifiedType ==
  ASSUME NEW a, NEW p, IsPatch(p)
  PROVE  IsPatch(Modified(a, p))
BY ModifiedFields DEF IsPatch

\* A request that ends has nothing in hand.
LEMMA NothingInHand ==
  /\ NoInput \in Input /\ NoAccount \in Account /\ IsPatch(NoPatch)
  /\ DOMAIN NoPatch = {}
<1>1. NoInput \in Input
  BY DEF NoInput, Input, MaybeToken, Kinds
<1>2. NoAccount \in Account
  BY DEF NoAccount, Account, MaybeToken
<1>3. DOMAIN NoPatch = {}
  BY DEF NoPatch
<1> QED BY <1>1, <1>2, <1>3 DEF IsPatch

-----------------------------------------------------------------------------
(* The inductive invariant.                                                 *)

\* Which requests reach which step, and what they have in hand there.
StepInv ==
  \A r \in Req :
    /\ pc[r] = "idle" => input[r].kind = "none"
    /\ pc[r] # "idle" => input[r].kind # "none"
    /\ input[r].kind \in {"verify", "reset"} => input[r].token \in issued
    /\ pc[r] \in {"idle", "user", "load"} => patch[r] = NoPatch /\ prior[r] = None
    /\ pc[r] \in {"deliver", "restore"} => input[r].kind \in {"forgot", "resend"}
    /\ pc[r] \notin {"idle", "user"} /\ input[r].kind # "register" => account.status # "absent"
    /\ "status" \in DOMAIN patch[r] => patch[r].status # "absent"

\* The codes in the list, and those a save that will succeed puts there, have been given
\* and not used.
Unused(codes) == codes \subseteq given /\ \A k \in codes : uses[k] = 0

CodesInv ==
  /\ Unused(account.codes)
  /\ account.status = "absent" => account.codes = {}
  /\ \A k \in Code : uses[k] <= 1 /\ (uses[k] # 0 => k \in given)
  /\ \A r \in Req :
       /\ "codes" \in DOMAIN patch[r] => pc[r] \in {"challenge", "tx"}
       /\ "codes" \in DOMAIN patch[r] /\ ~outdated[r] => Unused(patch[r].codes)
       /\ pc[r] = "challenge" =>
            /\ input[r].kind \in {"login", "disable", "regenerate"}
            /\ input[r].code \in given
            /\ DOMAIN patch[r] = {"codes"} /\ input[r].code \notin patch[r].codes
            /\ ~outdated[r] => input[r].code \in account.codes

\* A token that a request has generated and not saved.
Unsaved(r, t) == At(r, "save", "forgot") /\ patch[r].resetToken = t

TokenInv ==
  /\ account.resetToken \in issued \cup {None}
  /\ used \subseteq issued
  /\ account.resetToken \in used => account.resetToken \in back
  /\ \A r \in Req :
       /\ input[r].kind = "forgot" => prior[r] \in issued \cup {None}
       /\ "resetToken" \in DOMAIN patch[r] =>
            \/ pc[r] = "tx" /\ patch[r].resetToken = None
            \/ At(r, "save", "forgot")
            \/ At(r, "restore", "forgot") /\ patch[r].resetToken = prior[r]
       /\ At(r, "save", "forgot") => "resetToken" \in DOMAIN patch[r]
       /\ At(r, "tx", "reset") /\ "password" \in DOMAIN patch[r] =>
            "resetToken" \in DOMAIN patch[r]
       /\ \A t \in Token : Unsaved(r, t) =>
            /\ t \in issued /\ t \notin used /\ account.resetToken # t
            /\ \A q \in Req : /\ input[q].kind = "forgot" => prior[q] # t
                              /\ At(q, "tx", "reset") => input[q].token # t
                              /\ q # r => ~Unsaved(q, t)

Inv == TypeOK /\ DOMAIN patch = Req /\ StepInv /\ CodesInv /\ TokenInv /\ ReuseNeedsARace

-----------------------------------------------------------------------------
(* Types, in two halves: the documents with their history, and the requests. *)

Steps == {"idle", "user", "load", "challenge", "save", "tx", "deliver", "restore"}

DocsOK ==
  /\ account \in Account /\ issued \subseteq Token /\ given \subseteq Code
  /\ outdated \in [Req -> BOOLEAN]
  /\ uses \in [Code -> Nat]
  /\ used \subseteq Token /\ back \subseteq Token
  /\ usedBefore \in [Req -> SUBSET Token]
  /\ asked \in Nat

RequestsOK ==
  /\ pc \in [Req -> Steps]
  /\ input \in [Req -> Input]
  /\ copy \in [Req -> Account]
  /\ DOMAIN patch = Req /\ \A r \in Req : IsPatch(patch[r])
  /\ prior \in [Req -> MaybeToken]

LEMMA Halves == TypeOK /\ DOMAIN patch = Req <=> DocsOK /\ RequestsOK
<1>1. ASSUME TypeOK, DOMAIN patch = Req PROVE DocsOK /\ RequestsOK
  <2>1. \A r \in Req : IsPatch(patch[r])
    BY <1>1, PatchFields DEF TypeOK
  <2> QED BY <1>1, <2>1 DEF TypeOK, DocsOK, RequestsOK, Steps
<1>2. ASSUME DocsOK, RequestsOK PROVE TypeOK /\ DOMAIN patch = Req
  <2>1. \A r \in Req : DOMAIN patch[r] \subseteq Fields /\ Merged(copy[r], patch[r]) \in Account
    BY <1>2, MergedType DEF RequestsOK, IsPatch
  <2> QED BY <1>2, <2>1 DEF TypeOK, DocsOK, RequestsOK, Steps
<1> QED BY <1>1, <1>2

LEMMA HalvesAgain ==
  ASSUME DocsOK', RequestsOK'
  PROVE  TypeOK' /\ DOMAIN patch' = Req
<1>1. (DocsOK /\ RequestsOK)' => (TypeOK /\ DOMAIN patch = Req)'
  BY Halves, PTL
<1> QED BY <1>1

\* The request r is the only one that moves.
Alone(r) ==
  \A q \in Req \ {r} :
    /\ pc'[q] = pc[q] /\ input'[q] = input[q] /\ copy'[q] = copy[q]
    /\ patch'[q] = patch[q] /\ prior'[q] = prior[q]

LEMMA EndStep ==
  ASSUME RequestsOK, NEW r \in Req, End(r)
  PROVE  /\ RequestsOK' /\ Alone(r)
         /\ pc'[r] = "idle" /\ input'[r] = NoInput /\ patch'[r] = NoPatch /\ prior'[r] = None
<1>1. DOMAIN patch' = Req /\ patch'[r] = NoPatch /\ \A q \in Req \ {r} : patch'[q] = patch[q]
  BY DEF RequestsOK, End
<1>2. \A q \in Req : IsPatch(patch'[q])
  BY <1>1, NothingInHand DEF RequestsOK
<1>3. /\ pc' \in [Req -> Steps] /\ pc'[r] = "idle"
      /\ \A q \in Req \ {r} : pc'[q] = pc[q]
  BY DEF RequestsOK, End, Steps
<1>4. /\ input' \in [Req -> Input] /\ input'[r] = NoInput
      /\ copy' \in [Req -> Account] /\ prior' \in [Req -> MaybeToken] /\ prior'[r] = None
      /\ \A q \in Req \ {r} : /\ input'[q] = input[q] /\ copy'[q] = copy[q]
                              /\ prior'[q] = prior[q]
  BY NothingInHand DEF RequestsOK, End, MaybeToken
<1> QED BY <1>1, <1>2, <1>3, <1>4 DEF RequestsOK, Alone

LEMMA AssignStep ==
  ASSUME RequestsOK, NEW r \in Req, NEW c \in Account, NEW p, IsPatch(p),
         NEW step \in Steps, Assign(r, c, p, step)
  PROVE  /\ RequestsOK' /\ Alone(r)
         /\ pc'[r] = step /\ input'[r] = input[r] /\ prior'[r] = prior[r]
         /\ patch'[r] = Modified(c, p)
<1>1. /\ DOMAIN patch' = Req /\ patch'[r] = Modified(c, p)
      /\ \A q \in Req \ {r} : patch'[q] = patch[q]
  BY DEF RequestsOK, Assign
<1>2. \A q \in Req : IsPatch(patch'[q])
  BY <1>1, ModifiedType DEF RequestsOK
<1>3. /\ pc' \in [Req -> Steps] /\ pc'[r] = step
      /\ \A q \in Req \ {r} : pc'[q] = pc[q]
  BY DEF RequestsOK, Assign
<1>4. /\ copy' \in [Req -> Account] /\ UNCHANGED <<input, prior>>
      /\ \A q \in Req \ {r} : copy'[q] = copy[q]
  BY DEF RequestsOK, Assign
<1> QED BY <1>1, <1>2, <1>3, <1>4 DEF RequestsOK, Alone

LEMMA LoadedType ==
  ASSUME DocsOK, RequestsOK, NEW r \in Req
  PROVE  Loaded(r) \in Account /\ \A f \in Fields \ {"status"} : Loaded(r)[f] = account[f]
<1>1. account \in Account /\ copy[r] \in Account
  BY DEF DocsOK, RequestsOK
<1> QED BY <1>1 DEF Loaded, Account, Fields

-----------------------------------------------------------------------------
(* What a handler does once it has loaded the documents: it ends, it makes  *)
(* a patch of one of three sorts, or it generates a token.                  *)

\* The patches of the handlers, by the step that saves them.
ChallengePatch(r, p) ==
  /\ input[r].kind \in {"login", "disable", "regenerate"}
  /\ input[r].code \in account.codes
  /\ DOMAIN p = {"codes"} /\ p.codes = account.codes \ {input[r].code}
SavePatch(r, p) ==
  /\ input[r].kind \notin {"forgot", "resend"}
  /\ DOMAIN p \subseteq {"attempts", "lockout"}
TxPatch(r, p) ==
  /\ "status" \in DOMAIN p => p.status # "absent"
  /\ "codes" \in DOMAIN p => p.codes \subseteq given' /\ p.codes \cap given = {}
  /\ "resetToken" \in DOMAIN p => p.resetToken = None
  /\ input[r].kind = "reset" => "resetToken" \in DOMAIN p

Challenges(r) ==
  \E p : IsPatch(p) /\ ChallengePatch(r, p) /\ Assign(r, Loaded(r), p, "challenge")
Proceeds(r, c) ==
  \E p : /\ IsPatch(p)
         /\ \/ SavePatch(r, p) /\ Assign(r, c, p, "save")
            \/ TxPatch(r, p) /\ Assign(r, c, p, "tx")

Handled(r) ==
  /\ pc[r] = "load"
  /\ given \subseteq given' /\ given' \subseteq Code
  /\ outdated' = [outdated EXCEPT ![r] = FALSE]
  /\ usedBefore' = [usedBefore EXCEPT ![r] = used]
  /\ UNCHANGED <<account, uses, used, back, asked>>
  /\ \/ End(r) /\ UNCHANGED issued
     \/ /\ Challenges(r) \/ Proceeds(r, Loaded(r))
        /\ UNCHANGED issued
        /\ input[r].kind = "reset" => account.resetToken = input[r].token
     \/ \/ input[r].kind = "forgot" /\ Send(r, "resetToken") /\ UNCHANGED given
        \/ input[r].kind = "resend" /\ Send(r, "verifyToken") /\ UNCHANGED given

\* The patches the handlers make of constants.
LEMMA ConstantPatches ==
  /\ IsPatch(Verified) /\ DOMAIN Verified = {"status", "verified", "verifyToken"}
  /\ IsPatch(Disabled) /\ DOMAIN Disabled = {"twoFactor", "pending", "codes"}
  /\ IsPatch([pending |-> TRUE])
  /\ IsPatch([attempts |-> 0, lockout |-> "none"])
  /\ IsPatch([password |-> "next", resetToken |-> None])
  /\ IsPatch([password |-> "next", resetToken |-> None, attempts |-> 0, lockout |-> "none"])
  /\ \A a \in Account : IsPatch(Failure(a)) /\ DOMAIN Failure(a) \subseteq {"attempts", "lockout"}
  /\ \A codes \in SUBSET Code : /\ IsPatch([codes |-> codes])
                              /\ IsPatch([twoFactor |-> TRUE, pending |-> FALSE, codes |-> codes])
<1>1. IsPatch(Verified) /\ DOMAIN Verified = {"status", "verified", "verifyToken"}
  <2>1. DOMAIN Verified = {"status", "verified", "verifyToken"}
    BY DEF Verified
  <2>2. Verified.status = "active" /\ Verified.verified \in BOOLEAN /\ Verified.verifyToken = None
    BY DEF Verified
  <2>3. IsPatch(Verified)
    BY <2>1, <2>2 DEF IsPatch, Fields, Values, MaybeToken
  <2> QED BY <2>1, <2>3
<1>2. IsPatch(Disabled) /\ DOMAIN Disabled = {"twoFactor", "pending", "codes"}
  <2>1. DOMAIN Disabled = {"twoFactor", "pending", "codes"}
    BY DEF Disabled
  <2>2. Disabled.twoFactor \in BOOLEAN /\ Disabled.pending \in BOOLEAN /\ Disabled.codes = {}
    BY DEF Disabled
  <2>3. IsPatch(Disabled)
    BY <2>1, <2>2 DEF IsPatch, Fields, Values
  <2> QED BY <2>1, <2>3
<1>3. IsPatch([pending |-> TRUE]) /\ IsPatch([attempts |-> 0, lockout |-> "none"])
  <2>1. DOMAIN [pending |-> TRUE] = {"pending"} /\ [pending |-> TRUE].pending \in BOOLEAN
    OBVIOUS
  <2>2. \A p : DOMAIN p = {"pending"} /\ p.pending \in BOOLEAN => IsPatch(p)
    BY DEF IsPatch, Fields, Values
  <2>3. IsPatch([attempts |-> 0, lockout |-> "none"])
    BY DEF IsPatch, Fields, Values
  <2> QED BY <2>1, <2>2, <2>3
<1>4. /\ IsPatch([password |-> "next", resetToken |-> None])
      /\ IsPatch([password |-> "next", resetToken |-> None, attempts |-> 0, lockout |-> "none"])
  BY DEF IsPatch, Fields, Values, MaybeToken
<1>5. ASSUME NEW a \in Account
      PROVE  IsPatch(Failure(a)) /\ DOMAIN Failure(a) \subseteq {"attempts", "lockout"}
  <2>1. a.attempts \in 0 .. (MAX_FAILED_LOGIN_ATTEMPTS - 1)
    BY DEF Account
  <2>2. CASE a.attempts + 1 >= MAX_FAILED_LOGIN_ATTEMPTS
    BY <2>2 DEF IsPatch, Failure, Fields, Values
  <2>3. CASE ~(a.attempts + 1 >= MAX_FAILED_LOGIN_ATTEMPTS)
    <3>1. a.attempts + 1 \in 0 .. (MAX_FAILED_LOGIN_ATTEMPTS - 1)
      BY <2>1, <2>3
    <3> QED BY <2>3, <3>1 DEF IsPatch, Failure, Fields, Values
  <2> QED BY <2>2, <2>3
<1>6. ASSUME NEW codes \in SUBSET Code
      PROVE  /\ IsPatch([codes |-> codes])
             /\ IsPatch([twoFactor |-> TRUE, pending |-> FALSE, codes |-> codes])
  <2> DEFINE p == [twoFactor |-> TRUE, pending |-> FALSE, codes |-> codes]
  <2>1. DOMAIN p = {"twoFactor", "pending", "codes"}
    OBVIOUS
  <2>2. p.twoFactor \in BOOLEAN /\ p.pending \in BOOLEAN /\ p.codes = codes
    OBVIOUS
  <2>3. \A q : /\ DOMAIN q = {"twoFactor", "pending", "codes"}
              /\ q.twoFactor \in BOOLEAN /\ q.pending \in BOOLEAN /\ q.codes = codes
           => IsPatch(q)
    BY DEF IsPatch, Fields, Values
  <2>4. IsPatch(p)
    <3> HIDE DEF p
    <3> QED BY <2>1, <2>2, <2>3
  <2>5. IsPatch([codes |-> codes])
    BY DEF IsPatch, Fields, Values
  <2> QED BY <2>4, <2>5
<1> QED BY <1>1, <1>2, <1>3, <1>4, <1>5, <1>6

LEMMA ChallengeMakesPatch ==
  ASSUME DocsOK, RequestsOK, NEW r \in Req, Challenge(r),
         input[r].kind \in {"login", "disable", "regenerate"}, input[r].code \in account.codes
  PROVE  Challenges(r)
<1> DEFINE p == [codes |-> account.codes \ {input[r].code}]
<1>1. account.codes \ {input[r].code} \in SUBSET Code
  BY DEF DocsOK, Account
<1>2. IsPatch(p)
  BY <1>1, ConstantPatches
<1>3. ChallengePatch(r, p)
  BY DEF ChallengePatch
<1>4. Assign(r, Loaded(r), p, "challenge")
  BY DEF Challenge
<1> QED BY <1>2, <1>3, <1>4 DEF Challenges

\* Codes that are generated have never been given.
LEMMA RegenerateMakesPatch ==
  ASSUME DocsOK, NEW r \in Req, NEW c, Regenerate(r, c), input[r].kind = "regenerate"
  PROVE  /\ Proceeds(r, c) /\ given \subseteq given' /\ given' \subseteq Code
<1>1. PICK batch \in Batches : /\ batch \cap given = {} /\ given' = given \cup batch
                             /\ Assign(r, c, [codes |-> batch], "tx")
  BY DEF Regenerate
<1>2. batch \in SUBSET Code /\ IsPatch([codes |-> batch])
  BY ConstantPatches
<1>3. TxPatch(r, [codes |-> batch])
  BY <1>1 DEF TxPatch
<1> QED BY <1>1, <1>2, <1>3 DEF Proceeds, DocsOK

\* The count of failures starts again.
LEMMA ResetMakesPatch ==
  ASSUME NEW r \in Req, NEW c, Reset(r, c), input[r].kind = "login"
  PROVE  End(r) \/ Proceeds(r, c)
<1>1. CASE Assign(r, c, [attempts |-> 0, lockout |-> "none"], "save")
  <2>1. IsPatch([attempts |-> 0, lockout |-> "none"])
    BY ConstantPatches
  <2>2. SavePatch(r, [attempts |-> 0, lockout |-> "none"])
    BY DEF SavePatch
  <2> QED BY <1>1, <2>1, <2>2 DEF Proceeds
<1> QED BY <1>1 DEF Reset

LEMMA HandlersHandle ==
  ASSUME DocsOK, RequestsOK, NEW r \in Req,
         \/ VerifyEmail(r) \/ ResendVerification(r) \/ ForgotPassword(r) \/ ResetPassword(r)
         \/ ChangePassword(r) \/ LoginFails(r) \/ Login(r) \/ SetupTwoFactor(r)
         \/ ConfirmTwoFactor(r) \/ DisableTwoFactor(r) \/ RegenerateRecoveryCodes(r)
  PROVE  Handled(r)
<1>0. account \in Account /\ given \subseteq Code
  BY DEF DocsOK
<1>1. CASE VerifyEmail(r)
  <2> DEFINE p == Verified
  <2>1. IsPatch(p)
    BY ConstantPatches
  <2>2. TxPatch(r, p)
    BY <1>1 DEF VerifyEmail, LoadSecurity, At, TxPatch, Verified
  <2>3. Assign(r, Loaded(r), p, "tx") => Proceeds(r, Loaded(r))
    <3> HIDE DEF p
    <3> QED BY <2>1, <2>2 DEF Proceeds
  <2> QED BY <1>1, <2>3 DEF VerifyEmail, Handled, LoadSecurity, At, DocsOK
<1>2. CASE ResendVerification(r)
  BY <1>0, <1>2 DEF ResendVerification, Handled, LoadSecurity, At
<1>3. CASE ForgotPassword(r)
  BY <1>0, <1>3 DEF ForgotPassword, Handled, LoadSecurity, At
<1>4. CASE ResetPassword(r)
  <2> DEFINE p == [password |-> "next", resetToken |-> None, attempts |-> 0, lockout |-> "none"]
  <2>1. IsPatch(p)
    BY ConstantPatches
  <2>2. TxPatch(r, p)
    BY <1>4 DEF ResetPassword, LoadSecurity, At, TxPatch
  <2>3. Assign(r, Loaded(r), p, "tx") => Proceeds(r, Loaded(r))
    <3> HIDE DEF p
    <3> QED BY <2>1, <2>2 DEF Proceeds
  <2> QED BY <1>4, <2>3 DEF ResetPassword, Handled, LoadSecurity, At, DocsOK
<1>5. CASE ChangePassword(r)
  <2> DEFINE p == [password |-> "next", resetToken |-> None]
  <2>1. IsPatch(p)
    BY ConstantPatches
  <2>2. TxPatch(r, p)
    BY <1>5 DEF ChangePassword, LoadSecurity, At, TxPatch
  <2>3. Assign(r, Loaded(r), p, "tx") => Proceeds(r, Loaded(r))
    <3> HIDE DEF p
    <3> QED BY <2>1, <2>2 DEF Proceeds
  <2> QED BY <1>5, <2>3 DEF ChangePassword, Handled, LoadSecurity, At, DocsOK
<1>6. CASE LoginFails(r)
  <2> DEFINE p == Failure(account)
  <2>1. IsPatch(p)
    BY ConstantPatches, <1>0
  <2>2. SavePatch(r, p)
    BY <1>6, ConstantPatches, <1>0 DEF LoginFails, LoadSecurity, At, SavePatch
  <2>3. Assign(r, Loaded(r), p, "save") => Proceeds(r, Loaded(r))
    <3> HIDE DEF p
    <3> QED BY <2>1, <2>2 DEF Proceeds
  <2> QED BY <1>6, <2>3 DEF LoginFails, Handled, LoadSecurity, At, DocsOK
<1>7. CASE Login(r)
  <2>1. input[r].kind = "login"
    BY <1>7 DEF Login, LoadSecurity, At
  <2>2. \/ End(r) \/ Reset(r, Loaded(r))
        \/ Challenge(r) /\ input[r].code \in account.codes
    BY <1>7 DEF Login
  <2>3. End(r) \/ Challenges(r) \/ Proceeds(r, Loaded(r))
    BY <2>1, <2>2, ResetMakesPatch, ChallengeMakesPatch
  <2> QED BY <1>0, <1>7, <2>1, <2>3 DEF Login, Handled, LoadSecurity, At
<1>8. CASE SetupTwoFactor(r)
  <2> DEFINE p == [pending |-> TRUE]
  <2>1. IsPatch(p)
    BY ConstantPatches
  <2>2. TxPatch(r, p)
    BY <1>8 DEF SetupTwoFactor, LoadSecurity, At, TxPatch
  <2>3. Assign(r, Loaded(r), p, "tx") => Proceeds(r, Loaded(r))
    <3> HIDE DEF p
    <3> QED BY <2>1, <2>2 DEF Proceeds
  <2> QED BY <1>8, <2>3 DEF SetupTwoFactor, Handled, LoadSecurity, At, DocsOK
<1>9. CASE ConfirmTwoFactor(r)
  <2>1. CASE End(r) /\ UNCHANGED given
    BY <1>0, <1>9, <2>1 DEF ConfirmTwoFactor, Handled, LoadSecurity, At
  <2>2. ASSUME NEW batch \in Batches, batch \cap given = {}, given' = given \cup batch,
               Assign(r, Loaded(r), [twoFactor |-> TRUE, pending |-> FALSE, codes |-> batch], "tx")
        PROVE  Handled(r)
    <3> DEFINE p == [twoFactor |-> TRUE, pending |-> FALSE, codes |-> batch]
    <3>1. batch \in SUBSET Code /\ IsPatch(p)
      BY ConstantPatches
    <3>2. DOMAIN p = {"twoFactor", "pending", "codes"} /\ p.codes = batch
      OBVIOUS
    <3>3. Assign(r, Loaded(r), p, "tx")
      BY <2>2
    <3> HIDE DEF p
    <3>4. input[r].kind = "confirm"
      BY <1>9 DEF ConfirmTwoFactor, LoadSecurity, At
    <3>5. TxPatch(r, p)
      BY <2>2, <3>2, <3>4 DEF TxPatch
    <3>6. Proceeds(r, Loaded(r))
      BY <3>1, <3>3, <3>5 DEF Proceeds
    <3> QED BY <1>0, <1>9, <2>2, <3>1, <3>4, <3>6 DEF ConfirmTwoFactor, Handled, LoadSecurity, At
  <2> QED BY <1>9, <2>1, <2>2 DEF ConfirmTwoFactor
<1>10. CASE DisableTwoFactor(r)
  <2>1. input[r].kind = "disable"
    BY <1>10 DEF DisableTwoFactor, LoadSecurity, At
  <2>2. TxPatch(r, Disabled)
    BY <2>1, ConstantPatches DEF TxPatch, Disabled
  <2>3. Assign(r, Loaded(r), Disabled, "tx") => Proceeds(r, Loaded(r))
    BY <2>2, ConstantPatches DEF Proceeds
  <2>4. \/ End(r) \/ Assign(r, Loaded(r), Disabled, "tx")
        \/ Challenge(r) /\ input[r].code \in account.codes
    BY <1>10 DEF DisableTwoFactor
  <2>5. End(r) \/ Challenges(r) \/ Proceeds(r, Loaded(r))
    BY <2>1, <2>3, <2>4, ChallengeMakesPatch
  <2> QED BY <1>0, <1>10, <2>1, <2>5 DEF DisableTwoFactor, Handled, LoadSecurity, At
<1>11. CASE RegenerateRecoveryCodes(r)
  <2>1. input[r].kind = "regenerate"
    BY <1>11 DEF RegenerateRecoveryCodes, LoadSecurity, At
  <2>2. \/ End(r) /\ UNCHANGED given
        \/ Regenerate(r, Loaded(r))
        \/ Challenge(r) /\ input[r].code \in account.codes /\ UNCHANGED given
    BY <1>11 DEF RegenerateRecoveryCodes
  <2>3. /\ End(r) \/ Challenges(r) \/ Proceeds(r, Loaded(r))
        /\ given \subseteq given' /\ given' \subseteq Code
    BY <1>0, <2>1, <2>2, RegenerateMakesPatch, ChallengeMakesPatch
  <2> QED BY <1>11, <2>1, <2>3 DEF RegenerateRecoveryCodes, Handled, LoadSecurity, At
<1> QED BY <1>1, <1>2, <1>3, <1>4, <1>5, <1>6, <1>7, <1>8, <1>9, <1>10, <1>11

\* What is left of a patch when it is made of a copy c.
LEMMA ProceedsStep ==
  ASSUME RequestsOK, NEW r \in Req, NEW c \in Account, Proceeds(r, c)
  PROVE  /\ RequestsOK' /\ Alone(r) /\ input'[r] = input[r] /\ prior'[r] = prior[r]
         /\ \/ /\ pc'[r] = "save"
               /\ input[r].kind \notin {"forgot", "resend"}
               /\ DOMAIN patch'[r] \subseteq {"attempts", "lockout"}
            \/ /\ pc'[r] = "tx"
               /\ "status" \in DOMAIN patch'[r] => patch'[r].status # "absent"
               /\ "codes" \in DOMAIN patch'[r] =>
                    patch'[r].codes \subseteq given' /\ patch'[r].codes \cap given = {}
               /\ "resetToken" \in DOMAIN patch'[r] => patch'[r].resetToken = None
               /\ input[r].kind = "reset" /\ c.resetToken # None =>
                    "resetToken" \in DOMAIN patch'[r]
<1>0. {"save", "tx"} \subseteq Steps
  BY DEF Steps
<1>1. ASSUME NEW p, IsPatch(p), SavePatch(r, p), Assign(r, c, p, "save")
      PROVE  /\ RequestsOK' /\ Alone(r) /\ input'[r] = input[r] /\ prior'[r] = prior[r]
             /\ pc'[r] = "save"
             /\ input[r].kind \notin {"forgot", "resend"}
             /\ DOMAIN patch'[r] \subseteq {"attempts", "lockout"}
  BY <1>0, <1>1, AssignStep, ModifiedFields DEF SavePatch
<1>2. ASSUME NEW p, IsPatch(p), TxPatch(r, p), Assign(r, c, p, "tx")
      PROVE  /\ RequestsOK' /\ Alone(r) /\ input'[r] = input[r] /\ prior'[r] = prior[r]
             /\ pc'[r] = "tx"
             /\ "status" \in DOMAIN patch'[r] => patch'[r].status # "absent"
             /\ "codes" \in DOMAIN patch'[r] =>
                  patch'[r].codes \subseteq given' /\ patch'[r].codes \cap given = {}
             /\ "resetToken" \in DOMAIN patch'[r] => patch'[r].resetToken = None
             /\ input[r].kind = "reset" /\ c.resetToken # None =>
                  "resetToken" \in DOMAIN patch'[r]
  <2>1. /\ RequestsOK' /\ Alone(r) /\ input'[r] = input[r] /\ prior'[r] = prior[r]
        /\ pc'[r] = "tx" /\ patch'[r] = Modified(c, p)
    BY <1>0, <1>2, AssignStep
  <2> QED BY <1>2, <2>1, ModifiedFields DEF TxPatch
<1> QED BY <1>1, <1>2 DEF Proceeds

LEMMA ChallengesStep ==
  ASSUME DocsOK, RequestsOK, NEW r \in Req, Challenges(r)
  PROVE  /\ RequestsOK' /\ Alone(r) /\ input'[r] = input[r] /\ prior'[r] = prior[r]
         /\ pc'[r] = "challenge"
         /\ input[r].kind \in {"login", "disable", "regenerate"}
         /\ input[r].code \in account.codes
         /\ DOMAIN patch'[r] = {"codes"}
         /\ patch'[r].codes = account.codes \ {input[r].code}
<1>1. PICK p : /\ IsPatch(p) /\ ChallengePatch(r, p) /\ Assign(r, Loaded(r), p, "challenge")
  BY DEF Challenges
<1>2. Loaded(r) \in Account /\ Loaded(r).codes = account.codes
  BY LoadedType DEF Fields
<1>3. /\ RequestsOK' /\ Alone(r) /\ input'[r] = input[r] /\ prior'[r] = prior[r]
      /\ pc'[r] = "challenge" /\ patch'[r] = Modified(Loaded(r), p)
  BY <1>1, <1>2, AssignStep DEF Steps
<1>4. input[r].code \in account.codes /\ p.codes = account.codes \ {input[r].code}
  BY <1>1 DEF ChallengePatch
<1>5. p["codes"] # Loaded(r)["codes"]
  BY <1>2, <1>4
<1>6. DOMAIN p = {"codes"}
  BY <1>1 DEF ChallengePatch
<1>7. DOMAIN patch'[r] = {"codes"} /\ patch'[r]["codes"] = p["codes"]
  <2>1. "codes" \in DOMAIN Modified(Loaded(r), p)
    BY <1>5, <1>6, ModifiedFields
  <2>2. DOMAIN Modified(Loaded(r), p) \subseteq {"codes"}
    BY <1>6, ModifiedFields
  <2>3. Modified(Loaded(r), p)["codes"] = p["codes"]
    BY <2>1, ModifiedFields
  <2>4. DOMAIN Modified(Loaded(r), p) = {"codes"}
    BY <2>1, <2>2
  <2>5. patch'[r] = Modified(Loaded(r), p)
    BY <1>3
  <2> QED BY <2>3, <2>4, <2>5
<1> QED BY <1>1, <1>3, <1>4, <1>7 DEF ChallengePatch

LEMMA SendStep ==
  ASSUME DocsOK, RequestsOK, NEW r \in Req, NEW field \in {"verifyToken", "resetToken"},
         Send(r, field)
  PROVE  /\ RequestsOK' /\ Alone(r) /\ input'[r] = input[r]
         /\ pc'[r] = "save" /\ prior'[r] = account[field]
         /\ DOMAIN patch'[r] = {field} /\ patch'[r][field] \in Token \ issued
         /\ issued' = issued \cup {patch'[r][field]}
<1>1. PICK t \in Token \ issued :
        /\ issued' = issued \cup {t}
        /\ copy' = [copy EXCEPT ![r] = Loaded(r)]
        /\ patch' = [patch EXCEPT ![r] = [f \in {field} |-> t]]
        /\ prior' = [prior EXCEPT ![r] = account[field]]
        /\ pc' = [pc EXCEPT ![r] = "save"]
        /\ UNCHANGED input
  BY DEF Send
<1>2. Loaded(r) \in Account /\ account[field] \in MaybeToken
  BY LoadedType DEF DocsOK, Account
<1>3. IsPatch([f \in {field} |-> t])
  BY DEF IsPatch, Fields, Values, MaybeToken
<1>4. /\ DOMAIN patch' = Req /\ patch'[r] = [f \in {field} |-> t]
      /\ \A q \in Req \ {r} : patch'[q] = patch[q]
  BY <1>1 DEF RequestsOK
<1>5. \A q \in Req : IsPatch(patch'[q])
  BY <1>3, <1>4 DEF RequestsOK
<1>6. /\ pc' \in [Req -> Steps] /\ copy' \in [Req -> Account] /\ prior' \in [Req -> MaybeToken]
      /\ pc'[r] = "save" /\ prior'[r] = account[field]
      /\ \A q \in Req \ {r} : pc'[q] = pc[q] /\ copy'[q] = copy[q] /\ prior'[q] = prior[q]
  BY <1>1, <1>2 DEF RequestsOK, Steps
<1> QED BY <1>1, <1>4, <1>5, <1>6 DEF RequestsOK, Alone

-----------------------------------------------------------------------------
(* The invariant holds again after a step of each sort.                     *)

\* A request that ends leaves the documents as they are; r had loaded nothing yet or what
\* it had loaded is forgotten.
Ends(r) ==
  /\ End(r) /\ UNCHANGED <<account, issued, uses, used, back>>
  /\ given \subseteq given'
  /\ \A q \in Req \ {r} : outdated'[q] = outdated[q] /\ usedBefore'[q] = usedBefore[q]

LEMMA EndsKeeps ==
  ASSUME Inv, NEW r \in Req, Ends(r), DocsOK'
  PROVE  Inv'
<1>0. DocsOK /\ RequestsOK
  BY Halves DEF Inv
<1>1. /\ RequestsOK' /\ Alone(r)
      /\ pc'[r] = "idle" /\ input'[r] = NoInput /\ patch'[r] = NoPatch /\ prior'[r] = None
  BY <1>0, EndStep DEF Ends
<1>2. input'[r].kind = "none" /\ DOMAIN patch'[r] = {}
  BY <1>1, NothingInHand DEF NoInput
<1>3. TypeOK' /\ DOMAIN patch' = Req
  BY <1>1, HalvesAgain
<1>4. StepInv'
  BY <1>1, <1>2 DEF Inv, StepInv, Alone, Ends
<1>5. CodesInv'
  BY <1>1, <1>2 DEF Inv, CodesInv, Unused, Alone, Ends
<1>6. TokenInv'
  BY <1>1, <1>2 DEF Inv, TokenInv, Unsaved, At, Alone, Ends
<1>7. ReuseNeedsARace'
  BY <1>1, <1>2 DEF Inv, ReuseNeedsARace, At, Alone, Ends
<1> QED BY <1>3, <1>4, <1>5, <1>6, <1>7 DEF Inv

LEMMA LapseKeeps ==
  ASSUME Inv, Lapse
  PROVE  Inv'
<1>0. DocsOK /\ RequestsOK
  BY Halves DEF Inv
<1>1. account' \in Account /\ \A f \in Fields \ {"lockout"} : account'[f] = account[f]
  BY <1>0 DEF Lapse, DocsOK, Account, Fields
<1>2. /\ account'.codes = account.codes /\ account'.status = account.status
      /\ account'.resetToken = account.resetToken
  BY <1>1 DEF Fields
<1>3. DocsOK' /\ RequestsOK'
  BY <1>0, <1>1 DEF Lapse, DocsOK, RequestsOK, requests, history
<1>4. TypeOK' /\ DOMAIN patch' = Req
  BY <1>3, HalvesAgain
<1>5. StepInv'
  BY <1>2 DEF Inv, StepInv, Lapse, requests
<1>6. CodesInv'
  BY <1>2 DEF Inv, CodesInv, Unused, Lapse, requests, history
<1>7. TokenInv'
  BY <1>2 DEF Inv, TokenInv, Unsaved, At, Lapse, requests, history
<1>8. ReuseNeedsARace'
  BY DEF Inv, ReuseNeedsARace, At, Lapse, requests, history
<1> QED BY <1>4, <1>5, <1>6, <1>7, <1>8 DEF Inv

\* A request arrives with a token or a code that someone has been given.
LEMMA AskKeeps ==
  ASSUME Inv, NEW r \in Req, NEW request \in Input, Ask(r, request),
         request.kind # "none",
         request.kind \in {"verify", "reset"} => request.token \in issued
  PROVE  Inv'
<1>0. DocsOK /\ RequestsOK
  BY Halves DEF Inv
<1>1. /\ RequestsOK' /\ Alone(r) /\ pc[r] = "idle" /\ pc'[r] = "user"
      /\ input'[r] = request /\ patch'[r] = patch[r] /\ prior'[r] = prior[r]
  BY <1>0 DEF Ask, RequestsOK, Alone, Steps
<1>2. DocsOK'
  BY <1>0 DEF Ask, DocsOK, history
<1>3. TypeOK' /\ DOMAIN patch' = Req
  BY <1>1, <1>2, HalvesAgain
<1>4. patch[r] = NoPatch /\ prior[r] = None /\ DOMAIN patch[r] = {}
  BY <1>1, NothingInHand DEF Inv, StepInv
<1>5. StepInv'
  BY <1>1, <1>4 DEF Inv, StepInv, Alone, Ask
<1>6. CodesInv'
  BY <1>1, <1>4 DEF Inv, CodesInv, Unused, Alone, Ask, history
<1>7. TokenInv'
  BY <1>1, <1>4 DEF Inv, TokenInv, Unsaved, At, Alone, Ask, history
<1>8. ReuseNeedsARace'
  BY <1>1 DEF Inv, ReuseNeedsARace, At, Alone, Ask, history
<1> QED BY <1>3, <1>5, <1>6, <1>7, <1>8 DEF Inv

LEMMA LoadUserKeeps ==
  ASSUME Inv, NEW r \in Req, LoadUser(r)
  PROVE  Inv'
<1>0. DocsOK /\ RequestsOK
  BY Halves DEF Inv
<1>1. DocsOK'
  BY <1>0 DEF LoadUser, DocsOK, history
<1>2. CASE End(r)
  <2>1. Ends(r)
    BY <1>2 DEF LoadUser, Ends, history
  <2> QED BY <1>1, <2>1, EndsKeeps
<1>3. CASE ~End(r)
  <2>1. /\ (account.status = "absent") = (input[r].kind = "register")
        /\ copy' = [copy EXCEPT ![r].status = account.status]
        /\ pc' = [pc EXCEPT ![r] = IF input[r].kind = "register" THEN "tx" ELSE "load"]
        /\ pc[r] = "user"
        /\ UNCHANGED <<input, patch, prior, account, issued, given, outdated, history>>
    BY <1>0, <1>3 DEF LoadUser, DocsOK, RequestsOK, Account, Input
  <2>2. copy' \in [Req -> Account] /\ \A q \in Req \ {r} : copy'[q] = copy[q]
    <3>1. account.status \in {"absent", "pending_verification", "active"}
      BY <1>0 DEF DocsOK, Account
    <3>2. [copy[r] EXCEPT !.status = account.status] \in Account
      BY <1>0, <3>1 DEF RequestsOK, Account
    <3> QED BY <1>0, <2>1, <3>2 DEF RequestsOK
  <2>3. /\ RequestsOK' /\ Alone(r)
        /\ pc'[r] = IF input[r].kind = "register" THEN "tx" ELSE "load"
    BY <1>0, <2>1, <2>2 DEF RequestsOK, Alone, Steps
  <2>4. TypeOK' /\ DOMAIN patch' = Req
    BY <1>1, <2>3, HalvesAgain
  <2>5. patch[r] = NoPatch /\ prior[r] = None /\ DOMAIN patch[r] = {}
    BY <2>1, NothingInHand DEF Inv, StepInv
  <2>6. StepInv'
    BY <2>1, <2>3, <2>5 DEF Inv, StepInv, Alone
  <2>7. CodesInv'
    BY <2>1, <2>3, <2>5 DEF Inv, CodesInv, Unused, Alone, history
  <2>8. TokenInv'
    BY <2>1, <2>3, <2>5 DEF Inv, TokenInv, Unsaved, At, Alone, history
  <2>9. ReuseNeedsARace'
    BY <2>1, <2>3 DEF Inv, ReuseNeedsARace, At, Alone, history
  <2> QED BY <2>4, <2>6, <2>7, <2>8, <2>9 DEF Inv
<1> QED BY <1>2, <1>3

LEMMA RegisterKeeps ==
  ASSUME Inv, NEW r \in Req, Register(r)
  PROVE  Inv'
<1>0. DocsOK /\ RequestsOK
  BY Halves DEF Inv
<1>1. CASE UNCHANGED <<account, issued>>
  <2>1. Ends(r)
    BY <1>1 DEF Register, Ends, history
  <2>2. DocsOK'
    BY <1>0, <1>1 DEF Register, DocsOK, history
  <2> QED BY <2>1, <2>2, EndsKeeps
<1>2. ASSUME account.status = "absent",
             NEW t \in Token \ issued, issued' = issued \cup {t},
             account' = [NoAccount EXCEPT !.status = "pending_verification", !.verifyToken = t]
      PROVE  Inv'
  <2>1. /\ account' \in Account /\ account'.codes = {} /\ account'.resetToken = None
        /\ account'.status # "absent"
    <3>1. NoAccount \in Account
      BY NothingInHand
    <3>2. t \in MaybeToken
      BY DEF MaybeToken
    <3>3. account' \in Account
      BY <1>2, <3>1, <3>2 DEF Account
    <3> QED BY <1>2, <3>3 DEF NoAccount
  <2>2. DocsOK'
    BY <1>0, <1>2, <2>1 DEF Register, DocsOK, history
  <2>3. /\ RequestsOK' /\ Alone(r)
        /\ pc'[r] = "idle" /\ input'[r] = NoInput /\ patch'[r] = NoPatch /\ prior'[r] = None
    BY <1>0, EndStep DEF Register
  <2>4. input'[r].kind = "none" /\ DOMAIN patch'[r] = {}
    BY <2>3, NothingInHand DEF NoInput
  <2>5. TypeOK' /\ DOMAIN patch' = Req
    BY <2>2, <2>3, HalvesAgain
  <2>6. StepInv'
    BY <1>2, <2>1, <2>3, <2>4 DEF Inv, StepInv, Alone
  <2>7. CodesInv'
    <3>1. \A q \in Req \ {r} : pc[q] # "challenge"
      BY <1>2 DEF Inv, CodesInv, StepInv
    <3>2. UNCHANGED <<given, outdated, uses>>
      BY DEF Register, history
    <3> QED BY <2>1, <2>3, <2>4, <3>1, <3>2 DEF Inv, CodesInv, Unused, Alone
  <2>8. TokenInv'
    <3>1. UNCHANGED <<used, back>> /\ issued \subseteq issued'
      BY <1>2 DEF Register, history
    <3>2. account'.resetToken \notin Token
      BY <2>1
    <3>3. used \subseteq Token
      BY <1>0 DEF DocsOK
    <3> QED BY <2>1, <2>3, <2>4, <3>1, <3>2, <3>3 DEF Inv, TokenInv, Unsaved, At, Alone
  <2>9. ReuseNeedsARace'
    BY <2>3, <2>4 DEF Inv, ReuseNeedsARace, At, Alone, Register, history
  <2> QED BY <2>5, <2>6, <2>7, <2>8, <2>9 DEF Inv
<1> QED BY <1>1, <1>2 DEF Register

\* After its handler a request is at a save with what it has decided.
LEMMA HandledKeeps ==
  ASSUME Inv, NEW r \in Req, Handled(r)
  PROVE  Inv'
<1>0. DocsOK /\ RequestsOK
  BY Halves DEF Inv
<1>1. /\ pc[r] = "load" /\ given \subseteq given' /\ given' \subseteq Code
      /\ outdated' = [outdated EXCEPT ![r] = FALSE]
      /\ usedBefore' = [usedBefore EXCEPT ![r] = used]
      /\ UNCHANGED <<account, uses, used, back, asked>>
  BY DEF Handled
<1>2. /\ outdated' \in [Req -> BOOLEAN] /\ ~outdated'[r]
      /\ usedBefore' \in [Req -> SUBSET Token] /\ usedBefore'[r] = used
      /\ \A q \in Req \ {r} : outdated'[q] = outdated[q] /\ usedBefore'[q] = usedBefore[q]
  BY <1>0, <1>1 DEF DocsOK
<1>3. issued' \subseteq Token => DocsOK'
  BY <1>0, <1>1, <1>2 DEF DocsOK
<1>4. patch[r] = NoPatch /\ prior[r] = None /\ input[r].kind # "none"
  BY <1>1 DEF Inv, StepInv
<1>5. CASE End(r) /\ UNCHANGED issued
  <2>1. Ends(r)
    BY <1>1, <1>2, <1>5 DEF Ends
  <2>2. DocsOK'
    BY <1>0, <1>3, <1>5 DEF DocsOK
  <2> QED BY <2>1, <2>2, EndsKeeps
<1>6. CASE Challenges(r) /\ UNCHANGED issued
  <2>1. DocsOK'
    BY <1>0, <1>3, <1>6 DEF DocsOK
  <2>2. /\ RequestsOK' /\ Alone(r) /\ input'[r] = input[r] /\ prior'[r] = prior[r]
        /\ pc'[r] = "challenge"
        /\ input[r].kind \in {"login", "disable", "regenerate"}
        /\ input[r].code \in account.codes
        /\ DOMAIN patch'[r] = {"codes"}
        /\ patch'[r].codes = account.codes \ {input[r].code}
    BY <1>0, <1>6, ChallengesStep
  <2>3. TypeOK' /\ DOMAIN patch' = Req
    BY <2>1, <2>2, HalvesAgain
  <2>4. StepInv'
    BY <1>1, <1>4, <1>6, <2>2 DEF Inv, StepInv, Alone
  <2>5. CodesInv'
    BY <1>1, <1>2, <2>2 DEF Inv, CodesInv, Unused, Alone
  <2>6. TokenInv'
    BY <1>1, <1>6, <2>2 DEF Inv, TokenInv, Unsaved, At, Alone
  <2>7. ReuseNeedsARace'
    BY <1>1, <1>2, <2>2 DEF Inv, ReuseNeedsARace, At, Alone
  <2> QED BY <2>3, <2>4, <2>5, <2>6, <2>7 DEF Inv
<1>7. CASE /\ Proceeds(r, Loaded(r)) /\ UNCHANGED issued
           /\ input[r].kind = "reset" => account.resetToken = input[r].token
  <2>1. DocsOK'
    BY <1>0, <1>3, <1>7 DEF DocsOK
  <2>2. Loaded(r) \in Account /\ Loaded(r).resetToken = account.resetToken
    BY <1>0, LoadedType DEF Fields
  <2>3. input[r].kind = "reset" => account.resetToken \in Token
    BY <1>0, <1>7 DEF Inv, StepInv, DocsOK
  <2>4. /\ RequestsOK' /\ Alone(r) /\ input'[r] = input[r] /\ prior'[r] = prior[r]
        /\ \/ /\ pc'[r] = "save"
              /\ input[r].kind \notin {"forgot", "resend"}
              /\ DOMAIN patch'[r] \subseteq {"attempts", "lockout"}
           \/ /\ pc'[r] = "tx"
              /\ "status" \in DOMAIN patch'[r] => patch'[r].status # "absent"
              /\ "codes" \in DOMAIN patch'[r] =>
                   patch'[r].codes \subseteq given' /\ patch'[r].codes \cap given = {}
              /\ "resetToken" \in DOMAIN patch'[r] => patch'[r].resetToken = None
              /\ input[r].kind = "reset" => "resetToken" \in DOMAIN patch'[r]
    BY <1>0, <1>7, <2>2, <2>3, ProceedsStep
  <2>5. TypeOK' /\ DOMAIN patch' = Req
    BY <2>1, <2>4, HalvesAgain
  <2>6. StepInv'
    BY <1>1, <1>4, <1>7, <2>4 DEF Inv, StepInv, Alone
  <2>7. CodesInv'
    <3>1. \A k \in Code : k \notin given => uses[k] = 0
      BY DEF Inv, CodesInv
    <3>2. "codes" \in DOMAIN patch'[r] => pc'[r] = "tx" /\ Unused(patch[r].codes)'
      BY <1>1, <2>4, <3>1 DEF Unused
    <3> QED BY <1>1, <1>2, <2>4, <3>2 DEF Inv, CodesInv, Unused, Alone
  <2>8. TokenInv'
    BY <1>1, <1>7, <2>4 DEF Inv, TokenInv, Unsaved, At, Alone
  <2>9. ReuseNeedsARace'
    BY <1>1, <1>2, <1>7, <2>4 DEF Inv, TokenInv, ReuseNeedsARace, At, Alone
  <2> QED BY <2>5, <2>6, <2>7, <2>8, <2>9 DEF Inv
<1>8. ASSUME NEW field \in {"verifyToken", "resetToken"}, Send(r, field), UNCHANGED given,
             input[r].kind = IF field = "resetToken" THEN "forgot" ELSE "resend"
      PROVE  Inv'
  <2>1. /\ RequestsOK' /\ Alone(r) /\ input'[r] = input[r]
        /\ pc'[r] = "save" /\ prior'[r] = account[field]
        /\ DOMAIN patch'[r] = {field} /\ patch'[r][field] \in Token \ issued
        /\ issued' = issued \cup {patch'[r][field]}
    BY <1>0, <1>8, SendStep
  <2>2. DocsOK'
    BY <1>0, <1>3, <2>1 DEF DocsOK
  <2>3. TypeOK' /\ DOMAIN patch' = Req
    BY <2>1, <2>2, HalvesAgain
  <2>4. StepInv'
    BY <1>1, <1>4, <1>8, <2>1 DEF Inv, StepInv, Alone
  <2>5. CodesInv'
    BY <1>1, <1>2, <1>8, <2>1 DEF Inv, CodesInv, Unused, Alone
  <2>6. TokenInv'
    <3>1. CASE field = "resetToken"
      <4>1. /\ input[r].kind = "forgot" /\ DOMAIN patch'[r] = {"resetToken"}
            /\ patch'[r].resetToken \in Token \ issued
            /\ issued' = issued \cup {patch'[r].resetToken}
            /\ prior'[r] = account.resetToken
        BY <1>8, <2>1, <3>1
      <4>2. \A q \in Req : input[q].kind = "reset" => input[q].token \in issued
        BY DEF Inv, StepInv
      <4> QED BY <1>1, <2>1, <4>1, <4>2 DEF Inv, TokenInv, Unsaved, At, Alone
    <3>2. CASE field = "verifyToken"
      BY <1>1, <1>8, <2>1, <3>2 DEF Inv, TokenInv, Unsaved, At, Alone
    <3> QED BY <3>1, <3>2
  <2>7. ReuseNeedsARace'
    BY <1>1, <1>2, <2>1 DEF Inv, ReuseNeedsARace, At, Alone
  <2> QED BY <2>3, <2>4, <2>5, <2>6, <2>7 DEF Inv
<1> QED BY <1>5, <1>6, <1>7, <1>8 DEF Handled

LEMMA DeliveryFailsKeeps ==
  ASSUME Inv, NEW r \in Req, DeliveryFails(r)
  PROVE  Inv'
<1>0. DocsOK /\ RequestsOK
  BY Halves DEF Inv
<1>1. /\ pc[r] = "deliver" /\ pc' = [pc EXCEPT ![r] = "restore"]
      /\ patch' = [patch EXCEPT ![r] = [f \in {Sent(r)} |-> prior[r]]]
      /\ UNCHANGED <<input, copy, prior, account, issued, given, outdated, history, asked>>
  BY DEF DeliveryFails
<1>2. /\ input[r].kind \in {"forgot", "resend"}
      /\ Sent(r) = IF input[r].kind = "forgot" THEN "resetToken" ELSE "verifyToken"
  BY <1>1 DEF Inv, StepInv, Sent
<1>3. IsPatch([f \in {Sent(r)} |-> prior[r]])
  BY <1>0, <1>2 DEF IsPatch, Fields, Values, RequestsOK
<1>4. /\ DOMAIN patch' = Req /\ DOMAIN patch'[r] = {Sent(r)} /\ patch'[r][Sent(r)] = prior[r]
      /\ IsPatch(patch'[r]) /\ \A q \in Req \ {r} : patch'[q] = patch[q]
  BY <1>0, <1>1, <1>3 DEF RequestsOK
<1>5. /\ RequestsOK' /\ Alone(r) /\ pc'[r] = "restore"
  BY <1>0, <1>1, <1>4 DEF RequestsOK, Alone, Steps
<1>6. DocsOK'
  BY <1>0, <1>1 DEF DocsOK, history
<1>7. TypeOK' /\ DOMAIN patch' = Req
  BY <1>5, <1>6, HalvesAgain
<1>8. StepInv'
  BY <1>1, <1>2, <1>4, <1>5 DEF Inv, StepInv, Alone
<1>9. CodesInv'
  BY <1>1, <1>2, <1>4, <1>5 DEF Inv, CodesInv, Unused, Alone, history
<1>10. TokenInv'
  <2>1. UNCHANGED <<input, prior, account, issued, used, back>>
    BY <1>1 DEF history
  <2>2. "resetToken" \in DOMAIN patch'[r] =>
          input[r].kind = "forgot" /\ patch'[r].resetToken = prior[r]
    BY <1>2, <1>4
  <2> QED BY <2>1, <2>2, <1>5 DEF Inv, TokenInv, Unsaved, At, Alone
<1>11. ReuseNeedsARace'
  BY <1>1, <1>5 DEF Inv, ReuseNeedsARace, At, Alone, history
<1> QED BY <1>7, <1>8, <1>9, <1>10, <1>11 DEF Inv

\* An attempt that is aborted leaves a part of the patch, or nothing.
LEMMA AbortKeeps ==
  ASSUME Inv, NEW r \in Req, Abort(r)
  PROVE  Inv'
<1>0. DocsOK /\ RequestsOK
  BY Halves DEF Inv
<1>1. PICK fields \in {Fields \ {"status"}, Fields} :
        patch' = [patch EXCEPT ![r] = [f \in DOMAIN patch[r] \ fields |-> patch[r][f]]]
  BY DEF Abort, SaveOrder
<1>2. /\ pc[r] = "tx"
      /\ UNCHANGED <<account, issued, given, pc, input, copy, prior, outdated, history, asked>>
  BY DEF Abort
<1>3. /\ DOMAIN patch' = Req /\ DOMAIN patch'[r] = DOMAIN patch[r] \ fields
      /\ \A f \in DOMAIN patch'[r] : patch'[r][f] = patch[r][f]
      /\ \A q \in Req \ {r} : patch'[q] = patch[q]
  BY <1>0, <1>1 DEF RequestsOK
<1>4. \A q \in Req : IsPatch(patch'[q])
  BY <1>0, <1>3 DEF RequestsOK, IsPatch
<1>5. DocsOK' /\ RequestsOK' /\ Alone(r)
  BY <1>0, <1>2, <1>3, <1>4 DEF DocsOK, RequestsOK, Alone, history
<1>6. DOMAIN patch'[r] \subseteq {"status"}
  BY <1>0, <1>3 DEF RequestsOK, IsPatch
<1>7. TypeOK' /\ DOMAIN patch' = Req
  BY <1>5, HalvesAgain
<1>8. StepInv'
  BY <1>2, <1>3, <1>5 DEF Inv, StepInv, Alone
<1>9. CodesInv'
  BY <1>2, <1>5, <1>6 DEF Inv, CodesInv, Unused, Alone, history
<1>10. TokenInv'
  BY <1>2, <1>5, <1>6 DEF Inv, TokenInv, Unsaved, At, Alone, history
<1>11. ReuseNeedsARace'
  BY <1>2 DEF Inv, ReuseNeedsARace, At, history
<1> QED BY <1>7, <1>8, <1>9, <1>10, <1>11 DEF Inv

\* A save writes the fields of the patch.
LEMMA SavedFields ==
  ASSUME DocsOK, RequestsOK, NEW r \in Req, account' = Merged(account, patch[r])
  PROVE  /\ account' \in Account
         /\ account'.status =
              IF "status" \in DOMAIN patch[r] THEN patch[r].status ELSE account.status
         /\ account'.codes =
              IF "codes" \in DOMAIN patch[r] THEN patch[r].codes ELSE account.codes
         /\ account'.resetToken =
              IF "resetToken" \in DOMAIN patch[r] THEN patch[r].resetToken ELSE account.resetToken
<1>1. account' \in Account
  BY MergedType DEF DocsOK, RequestsOK
<1>2. \A f \in Fields : account'[f] = IF f \in DOMAIN patch[r] THEN patch[r][f] ELSE account[f]
  BY MergedFields
<1>3. {"status", "codes", "resetToken"} \subseteq Fields
  BY DEF Fields
<1> QED BY <1>1, <1>2, <1>3

LEMMA SaveKeeps ==
  ASSUME Inv, NEW r \in Req, Save(r)
  PROVE  Inv'
<1>0. DocsOK /\ RequestsOK
  BY Halves DEF Inv
<1>1. /\ pc[r] = "save" /\ account' = Merged(account, patch[r])
      /\ UNCHANGED <<issued, given, outdated, uses, used, back, usedBefore, asked>>
  BY DEF Save, history
<1>2. /\ account' \in Account
      /\ account'.status =
           IF "status" \in DOMAIN patch[r] THEN patch[r].status ELSE account.status
      /\ account'.codes = account.codes
      /\ account'.resetToken =
           IF "resetToken" \in DOMAIN patch[r] THEN patch[r].resetToken ELSE account.resetToken
      /\ "resetToken" \in DOMAIN patch[r] => input[r].kind = "forgot"
  BY <1>0, <1>1, SavedFields DEF Inv, CodesInv, TokenInv, At
<1>3. /\ RequestsOK' /\ Alone(r) /\ DOMAIN patch'[r] = {} /\ patch'[r] = NoPatch
      /\ \/ pc'[r] = "idle" /\ input'[r] = NoInput /\ prior'[r] = None
         \/ /\ pc'[r] = "deliver" /\ input'[r] = input[r] /\ prior'[r] = prior[r]
            /\ input[r].kind \in {"resend", "forgot"}
  <2>1. CASE End(r)
    BY <1>0, <2>1, EndStep, NothingInHand
  <2>2. CASE /\ copy' = [copy EXCEPT ![r] = Merged(copy[r], patch[r])]
             /\ patch' = [patch EXCEPT ![r] = NoPatch]
             /\ pc' = [pc EXCEPT ![r] = "deliver"]
             /\ UNCHANGED <<input, prior>>
             /\ input[r].kind \in {"resend", "forgot"}
    <3>1. /\ DOMAIN patch' = Req /\ patch'[r] = NoPatch
          /\ \A q \in Req \ {r} : patch'[q] = patch[q]
      BY <1>0, <2>2 DEF RequestsOK
    <3>2. \A q \in Req : IsPatch(patch'[q])
      BY <1>0, <3>1, NothingInHand DEF RequestsOK
    <3>3. Merged(copy[r], patch[r]) \in Account
      BY <1>0, MergedType DEF RequestsOK
    <3>4. copy' \in [Req -> Account] /\ \A q \in Req \ {r} : copy'[q] = copy[q]
      BY <1>0, <2>2, <3>3 DEF RequestsOK
    <3>5. /\ pc' \in [Req -> Steps] /\ pc'[r] = "deliver"
          /\ \A q \in Req \ {r} : pc'[q] = pc[q]
      BY <1>0, <2>2 DEF RequestsOK, Steps
    <3>6. RequestsOK' /\ Alone(r)
      BY <1>0, <2>2, <3>1, <3>2, <3>4, <3>5 DEF RequestsOK, Alone
    <3> QED BY <2>2, <3>1, <3>5, <3>6, NothingInHand
  <2> QED BY <2>1, <2>2 DEF Save
<1>4. DocsOK'
  BY <1>0, <1>1, <1>2 DEF DocsOK
<1>5. TypeOK' /\ DOMAIN patch' = Req
  BY <1>3, <1>4, HalvesAgain
<1>6. NoInput.kind = "none"
  BY DEF NoInput
<1>7. StepInv'
  BY <1>1, <1>2, <1>3, <1>6 DEF Inv, StepInv, Alone
<1>8. CodesInv'
  <2>1. account'.status = "absent" => account.status = "absent"
    BY <1>2 DEF Inv, StepInv
  <2> QED BY <1>1, <1>2, <1>3, <1>6, <2>1 DEF Inv, CodesInv, Unused, Alone
<1>9. TokenInv'
  <2>1. CASE "resetToken" \notin DOMAIN patch[r]
    BY <1>1, <1>2, <1>3, <1>6, <2>1 DEF Inv, TokenInv, Unsaved, At, Alone
  <2>2. CASE "resetToken" \in DOMAIN patch[r]
    <3>1. At(r, "save", "forgot") /\ account'.resetToken = patch[r].resetToken
      BY <1>1, <1>2, <2>2 DEF At
    <3>2. patch[r].resetToken \in MaybeToken
      BY <1>0, <2>2 DEF RequestsOK, IsPatch, Values
    <3>3. CASE patch[r].resetToken = None
      <4>1. account'.resetToken = None /\ None \notin Token /\ used \subseteq Token
        BY <1>0, <3>1, <3>3 DEF DocsOK
      <4> QED BY <1>1, <1>3, <1>6, <4>1 DEF Inv, TokenInv, Unsaved, At, Alone
    <3>4. CASE patch[r].resetToken \in Token
      <4> DEFINE t == patch[r].resetToken
      <4>1. Unsaved(r, t) /\ account'.resetToken = t
        BY <3>1 DEF Unsaved
      <4>2. t \in issued /\ t \notin used /\ \A q \in Req : q # r => ~Unsaved(q, t)
        BY <3>4, <4>1 DEF Inv, TokenInv
      <4>3. account'.resetToken \in issued /\ account'.resetToken \notin used
        BY <4>1, <4>2
      <4>4. \A q \in Req, x \in Token : Unsaved(q, x)' => q # r /\ Unsaved(q, x) /\ account'.resetToken # x
        BY <1>3, <1>6, <4>1, <4>2 DEF Unsaved, At, Alone
      <4> HIDE DEF t
      <4> QED BY <1>1, <1>3, <1>6, <4>3, <4>4 DEF Inv, TokenInv, At, Alone
    <3> QED BY <3>2, <3>3, <3>4 DEF MaybeToken
  <2> QED BY <2>1, <2>2
<1>10. ReuseNeedsARace'
  BY <1>1, <1>3, <1>6 DEF Inv, ReuseNeedsARace, At, Alone
<1> QED BY <1>5, <1>7, <1>8, <1>9, <1>10 DEF Inv

LEMMA RestoreKeeps ==
  ASSUME Inv, NEW r \in Req, Restore(r)
  PROVE  Inv'
<1>0. DocsOK /\ RequestsOK
  BY Halves DEF Inv
<1>1. /\ pc[r] = "restore" /\ account' = Merged(account, patch[r])
      /\ back' = IF input[r].kind = "forgot" THEN back \cup ({prior[r]} \ {None}) ELSE back
      /\ UNCHANGED <<issued, given, outdated, uses, used, usedBefore, asked>>
  BY DEF Restore
<1>2. /\ account' \in Account
      /\ account'.status =
           IF "status" \in DOMAIN patch[r] THEN patch[r].status ELSE account.status
      /\ account'.codes = account.codes
      /\ \/ account'.resetToken = account.resetToken
         \/ input[r].kind = "forgot" /\ account'.resetToken = prior[r]
  BY <1>0, <1>1, SavedFields DEF Inv, CodesInv, TokenInv, At
<1>3. /\ RequestsOK' /\ Alone(r) /\ DOMAIN patch'[r] = {} /\ patch'[r] = NoPatch
      /\ pc'[r] = "idle" /\ input'[r] = NoInput /\ prior'[r] = None
  BY <1>0, EndStep, NothingInHand DEF Restore
<1>4. prior[r] \in MaybeToken /\ back \subseteq back' /\ back' \subseteq Token
  BY <1>0, <1>1 DEF DocsOK, RequestsOK, MaybeToken
<1>5. DocsOK'
  BY <1>0, <1>1, <1>2, <1>4 DEF DocsOK
<1>6. TypeOK' /\ DOMAIN patch' = Req
  BY <1>3, <1>5, HalvesAgain
<1>7. NoInput.kind = "none"
  BY DEF NoInput
<1>8. StepInv'
  BY <1>1, <1>2, <1>3, <1>7 DEF Inv, StepInv, Alone
<1>9. CodesInv'
  <2>1. account'.status = "absent" => account.status = "absent"
    BY <1>2 DEF Inv, StepInv
  <2> QED BY <1>1, <1>2, <1>3, <1>7, <2>1 DEF Inv, CodesInv, Unused, Alone
<1>10. TokenInv'
  <2>1. account'.resetToken \in issued \cup {None}
    BY <1>2 DEF Inv, TokenInv
  <2>2. account'.resetToken \in used => account'.resetToken \in back'
    <3>1. None \notin used
      BY <1>0 DEF DocsOK
    <3> QED BY <1>1, <1>2, <1>4, <3>1 DEF Inv, TokenInv
  <2>3. \A q \in Req, t \in Token : Unsaved(q, t)' => Unsaved(q, t) /\ account'.resetToken # t
    BY <1>2, <1>3, <1>7 DEF Inv, TokenInv, Unsaved, At, Alone
  <2> QED BY <1>1, <1>3, <1>7, <2>1, <2>2, <2>3 DEF Inv, TokenInv, Unsaved, At, Alone
<1>11. ReuseNeedsARace'
  BY <1>1, <1>3, <1>4, <1>7 DEF Inv, ReuseNeedsARace, At, Alone
<1> QED BY <1>6, <1>8, <1>9, <1>10, <1>11 DEF Inv

\* A save of the list of codes that succeeds makes every other copy of it out of date.
LEMMA VersionsType ==
  ASSUME DocsOK, NEW r \in Req, Versions(r, patch[r])
  PROVE  /\ outdated' \in [Req -> BOOLEAN]
         /\ \A q \in Req : outdated[q] => outdated'[q]
         /\ "codes" \in DOMAIN patch[r] =>
              \A q \in Req \ {r} : pc[q] \notin {"idle", "user", "load"} => outdated'[q]
<1>1. /\ outdated' = [q \in Req |-> outdated'[q]]
      /\ \A q \in Req : outdated'[q] = (outdated[q] \/ (q # r /\ "codes" \in DOMAIN patch[r]
                                             /\ pc[q] \notin {"idle", "user", "load"}))
  BY DEF Versions
<1>2. \A q \in Req : outdated'[q] \in BOOLEAN
  BY <1>1 DEF DocsOK
<1> QED BY <1>1, <1>2

LEMMA CommitKeeps ==
  ASSUME Inv, NEW r \in Req, Commit(r)
  PROVE  Inv'
<1>0. DocsOK /\ RequestsOK
  BY Halves DEF Inv
<1>1. /\ pc[r] = "tx" /\ input[r].kind # "register" /\ VersionMatches(r)
      /\ account' = Merged(account, patch[r]) /\ Versions(r, patch[r]) /\ End(r)
      /\ used' = IF input[r].kind = "reset" /\ "password" \in DOMAIN patch[r]
                 THEN used \cup {input[r].token} ELSE used
      /\ UNCHANGED <<issued, given, uses, back, usedBefore, asked>>
  BY DEF Commit
<1>2. /\ account' \in Account
      /\ account'.status =
           IF "status" \in DOMAIN patch[r] THEN patch[r].status ELSE account.status
      /\ account'.codes =
           IF "codes" \in DOMAIN patch[r] THEN patch[r].codes ELSE account.codes
      /\ account'.resetToken =
           IF "resetToken" \in DOMAIN patch[r] THEN patch[r].resetToken ELSE account.resetToken
  BY <1>0, <1>1, SavedFields
<1>3. /\ RequestsOK' /\ Alone(r) /\ DOMAIN patch'[r] = {} /\ patch'[r] = NoPatch
      /\ pc'[r] = "idle" /\ input'[r] = NoInput /\ prior'[r] = None
  BY <1>0, <1>1, EndStep, NothingInHand
<1>4. /\ outdated' \in [Req -> BOOLEAN]
      /\ \A q \in Req : outdated[q] => outdated'[q]
      /\ "codes" \in DOMAIN patch[r] =>
           \A q \in Req \ {r} : pc[q] \notin {"idle", "user", "load"} => outdated'[q]
  BY <1>0, <1>1, VersionsType
<1>5. /\ used \subseteq used' /\ used' \subseteq used \cup {input[r].token}
      /\ used' # used => /\ At(r, "tx", "reset") /\ input[r].token \in issued
                         /\ "resetToken" \in DOMAIN patch[r]
  BY <1>1 DEF Inv, StepInv, TokenInv, At
<1>6. DocsOK'
  BY <1>0, <1>1, <1>2, <1>4, <1>5 DEF DocsOK
<1>7. TypeOK' /\ DOMAIN patch' = Req
  BY <1>3, <1>6, HalvesAgain
<1>8. NoInput.kind = "none"
  BY DEF NoInput
<1>9. account.status # "absent" /\ account'.status # "absent"
  BY <1>1, <1>2 DEF Inv, StepInv
<1>10. StepInv'
  BY <1>1, <1>3, <1>8, <1>9 DEF Inv, StepInv, Alone
<1>11. CodesInv'
  <2>1. "codes" \in DOMAIN patch[r] => Unused(patch[r].codes)
    BY <1>1 DEF Inv, CodesInv, VersionMatches
  <2>2. Unused(account.codes)' /\ \A codes : Unused(codes) => Unused(codes)'
    BY <1>1, <1>2, <2>1 DEF Inv, CodesInv, Unused
  <2>3. ASSUME NEW q \in Req, pc'[q] = "challenge", ~outdated'[q]
        PROVE  input'[q].code \in account'.codes
    BY <1>2, <1>3, <1>4, <2>3 DEF Inv, CodesInv, Alone
  <2>4. ASSUME NEW q \in Req, "codes" \in DOMAIN patch'[q], ~outdated'[q]
        PROVE  Unused(patch[q].codes)'
    <3>1. q # r /\ patch'[q] = patch[q] /\ ~outdated[q]
      BY <1>3, <1>4, <2>4 DEF Alone
    <3> QED BY <2>2, <2>4, <3>1 DEF Inv, CodesInv
  <2> QED BY <1>1, <1>3, <1>8, <1>9, <2>2, <2>3, <2>4 DEF Inv, CodesInv, Alone
<1>12. TokenInv'
  <2>1. CASE "resetToken" \in DOMAIN patch[r]
    <3>1. account'.resetToken = None
      BY <1>1, <1>2, <2>1 DEF Inv, TokenInv, At
    <3>2. account'.resetToken \notin used' /\ used' \subseteq issued
      BY <1>5, <1>6, <3>1 DEF DocsOK, Inv, TokenInv
    <3>3. \A q \in Req, t \in Token : Unsaved(q, t)' =>
            Unsaved(q, t) /\ q # r /\ account'.resetToken # t /\ t \notin used'
      BY <1>3, <1>5, <1>8, <3>1 DEF Inv, TokenInv, Unsaved, At, Alone
    <3> QED BY <1>1, <1>3, <1>8, <3>1, <3>2, <3>3 DEF Inv, TokenInv, Unsaved, At, Alone
  <2>2. CASE "resetToken" \notin DOMAIN patch[r]
    BY <1>1, <1>2, <1>3, <1>5, <1>8, <2>2 DEF Inv, TokenInv, Unsaved, At, Alone
  <2> QED BY <2>1, <2>2
<1>13. ReuseNeedsARace'
  BY <1>1, <1>3, <1>8 DEF Inv, ReuseNeedsARace, At, Alone
<1> QED BY <1>7, <1>10, <1>11, <1>12, <1>13 DEF Inv

\* The save of a challenge goes on to the save of what the request asks for, or ends.
LEMMA ChallengeGoesOn ==
  ASSUME DocsOK, NEW r \in Req, SaveChallenge(r),
         input[r].kind \in {"login", "disable", "regenerate"}
  PROVE  /\ given \subseteq given' /\ given' \subseteq Code
         /\ \/ End(r)
            \/ Proceeds(r, Merged(copy[r], patch[r])) /\ input[r].kind # "reset"
<1> DEFINE saved == Merged(copy[r], patch[r])
<1>0. given \subseteq Code
  BY DEF DocsOK
<1>1. \/ input[r].kind = "login" /\ Reset(r, saved) /\ UNCHANGED given
      \/ input[r].kind = "disable" /\ Assign(r, saved, Disabled, "tx") /\ UNCHANGED given
      \/ input[r].kind = "regenerate" /\ Regenerate(r, saved)
  BY DEF SaveChallenge
<1> HIDE DEF saved
<1>2. CASE input[r].kind = "login" /\ Reset(r, saved) /\ UNCHANGED given
  BY <1>0, <1>2, ResetMakesPatch DEF saved
<1>3. CASE input[r].kind = "disable" /\ Assign(r, saved, Disabled, "tx") /\ UNCHANGED given
  <2>1. TxPatch(r, Disabled)
    BY <1>3, ConstantPatches DEF TxPatch, Disabled
  <2>2. Proceeds(r, saved)
    BY <1>3, <2>1, ConstantPatches DEF Proceeds
  <2> QED BY <1>0, <1>3, <2>2 DEF saved
<1>4. CASE input[r].kind = "regenerate" /\ Regenerate(r, saved)
  BY <1>4, RegenerateMakesPatch DEF saved
<1> QED BY <1>1, <1>2, <1>3, <1>4

LEMMA SaveChallengeKeeps ==
  ASSUME Inv, NEW r \in Req, SaveChallenge(r),
         input[r].kind \in {"login", "disable", "regenerate"}
  PROVE  Inv'
<1>0. DocsOK /\ RequestsOK
  BY Halves DEF Inv
<1>1. /\ pc[r] = "challenge" /\ VersionMatches(r)
      /\ account' = Merged(account, patch[r])
      /\ uses' = [uses EXCEPT ![input[r].code] = @ + 1]
      /\ Versions(r, patch[r])
      /\ UNCHANGED <<issued, used, back, usedBefore, asked>>
  BY DEF SaveChallenge
<1>2. /\ DOMAIN patch[r] = {"codes"} /\ input[r].code \notin patch[r].codes
      /\ input[r].code \in account.codes /\ input[r].code \in given
      /\ Unused(patch[r].codes) /\ uses[input[r].code] = 0
  BY <1>1 DEF Inv, CodesInv, VersionMatches, Unused
<1>3. /\ account' \in Account /\ account'.status = account.status
      /\ account'.codes = patch[r].codes /\ account'.resetToken = account.resetToken
  BY <1>0, <1>1, <1>2, SavedFields
<1>4. /\ outdated' \in [Req -> BOOLEAN]
      /\ \A q \in Req : outdated[q] => outdated'[q]
      /\ \A q \in Req \ {r} : pc[q] \notin {"idle", "user", "load"} => outdated'[q]
  BY <1>0, <1>1, <1>2, VersionsType
<1>5. /\ uses' \in [Code -> Nat] /\ uses'[input[r].code] = 1
      /\ \A k \in Code \ {input[r].code} : uses'[k] = uses[k]
  BY <1>0, <1>1, <1>2 DEF DocsOK
<1>6. Merged(copy[r], patch[r]) \in Account
  BY <1>0, MergedType DEF RequestsOK
<1>7. /\ given \subseteq given' /\ given' \subseteq Code
      /\ \/ End(r)
         \/ Proceeds(r, Merged(copy[r], patch[r])) /\ input[r].kind # "reset"
  BY <1>0, ChallengeGoesOn DEF Inv
<1>8. NoInput.kind = "none"
  BY DEF NoInput
<1>9. /\ RequestsOK' /\ Alone(r)
      /\ \/ /\ pc'[r] = "idle" /\ input'[r] = NoInput /\ prior'[r] = None
            /\ patch'[r] = NoPatch /\ DOMAIN patch'[r] = {}
         \/ /\ input'[r] = input[r] /\ prior'[r] = prior[r] /\ pc'[r] = "save"
            /\ input[r].kind \notin {"forgot", "resend"}
            /\ DOMAIN patch'[r] \subseteq {"attempts", "lockout"}
         \/ /\ input'[r] = input[r] /\ prior'[r] = prior[r] /\ pc'[r] = "tx"
            /\ "status" \in DOMAIN patch'[r] => patch'[r].status # "absent"
            /\ "codes" \in DOMAIN patch'[r] =>
                 patch'[r].codes \subseteq given' /\ patch'[r].codes \cap given = {}
            /\ "resetToken" \in DOMAIN patch'[r] => patch'[r].resetToken = None
  <2>1. CASE End(r)
    BY <1>0, <2>1, EndStep, NothingInHand
  <2>2. CASE Proceeds(r, Merged(copy[r], patch[r]))
    BY <1>0, <1>6, <2>2, ProceedsStep
  <2> QED BY <1>7, <2>1, <2>2
<1>10. DocsOK'
  BY <1>0, <1>1, <1>3, <1>4, <1>5, <1>7 DEF DocsOK
<1>11. TypeOK' /\ DOMAIN patch' = Req
  BY <1>9, <1>10, HalvesAgain
<1>12. account.status # "absent"
  BY <1>1 DEF Inv, StepInv
<1>13. StepInv'
  BY <1>1, <1>3, <1>8, <1>9, <1>12 DEF Inv, StepInv, Alone
<1>14. CodesInv'
  <2>1. \A k \in Code : uses'[k] <= 1 /\ (uses'[k] # 0 => k \in given')
    BY <1>2, <1>5, <1>7 DEF Inv, CodesInv
  <2>2. Unused(account.codes)'
    BY <1>2, <1>3, <1>5, <1>7, <1>10 DEF Unused, DocsOK
  <2>3. "codes" \in DOMAIN patch'[r] => Unused(patch[r].codes)'
    <3>1. \A k \in Code : k \notin given => uses'[k] = 0
      BY <1>2, <1>5 DEF Inv, CodesInv
    <3> QED BY <1>7, <1>9, <3>1 DEF Unused
  <2>4. ASSUME NEW q \in Req, q # r
        PROVE  /\ "codes" \in DOMAIN patch'[q] => outdated'[q]
               /\ pc'[q] = "challenge" => outdated'[q]
    <3>1. pc'[q] = pc[q] /\ patch'[q] = patch[q]
      BY <1>9, <2>4 DEF Alone
    <3>2. "codes" \in DOMAIN patch[q] => pc[q] \in {"challenge", "tx"}
      BY DEF Inv, CodesInv
    <3>3. pc[q] \in {"challenge", "tx"} => outdated'[q]
      BY <1>4, <2>4
    <3> QED BY <3>1, <3>2, <3>3
  <2>5. ASSUME NEW q \in Req
        PROVE  /\ "codes" \in DOMAIN patch'[q] => pc'[q] \in {"challenge", "tx"}
               /\ pc'[q] = "challenge" =>
                    /\ input'[q].kind \in {"login", "disable", "regenerate"}
                    /\ input'[q].code \in given'
                    /\ DOMAIN patch'[q] = {"codes"} /\ input'[q].code \notin patch'[q].codes
    <3>1. CASE q = r
      BY <1>9, <3>1
    <3>2. CASE q # r
      BY <1>7, <1>9, <3>2 DEF Inv, CodesInv, Alone
    <3> QED BY <3>1, <3>2
  <2>6. pc'[r] # "challenge"
    BY <1>9
  <2>7. account'.status = "absent" => account'.codes = {}
    BY <1>3, <1>12
  <2>8. ASSUME NEW q \in Req
        PROVE  /\ "codes" \in DOMAIN patch'[q] /\ ~outdated'[q] => Unused(patch[q].codes)'
               /\ pc'[q] = "challenge" /\ ~outdated'[q] => input'[q].code \in account'.codes
    <3>1. CASE q = r
      BY <2>3, <2>6, <3>1
    <3>2. CASE q # r
      BY <2>4, <3>2
    <3> QED BY <3>1, <3>2
  <2> QED BY <2>1, <2>2, <2>5, <2>7, <2>8 DEF CodesInv
<1>15. TokenInv'
  BY <1>1, <1>2, <1>3, <1>8, <1>9 DEF Inv, TokenInv, Unsaved, At, Alone
<1>16. ReuseNeedsARace'
  BY <1>1, <1>8, <1>9 DEF Inv, ReuseNeedsARace, At, Alone
<1> QED BY <1>11, <1>13, <1>14, <1>15, <1>16 DEF Inv

-----------------------------------------------------------------------------
(* The theorems.                                                            *)

LEMMA InvStarts == Init => Inv
<1> SUFFICES ASSUME Init PROVE Inv
  OBVIOUS
<1>1. PICK batch \in Batches, on \in BOOLEAN, earlier \in {"none", "over"} :
        /\ account \in {NoAccount,
             [NoAccount EXCEPT !.status = "active", !.verified = TRUE, !.twoFactor = on,
                               !.codes = IF on THEN batch ELSE {}, !.lockout = earlier]}
        /\ given = account.codes
  BY DEF Init
<1>2. /\ account \in Account /\ account.codes \subseteq Code /\ account.resetToken = None
      /\ account.status = "absent" => account.codes = {}
  <2>1. CASE account = NoAccount
    BY <2>1, NothingInHand DEF NoAccount
  <2>2. CASE account = [NoAccount EXCEPT !.status = "active", !.verified = TRUE,
                          !.twoFactor = on, !.codes = IF on THEN batch ELSE {},
                          !.lockout = earlier]
    <3>1. DOMAIN account = Fields /\ account = [f \in Fields |-> account[f]]
      BY <2>2 DEF NoAccount, Fields
    <3>2. /\ account.status = "active" /\ account.password = "first"
          /\ account.verified \in BOOLEAN /\ account.verifyToken = None
          /\ account.resetToken = None /\ account.attempts = 0 /\ account.lockout = earlier
          /\ account.codes = IF on THEN batch ELSE {}
      BY <2>2 DEF NoAccount
    <3>3. account.twoFactor \in BOOLEAN /\ account.pending \in BOOLEAN
      BY <2>2 DEF NoAccount
    <3>4. account.codes \subseteq Code
      BY <3>2
    <3>5. \A f \in Fields : account[f] \in Values[f]
      BY <3>2, <3>3, <3>4 DEF Fields, Values, MaybeToken
    <3> QED BY <3>1, <3>2, <3>4, <3>5, AccountFields
  <2> QED BY <1>1, <2>1, <2>2
<1>3. DocsOK
  BY <1>1, <1>2 DEF Init, DocsOK
<1>4. RequestsOK
  BY NothingInHand DEF Init, RequestsOK, Steps, MaybeToken
<1>5. \A r \in Req : /\ pc[r] = "idle" /\ input[r].kind = "none" /\ patch[r] = NoPatch
                     /\ prior[r] = None /\ DOMAIN patch[r] = {}
  BY NothingInHand DEF Init, NoInput
<1>6. StepInv
  BY <1>5 DEF StepInv
<1>7. CodesInv
  BY <1>1, <1>2, <1>5 DEF Init, CodesInv, Unused
<1>8. TokenInv
  BY <1>2, <1>5 DEF Init, TokenInv, Unsaved, At
<1>9. ReuseNeedsARace
  BY <1>5 DEF ReuseNeedsARace, At
<1> QED BY <1>3, <1>4, <1>6, <1>7, <1>8, <1>9, Halves DEF Inv

LEMMA ArriveKeeps ==
  ASSUME Inv, NEW r \in Req, Arrive(r)
  PROVE  Inv'
<1>0. issued \subseteq Token /\ given \subseteq Code /\ None \in MaybeToken
  BY DEF Inv, TypeOK, MaybeToken
<1>1. \A request \in Input :
        /\ Ask(r, request) /\ request.kind # "none"
        /\ request.kind \in {"verify", "reset"} => request.token \in issued
        => Inv'
  BY AskKeeps
<1>2. \A kind \in Kinds, k \in Code \cup {None} :
        /\ [NoInput EXCEPT !.kind = kind] \in Input
        /\ [NoInput EXCEPT !.kind = kind, !.code = k] \in Input
        /\ [NoInput EXCEPT !.kind = kind].kind = kind
        /\ [NoInput EXCEPT !.kind = kind, !.code = k].kind = kind
  BY DEF NoInput, Input, MaybeToken
<1>3. \A kind \in Kinds, t \in Token :
        /\ [NoInput EXCEPT !.kind = kind, !.token = t] \in Input
        /\ [NoInput EXCEPT !.kind = kind, !.token = t].kind = kind
        /\ [NoInput EXCEPT !.kind = kind, !.token = t].token = t
  BY DEF NoInput, Input, MaybeToken
<1>4. CASE \E kind \in {"register", "resend", "forgot", "login", "wrong",
                        "change", "setup", "confirm"} : Ask(r, [NoInput EXCEPT !.kind = kind])
  <2>1. PICK kind \in Kinds \ {"verify", "reset"} : Ask(r, [NoInput EXCEPT !.kind = kind])
    BY <1>4 DEF Kinds
  <2> DEFINE request == [NoInput EXCEPT !.kind = kind]
  <2>2. request \in Input /\ request.kind = kind /\ Ask(r, request)
    BY <1>2, <2>1
  <2> HIDE DEF request
  <2> QED BY <1>1, <2>2 DEF Kinds
<1>5. CASE \E kind \in {"verify", "reset"}, t \in issued :
             Ask(r, [NoInput EXCEPT !.kind = kind, !.token = t])
  <2>1. PICK kind \in Kinds, t \in issued :
          Ask(r, [NoInput EXCEPT !.kind = kind, !.token = t])
    BY <1>5 DEF Kinds
  <2> DEFINE request == [NoInput EXCEPT !.kind = kind, !.token = t]
  <2>2. /\ request \in Input /\ request.kind = kind /\ request.token = t /\ Ask(r, request)
    BY <1>0, <1>3, <2>1
  <2> HIDE DEF request
  <2> QED BY <1>1, <2>1, <2>2 DEF Kinds
<1>6. CASE \E kind \in {"login", "disable", "regenerate"}, k \in given \cup {None} :
             Ask(r, [NoInput EXCEPT !.kind = kind, !.code = k])
  <2>1. PICK kind \in Kinds \ {"verify", "reset"}, k \in Code \cup {None} :
          Ask(r, [NoInput EXCEPT !.kind = kind, !.code = k])
    BY <1>0, <1>6 DEF Kinds
  <2> DEFINE request == [NoInput EXCEPT !.kind = kind, !.code = k]
  <2>2. request \in Input /\ request.kind = kind /\ Ask(r, request)
    BY <1>2, <2>1
  <2> HIDE DEF request
  <2> QED BY <1>1, <2>2 DEF Kinds
<1> QED BY <1>4, <1>5, <1>6 DEF Arrive

\* A request that is refused or whose process dies keeps the invariant.
LEMMA FailKeeps ==
  ASSUME Inv, NEW r \in Req, Fail(r) \/ Deliver(r) \/ VersionFails(r)
  PROVE  Inv'
<1>1. /\ End(r) /\ UNCHANGED <<account, issued, given, outdated, uses, used, back, usedBefore,
                               asked>>
  BY DEF Fail, Deliver, VersionFails, history
<1>2. DocsOK'
  BY <1>1, Halves DEF DocsOK, Inv
<1>3. Ends(r)
  BY <1>1 DEF Ends
<1> QED BY <1>2, <1>3, EndsKeeps

LEMMA InvSteps == Inv /\ [Next]_vars => Inv'
<1> SUFFICES ASSUME Inv, [Next]_vars PROVE Inv'
  OBVIOUS
<1>0. DocsOK /\ RequestsOK
  BY Halves DEF Inv
<1>1. CASE UNCHANGED vars
  <2>1. DocsOK' /\ RequestsOK'
    BY <1>0, <1>1 DEF vars, requests, history, DocsOK, RequestsOK
  <2>2. UNCHANGED <<account, issued, given, pc, input, patch, prior, outdated, uses, used, back,
                    usedBefore>>
    BY <1>1 DEF vars, requests, history
  <2> QED BY <2>1, <2>2, HalvesAgain
        DEF Inv, StepInv, CodesInv, Unused, TokenInv, Unsaved, At, ReuseNeedsARace
<1>2. CASE Lapse
  BY <1>2, LapseKeeps
<1>3. ASSUME NEW r \in Req, Arrive(r) \/ Serve(r) \/ Abort(r) \/ Fail(r)
      PROVE  Inv'
  <2>1. CASE Arrive(r)
    BY <2>1, ArriveKeeps
  <2>2. CASE Abort(r)
    BY <2>2, AbortKeeps
  <2>3. CASE Fail(r) \/ Deliver(r) \/ VersionFails(r)
    BY <2>3, FailKeeps
  <2>4. CASE SaveChallenge(r)
    <3>1. input[r].kind \in {"login", "disable", "regenerate"}
      BY <2>4 DEF SaveChallenge, Inv, CodesInv
    <3> QED BY <2>4, <3>1, SaveChallengeKeeps
  <2>5. CASE LoadUser(r) \/ Register(r) \/ DeliveryFails(r) \/ Save(r) \/ Restore(r) \/ Commit(r)
    BY <2>5, LoadUserKeeps, RegisterKeeps, DeliveryFailsKeeps, SaveKeeps, RestoreKeeps, CommitKeeps
  <2>6. CASE \/ VerifyEmail(r) \/ ResendVerification(r) \/ ForgotPassword(r) \/ ResetPassword(r)
             \/ ChangePassword(r) \/ LoginFails(r) \/ Login(r) \/ SetupTwoFactor(r)
             \/ ConfirmTwoFactor(r) \/ DisableTwoFactor(r) \/ RegenerateRecoveryCodes(r)
    BY <1>0, <2>6, HandlersHandle, HandledKeeps
  <2> QED BY <1>3, <2>1, <2>2, <2>3, <2>4, <2>5, <2>6 DEF Serve
<1> QED BY <1>1, <1>2, <1>3 DEF Next

LEMMA InvAlways == Spec => []Inv
BY InvStarts, InvSteps, PTL DEF Spec

\* The documents and the requests have their types in every state.
THEOREM AccountTypeCorrect == Spec => []TypeOK
<1>1. Inv => TypeOK
  BY DEF Inv
<1> QED BY <1>1, InvAlways, PTL

\* A recovery code admits at most one request, however many have found it in the list: the
\* version of the list refuses the others (auth.service.ts:1417).
THEOREM CodesAdmitOnce == Spec => []RecoveryCodesAdmitOnce
<1>1. Inv => RecoveryCodesAdmitOnce
  BY DEF Inv, CodesInv, RecoveryCodesAdmitOnce
<1> QED BY <1>1, InvAlways, PTL

\* A token that had reset a password when a reset loaded it is one a failed delivery has put
\* back (auth.service.ts:467, 414).
THEOREM TokensAreReusedInARace == Spec => []ReuseNeedsARace
<1>1. Inv => ReuseNeedsARace
  BY DEF Inv
<1> QED BY <1>1, InvAlways, PTL

=============================================================================
