------------------------------ MODULE Accounts ------------------------------
(***************************************************************************)
(* Accounts and sessions: AuthService and UserService over the tables      *)
(* users and refresh_tokens.  An account is never deleted, only made       *)
(* inactive; a session is a stored refresh token.  Every handler is a      *)
(* sequence of statements without a transaction: it reads the user, then   *)
(* writes the whole row back, or replaces one token by another.            *)
(*                                                                         *)
(* A user stands for an e-mail address, which is unique.  A password       *)
(* stands for its hash.  Names, access tokens (signed, not stored) and the *)
(* moment of expiry play no part: a token may expire at any time.          *)
(***************************************************************************)
EXTENDS Integers, FiniteSets

CONSTANTS
  User,         \* e-mail addresses
  Password,     \* passwords
  AccountCall,  \* slots for handler executions in flight
  MaxTokens,    \* bound on the refresh tokens ever saved
  NoAccount     \* no row, or an absent field

ASSUME MaxTokensAssumption == MaxTokens \in Nat

VARIABLES
  account,    \* the row of every e-mail address
  tokens,     \* the rows of refresh_tokens
  saved,      \* number of tokens saved so far
  acall,      \* the local state of every handler execution
  rewritten,  \* of every user, the calls in flight at the last new password
  left        \* of every user, the calls in flight at the deactivation

accountVars == <<account, tokens, saved, acall, rewritten, left>>

-----------------------------------------------------------------------------
(* Data *)

Account == [active : BOOLEAN, password : Password]

Token == [no : 1..MaxTokens, user : User]

ASSUME NoAccountAssumption == NoAccount \notin Account \cup Password \cup Token

\* read: the password as it was read.  wants: the password asked for.
AccountLocal ==
  [at : {"idle", "insert", "save", "owner", "exchange", "update", "reset",
         "tokens"},
   user : User \cup {NoAccount}, read : Password \cup {NoAccount},
   wants : Password \cup {NoAccount}, token : Token \cup {NoAccount}]

AccountIdle == [at |-> "idle", user |-> NoAccount, read |-> NoAccount,
                wants |-> NoAccount, token |-> NoAccount]

Active(u) == account[u] # NoAccount /\ account[u].active

TokensOf(u) == {t \in tokens : t.user = u}

Others(c) == {d \in AccountCall : acall[d].at # "idle"} \ {c}

Ask(c, local) ==
  /\ acall[c].at = "idle"
  /\ acall' = [acall EXCEPT ![c] = local]
  /\ UNCHANGED <<account, tokens, saved, rewritten, left>>

GoOn(c, step) ==
  /\ acall' = [acall EXCEPT ![c].at = step]
  /\ UNCHANGED <<rewritten, left>>

Forget(c, calls) == [u \in User |-> calls[u] \ {c}]

AccountReturns(c) ==
  /\ acall' = [acall EXCEPT ![c] = AccountIdle]
  /\ rewritten' = Forget(c, rewritten)
  /\ left' = Forget(c, left)

-----------------------------------------------------------------------------
(* Register, Login, RefreshToken and Logout *)

\* EmailExists looks at inactive accounts too.
Register(c, u, p) ==
  /\ account[u] = NoAccount
  /\ Ask(c, [AccountIdle EXCEPT !.at = "insert", !.user = u, !.wants = p])

\* Variant with INSERT ... ON CONFLICT (email) DO UPDATE.
CreateUserUpserts(c) ==
  /\ acall[c].at = "insert"
  /\ account' = [account EXCEPT ![acall[c].user] =
                   [active |-> TRUE, password |-> acall[c].wants]]
  /\ GoOn(c, "save")
  /\ UNCHANGED <<tokens, saved>>

\* The e-mail is UNIQUE: the INSERT of the second of two calls fails, which
\* AccountAbandon covers.
CreateUser(c) ==
  /\ acall[c].at = "insert"
  /\ account[acall[c].user] = NoAccount
  /\ account' = [account EXCEPT ![acall[c].user] =
                   [active |-> TRUE, password |-> acall[c].wants]]
  /\ GoOn(c, "save")
  /\ UNCHANGED <<tokens, saved>>

\* GetUserByEmail and the right password
Login(c, u) ==
  /\ Active(u)
  /\ Ask(c, [AccountIdle EXCEPT !.at = "save", !.user = u])

\* generateTokens stores the refresh token whatever has become of the account.
SaveRefreshToken(c) ==
  /\ acall[c].at = "save"
  /\ saved < MaxTokens
  /\ tokens' = tokens \cup {[no |-> saved + 1, user |-> acall[c].user]}
  /\ saved' = saved + 1
  /\ AccountReturns(c)
  /\ UNCHANGED account

\* GetRefreshToken
RefreshToken(c, t) ==
  /\ t \in tokens
  /\ Ask(c, [AccountIdle EXCEPT !.at = "owner", !.user = t.user, !.token = t])

\* Variant that does not look at is_active.
OwnerOfTokenAny(c) ==
  /\ acall[c].at = "owner"
  /\ GoOn(c, "exchange")
  /\ UNCHANGED <<account, tokens, saved>>

\* GetUserByID finds active users only.
OwnerOfToken(c) ==
  /\ acall[c].at = "owner"
  /\ Active(acall[c].user)
  /\ GoOn(c, "exchange")
  /\ UNCHANGED <<account, tokens, saved>>

\* Nobody looks at the number of rows DeleteRefreshToken has matched.
DeleteRefreshToken(c) ==
  /\ acall[c].at = "exchange"
  /\ tokens' = tokens \ {acall[c].token}
  /\ GoOn(c, "save")
  /\ UNCHANGED <<account, saved>>

\* Logout, or the token reaches expires_at: no query finds it any more.
LogoutOrExpiry(t) ==
  /\ t \in tokens
  /\ tokens' = tokens \ {t}
  /\ UNCHANGED <<account, saved, acall, rewritten, left>>

-----------------------------------------------------------------------------
(* ResetPassword, UpdateCurrentUser and DeleteCurrentUser *)

ResetPassword(c, u, p) ==
  /\ Active(u)
  /\ Ask(c, [AccountIdle EXCEPT !.at = "reset", !.user = u, !.wants = p])

\* A profile without a new password carries the one that was read.
UpdateCurrentUser(c, u, p) ==
  /\ Active(u)
  /\ Ask(c, [AccountIdle EXCEPT !.at = "update", !.user = u, !.wants = p,
                                !.read = account[u].password])

\* Variant that takes the absent password of a profile for the new one.
PasswordToWriteAsked(c) == acall[c].wants

PasswordToWrite(c) ==
  IF acall[c].wants = NoAccount THEN acall[c].read ELSE acall[c].wants

\* UpdateUser writes the whole profile by id, password_hash included, also
\* when the account has become inactive; is_active it leaves alone.
UpdateUser(c) ==
  LET u == acall[c].user
      p == PasswordToWrite(c)
  IN  /\ acall[c].at \in {"update", "reset"}
      /\ account' = [account EXCEPT ![u].password = p]
      /\ acall' = [acall EXCEPT ![c] =
                     IF @.at = "reset" THEN [@ EXCEPT !.at = "tokens"]
                                       ELSE AccountIdle]
      /\ rewritten' = [Forget(c, rewritten) EXCEPT ![u] =
                         IF p = account[u].password THEN @ ELSE Others(c)]
      /\ left' = IF acall[c].at = "reset" THEN left ELSE Forget(c, left)
      /\ UNCHANGED <<tokens, saved>>

\* DeactivateUser, by the user
DeleteCurrentUser(c, u) ==
  /\ acall[c].at = "idle"
  /\ account[u] # NoAccount
  /\ account' = [account EXCEPT ![u].active = FALSE]
  /\ acall' = [acall EXCEPT ![c] = [AccountIdle EXCEPT !.at = "tokens",
                                                       !.user = u]]
  /\ left' = IF account[u].active THEN [left EXCEPT ![u] = Others(c)] ELSE left
  /\ UNCHANGED <<tokens, saved, rewritten>>

DeleteUserRefreshTokens(c) ==
  /\ acall[c].at = "tokens"
  /\ tokens' = tokens \ TokensOf(acall[c].user)
  /\ AccountReturns(c)
  /\ UNCHANGED <<account, saved>>

\* A statement fails, the client goes away or the process ends: the
\* statements before it stay.
AccountAbandon(c) ==
  /\ acall[c].at # "idle"
  /\ AccountReturns(c)
  /\ UNCHANGED <<account, tokens, saved>>

-----------------------------------------------------------------------------
AccountsInit ==
  /\ account = [u \in User |-> NoAccount]
  /\ tokens = {}
  /\ saved = 0
  /\ acall = [c \in AccountCall |-> AccountIdle]
  /\ rewritten = [u \in User |-> {}]
  /\ left = [u \in User |-> {}]

SessionStep(c) ==
  \/ \E u \in User, p \in Password : Register(c, u, p)
  \/ CreateUser(c)
  \/ \E u \in User : Login(c, u)
  \/ SaveRefreshToken(c)
  \/ \E t \in tokens : RefreshToken(c, t)
  \/ OwnerOfToken(c)
  \/ DeleteRefreshToken(c)

ProfileStep(c) ==
  \/ \E u \in User, p \in Password : ResetPassword(c, u, p)
  \/ \E u \in User, p \in Password \cup {NoAccount} : UpdateCurrentUser(c, u, p)
  \/ UpdateUser(c)
  \/ \E u \in User : DeleteCurrentUser(c, u)
  \/ DeleteUserRefreshTokens(c)

AccountsNext ==
  \/ \E c \in AccountCall :
       SessionStep(c) \/ ProfileStep(c) \/ AccountAbandon(c)
  \/ \E t \in tokens : LogoutOrExpiry(t)

AccountsSpec == AccountsInit /\ [][AccountsNext]_accountVars

-----------------------------------------------------------------------------
(* Properties *)

AccountsTypeOK ==
  /\ account \in [User -> Account \cup {NoAccount}]
  /\ tokens \subseteq Token
  /\ saved \in 0..MaxTokens
  /\ acall \in [AccountCall -> AccountLocal]
  /\ rewritten \in [User -> SUBSET AccountCall]
  /\ left \in [User -> SUBSET AccountCall]

\* The password of an account becomes one that the writing call did not ask
\* for only when that call was in flight at the last change of the password:
\* a new password that no profile update overlaps stays.
PasswordKept ==
  [][\A u \in User :
       /\ account[u] # NoAccount
       /\ account'[u].password # account[u].password
       => \E c \in AccountCall :
            /\ acall'[c] # acall[c]
            /\ acall[c].user = u
            /\ acall[c].at \in {"update", "reset"}
            /\ \/ account'[u].password = acall[c].wants
               \/ c \in rewritten[u]]_accountVars

\* A session is saved for an inactive account only by a call that was in
\* flight when the account was deactivated: once those have ended, the
\* account has no way to a new session.
NoSessionAfterLeaving ==
  [][\A u \in User :
       /\ account[u] # NoAccount
       /\ ~account[u].active
       /\ {t \in tokens' : t.user = u} \ tokens # {}
       => \E c \in left[u] : acall[c].at = "save" /\ acall'[c] # acall[c]
    ]_accountVars

=============================================================================
