--------------------------- MODULE AccountAccess ---------------------------
(***************************************************************************)
(* Signing in and staying in (backend/app/routers/auth.py, auth/jwt.py):   *)
(* login and refresh issue JSON web tokens whose claims are copied from    *)
(* the account's row, forgot-password mails a reset link, reset-password   *)
(* consumes it.  Accounts share nothing but the threads, so one account is *)
(* modelled.  Nothing looks at the row again while an access token is      *)
(* valid (rbac/dependencies.py, get_current_user).                         *)
(***************************************************************************)
EXTENDS Server, Integers, Sequences, FiniteSets

CONSTANTS
  Standings,    \* what the claims say: role and branch
  AccessLife,   \* lifetimes, in ticks of the clock
  RefreshLife,
  ResetLife,
  MaxTime,      \* bound: the clock stops there
  MaxLinks,     \* bound: reset links requested
  MaxChanges    \* bound: changes of standing and activation

ASSUME AccessAssumption ==
  /\ IsFiniteSet(Threads)
  /\ {AccessLife, RefreshLife, ResetLife} \subseteq Nat \ {0}
  /\ {MaxTime, MaxLinks, MaxChanges} \subseteq Nat

VARIABLES
  time,
  active, standing,   \* users.is_active; role and branch_id
  links,              \* rows of password_reset_tokens in the order of their ids
  mailed,             \* links that reached the user
  tokens,             \* JSON web tokens issued
  read,               \* the standing the thread read, and when
  link,               \* the reset link it serves
  resets,             \* per link, the passwords it has set (history)
  changed,            \* when standing or active last changed (history)
  changes,            \* changes so far
  raced               \* a change came between a read and its tokens (history)

row == <<active, standing, changed, changes, raced>>
accessVars == <<time, row, links, mailed, tokens, at, read, link, resets>>

AccessSteps == {"idle", "issue", "store_link", "mail", "set_password"}

AccessTypeOK ==
  /\ time \in 0..MaxTime
  /\ active \in BOOLEAN /\ standing \in Standings
  /\ links \in Seq([expires : Nat, used : BOOLEAN])
  /\ resets \in [DOMAIN links -> Nat]
  /\ mailed \subseteq 1..MaxLinks
  /\ tokens \subseteq [kind : {"access", "refresh"}, claims : Standings,
                       expires : Nat, read : 0..MaxTime]
  /\ at \in [Threads -> AccessSteps]
  /\ read \in [Threads -> [claims : Standings, at : 0..MaxTime]]
  /\ link \in [Threads -> 0..Len(links)]
  /\ changed \in 0..MaxTime /\ changes \in 0..MaxChanges
  /\ raced \in BOOLEAN

NothingRead == [claims |-> CHOOSE s \in Standings : TRUE, at |-> 0]

AccessInit ==
  /\ time = 0
  /\ active = TRUE /\ standing \in Standings
  /\ links = <<>> /\ mailed = {} /\ resets = <<>>
  /\ tokens = {}
  /\ at = [t \in Threads |-> "idle"]
  /\ read = [t \in Threads |-> NothingRead]
  /\ link = [t \in Threads |-> 0]
  /\ changed = 0 /\ changes = 0 /\ raced = FALSE

Go(t, step) == at' = [at EXCEPT ![t] = step]

Finish(t) ==
  /\ Go(t, "idle")
  /\ read' = [read EXCEPT ![t] = NothingRead]
  /\ link' = [link EXCEPT ![t] = 0]

ReadRow(t) == read' = [read EXCEPT ![t] = [claims |-> standing, at |-> time]]

-----------------------------------------------------------------------------
(* Signing in.                                                             *)

Valid(token) == token.expires > time

(* login, with the right password, and register_student's first tokens.    *)
Login(t) ==
  /\ at[t] = "idle"
  /\ active
  /\ Go(t, "issue") /\ ReadRow(t)
  /\ UNCHANGED <<time, row, links, mailed, tokens, link, resets>>

(* Mutant: the account may be deactivated.                                 *)
RefreshUnchecked(t) ==
  /\ at[t] = "idle"
  /\ \E token \in tokens : token.kind = "refresh" /\ Valid(token)
  /\ Go(t, "issue") /\ ReadRow(t)
  /\ UNCHANGED <<time, row, links, mailed, tokens, link, resets>>

(* refresh: a valid refresh token, which stays valid.                      *)
Refresh(t) ==
  /\ at[t] = "idle"
  /\ \E token \in tokens : token.kind = "refresh" /\ Valid(token)
  /\ active
  /\ Go(t, "issue") /\ ReadRow(t)
  /\ UNCHANGED <<time, row, links, mailed, tokens, link, resets>>

Token(t, kind, life) ==
  [kind |-> kind, claims |-> read[t].claims, expires |-> time + life,
   read |-> read[t].at]

Issue(t) ==
  /\ at[t] = "issue"
  /\ tokens' = tokens \cup {Token(t, "access", AccessLife),
                            Token(t, "refresh", RefreshLife)}
  /\ Finish(t)
  /\ UNCHANGED <<time, row, links, mailed, resets>>

-----------------------------------------------------------------------------
(* Forgotten passwords.                                                    *)

Forgot(t) ==
  /\ at[t] = "idle"
  /\ active
  /\ Go(t, "store_link")
  /\ UNCHANGED <<time, row, links, mailed, tokens, read, link, resets>>

(* The row is committed, then the link is mailed.                          *)
StoreLink(t) ==
  /\ at[t] = "store_link"
  /\ Len(links) < MaxLinks
  /\ links' = Append(links, [expires |-> time + ResetLife, used |-> FALSE])
  /\ resets' = Append(resets, 0)
  /\ Go(t, "mail")
  /\ link' = [link EXCEPT ![t] = Len(links')]
  /\ UNCHANGED <<time, row, mailed, tokens, read>>

(* The mail server takes the mail, or the answer is 503.                   *)
Mail(t) ==
  /\ at[t] = "mail"
  /\ mailed' \in {mailed, mailed \cup {link[t]}}
  /\ Finish(t)
  /\ UNCHANGED <<time, row, links, tokens, resets>>

(* Mutant: nobody looks whether the link was used.                         *)
OpenLinkUsedOrNot(t) ==
  /\ at[t] = "idle"
  /\ active
  /\ \E i \in mailed :
       /\ links[i].expires > time
       /\ link' = [link EXCEPT ![t] = i]
  /\ Go(t, "set_password")
  /\ UNCHANGED <<time, row, links, mailed, tokens, read, resets>>

(* reset_password reads the link and the account.                          *)
OpenLink(t) ==
  /\ at[t] = "idle"
  /\ active
  /\ \E i \in mailed :
       /\ ~links[i].used /\ links[i].expires > time
       /\ link' = [link EXCEPT ![t] = i]
  /\ Go(t, "set_password")
  /\ UNCHANGED <<time, row, links, mailed, tokens, read, resets>>

(* users.password_hash and the link's used_at are written in one           *)
(* transaction, without a further condition.                               *)
SetPassword(t) ==
  /\ at[t] = "set_password"
  /\ links' = [links EXCEPT ![link[t]].used = TRUE]
  /\ resets' = [resets EXCEPT ![link[t]] = @ + 1]
  /\ Finish(t)
  /\ UNCHANGED <<time, row, mailed, tokens>>

(* The database fails before the commit, or the policy refuses the new     *)
(* password.                                                               *)
Fail(t) ==
  /\ at[t] \in {"store_link", "set_password"}
  /\ Finish(t)
  /\ UNCHANGED <<time, row, links, mailed, tokens, resets>>

-----------------------------------------------------------------------------
(* Another user's request changes the account: update_staff, deactivate_   *)
(* staff, reactivate_staff.                                                *)
ChangeRow(t) ==
  /\ at[t] = "idle"
  /\ changes < MaxChanges
  /\ \/ active' = ~active /\ UNCHANGED standing
     \/ standing' \in Standings \ {standing} /\ UNCHANGED active
  /\ changed' = time /\ changes' = changes + 1
  /\ raced' = (raced \/ \E s \in Threads : at[s] = "issue")
  /\ UNCHANGED <<time, links, mailed, tokens, at, read, link, resets>>

TimePasses ==
  /\ time < MaxTime
  /\ time' = time + 1
  /\ UNCHANGED <<row, links, mailed, tokens, at, read, link, resets>>

AccessNext ==
  \/ \E t \in Threads :
       \/ Login(t) \/ Refresh(t) \/ Issue(t)
       \/ Forgot(t) \/ StoreLink(t) \/ Mail(t)
       \/ OpenLink(t) \/ SetPassword(t) \/ Fail(t)
       \/ ChangeRow(t)
  \/ TimePasses

AccessSpec == AccessInit /\ [][AccessNext]_accessVars

-----------------------------------------------------------------------------
(* What should hold.                                                       *)

Stale(token) == ~active \/ token.claims # standing

(* auth/jwt.py and get_current_user: claims are believed without a look at *)
(* the row, so an access token that says what is no longer so, or that     *)
(* belongs to a deactivated account, is out of use one access lifetime     *)
(* after the change, refreshes included; but for tokens issued from a row  *)
(* that was read just before the change.                                   *)
StaleAccessExpires ==
  \A token \in {issued \in tokens : issued.kind = "access"} :
    Valid(token) /\ Stale(token) /\ ~raced => time < changed + AccessLife

(* However requests overlap, stale claims come from a row read before the  *)
(* change: refresh never carries the claims of an old token on.            *)
StaleClaimsPredateChange ==
  \A token \in tokens : Stale(token) => token.read <= changed

(* forgot_password: a link that reached the user is in the database.       *)
MailedLinksExist == mailed \subseteq DOMAIN links

(* What the code does guarantee: whoever sets a password with a link read  *)
(* it before anyone had, so no more can than there are threads, and with   *)
(* one thread a link works once.                                           *)
LinkUsesAreBounded ==
  \A i \in DOMAIN links : resets[i] <= Cardinality(Threads)

(* What a token says is true, or will not be believed for long.            *)
StaleClaimsExpire == AccessTypeOK /\ StaleAccessExpires /\ StaleClaimsPredateChange

(* A link that was mailed works, and how often is bounded.                 *)
LinksWork == MailedLinksExist /\ LinkUsesAreBounded
=============================================================================
