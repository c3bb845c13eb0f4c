----------------------------- MODULE Credentials -----------------------------
(***************************************************************************)
(* The stored credentials of one mailbox: the password in its accounts     *)
(* row, which is encrypted, the hash in admins, which a login checks while *)
(* the mail server cannot be reached, and an MCP key.  They are written by *)
(* logins that run side by side, by the account and password handlers, by  *)
(* the deletion of the account, and by RekeyAll, the command that          *)
(* encrypts them again when the list ENCRYPTION_KEYS changes.              *)
(*                                                                         *)
(* Edition Mono.  A password is the number of the change that set it on    *)
(* the mail server; 0 stands for no row.  Key 2 replaces key 1.  Bodies of *)
(* messages, AI settings and tokens are encrypted, too, but RekeyAll       *)
(* leaves them as they are: they are not followed here.                    *)
(***************************************************************************)
EXTENDS Naturals, Sequences, FiniteSets

CONSTANTS
    Login,       \* requests that log in
    MaxPassword, \* bound: passwords the mailbox has in turn
    MaxRequests, \* bound: requests
    MaxFaults    \* bound: statements that fail

CredentialsAssumption ==
    /\ IsFiniteSet(Login)
    /\ MaxPassword \in Nat \ {0} /\ MaxRequests \in Nat /\ MaxFaults \in Nat

Password == 1..MaxPassword
Key == 1..2
Secret == [pw : Password, key : Key]
NoSecret == [pw |-> 0, key |-> 0]

VARIABLES
    provider,  \* the password the mail server accepts
    account,   \* row of accounts
    hash,      \* row of admins: the password it was made from, or 0
    mcp,       \* mcp_keys: the key of its row, or 0
    login,     \* HandleLogin
    rekey,     \* RekeyAll
    env,       \* ENCRYPTION_KEYS for processes that start
    config,    \* ENCRYPTION_KEYS of the server
    careful,   \* whether the server is restarted after every change of it
    skipped,   \* history: RekeyAll left a row out
    confirmed, \* history: password of the last undisturbed login, or 0
    spent

vars == <<provider, account, hash, mcp, login, rekey, env, config, careful,
          skipped, confirmed, spent>>

stored == <<account, hash, mcp>>
keys == <<env, config, careful>>

Done == [pc |-> "idle", pw |-> 0, ok |-> FALSE]

Init ==
    /\ provider = 1
    /\ account = [status |-> "none", secret |-> NoSecret]
    /\ hash = 0 /\ mcp = 0
    /\ login = [l \in Login |-> Done]
    /\ rekey = [pc |-> "idle", secret |-> NoSecret, mcp |-> 0]
    /\ env = <<1>> /\ config = <<1>>
    /\ careful \in BOOLEAN
    /\ skipped = FALSE /\ confirmed = 0
    /\ spent = [requests |-> 0, faults |-> 0]

Fault == spent.faults < MaxFaults /\ spent' = [spent EXCEPT !.faults = @ + 1]
Request == spent.requests < MaxRequests /\ spent' = [spent EXCEPT !.requests = @ + 1]

------------------------------------------------------------------------------
(* Encryption.                                                             *)

(* Mutant: the last key of the list encrypts.                              *)
EncryptLast(pw, list) == [pw |-> pw, key |-> list[Len(list)]]

Encrypt(pw, list) == [pw |-> pw, key |-> list[1]]

(* Every key of the list is tried.                                         *)
Decrypts(key, list) == \E i \in DOMAIN list : list[i] = key

Readable == account.status # "none" /\ Decrypts(account.secret.key, config)

------------------------------------------------------------------------------
(* HandleLogin.                                                            *)

Set(l, step) == login' = [login EXCEPT ![l] = step]
Goto(l, pc) == Set(l, [login[l] EXCEPT !.pc = pc])

(* A request ends; an undisturbed one that stored everything is confirmed. *)
End(l, good) ==
    /\ Set(l, Done)
    /\ confirmed' = IF good /\ login[l].ok THEN login[l].pw ELSE 0

Rekeying == rekey.pc \in {"accounts", "keys"}

Alone(l) == \A o \in Login \ {l} : login[o].pc = "idle"

(* tryIMAPLogin: the server is reached and accepts the password.           *)
TryIMAPLogin(l) ==
    /\ login[l].pc = "idle" /\ Request
    /\ login' = [o \in Login |->
           IF o = l THEN [pc |-> "lookup", pw |-> provider, ok |-> Alone(l) /\ ~Rekeying]
           ELSE [login[o] EXCEPT !.ok = FALSE]]
    /\ confirmed' = 0
    /\ UNCHANGED <<provider, stored, rekey, keys, skipped>>

(* GetAccountCredentialsByEmail also finds the row of a deleted account.   *)
(* It fails on a password that no key decrypts.                            *)
Lookup(l) ==
    /\ login[l].pc = "lookup"
    /\ Goto(l, IF ~Readable THEN "list"
               ELSE IF account.secret.pw # login[l].pw THEN "refresh" ELSE "cache")
    /\ UNCHANGED <<provider, stored, rekey, keys, skipped, confirmed, spent>>

(* Among the accounts that are not deleted.                                *)
GetAccounts(l) ==
    /\ login[l].pc = "list"
    /\ Goto(l, IF account.status = "active" THEN "restore" ELSE "create")
    /\ UNCHANGED <<provider, stored, rekey, keys, skipped, confirmed, spent>>

(* The e-mail address of an account is unique.                             *)
CreateAccount(l) ==
    /\ login[l].pc = "create"
    /\ \/ /\ account.status = "none"
          /\ account' = [status |-> "active", secret |-> Encrypt(login[l].pw, config)]
          /\ Goto(l, "cache")
          /\ UNCHANGED <<confirmed, spent>>
       \/ account.status # "none" /\ End(l, FALSE) /\ UNCHANGED <<account, spent>>
       \/ Fault /\ End(l, FALSE) /\ UNCHANGED account
    /\ UNCHANGED <<provider, hash, mcp, rekey, keys, skipped>>

(* Mutant: a row whose password cannot be read keeps it.                   *)
UpdatedKept(pw) == IF Readable THEN [account EXCEPT !.secret = Encrypt(pw, config)] ELSE account

(* UpdateAccount changes nothing of a deleted account, and says so to      *)
(* nobody.                                                                 *)
Updated(pw) ==
    IF account.status = "active" THEN [account EXCEPT !.secret = Encrypt(pw, config)] ELSE account

(* An unreadable password is encrypted again; a failure ends the request.  *)
(* A changed one is stored; a failure is logged.                           *)
UpdateAccount(l) ==
    /\ login[l].pc \in {"restore", "refresh"}
    /\ \/ account' = Updated(login[l].pw) /\ Goto(l, "cache") /\ UNCHANGED <<confirmed, spent>>
       \/ /\ Fault /\ UNCHANGED account
          /\ IF login[l].pc = "restore" THEN End(l, FALSE)
             ELSE Set(l, [login[l] EXCEPT !.pc = "cache", !.ok = FALSE]) /\ UNCHANGED confirmed
    /\ UNCHANGED <<provider, hash, mcp, rekey, keys, skipped>>

(* cacheMonoLoginPassword looks for the row of admins                      *)
GetAdmin(l) ==
    /\ login[l].pc = "cache"
    /\ \/ Goto(l, IF hash = 0 THEN "insert" ELSE "update") /\ UNCHANGED <<confirmed, spent>>
       \/ Fault /\ End(l, FALSE)
    /\ UNCHANGED <<provider, stored, rekey, keys, skipped>>

(* and then inserts or updates it.  An insert fails if another request     *)
(* was faster; failures are logged.                                        *)
CacheMonoLoginPassword(l) ==
    /\ login[l].pc \in {"insert", "update"}
    /\ \/ /\ IF login[l].pc = "insert" /\ hash # 0 THEN hash' = hash ELSE hash' = login[l].pw
          /\ End(l, TRUE) /\ UNCHANGED spent
       \/ Fault /\ End(l, FALSE) /\ UNCHANGED hash
    /\ UNCHANGED <<provider, account, mcp, rekey, keys, skipped>>

LoginStep(l) ==
    \/ Lookup(l) \/ GetAccounts(l) \/ CreateAccount(l) \/ UpdateAccount(l)
    \/ GetAdmin(l) \/ CacheMonoLoginPassword(l)

(* While the mail server cannot be reached.                                *)
MonoOfflineLoginOK(pw) == hash = pw \/ (Readable /\ account.secret.pw = pw)

------------------------------------------------------------------------------
(* Other requests.                                                         *)

Disturb ==
    /\ login' = [l \in Login |-> [login[l] EXCEPT !.ok = FALSE]]
    /\ confirmed' = 0

(* The account settings store whatever password they are given.            *)
SaveAccount ==
    /\ Request
    /\ account.status = "active"
    /\ \E pw \in Password : account' = Updated(pw)
    /\ Disturb
    /\ UNCHANGED <<provider, hash, mcp, rekey, keys, skipped>>

HandleChangePassword ==
    /\ Request /\ hash # 0
    /\ hash' \in Password
    /\ Disturb
    /\ UNCHANGED <<provider, account, mcp, rekey, keys, skipped>>

DeleteAccount ==
    /\ Request /\ account.status = "active"
    /\ account' = [account EXCEPT !.status = "deleted"]
    /\ UNCHANGED <<provider, hash, mcp, login, rekey, keys, skipped, confirmed>>

CreateMCPKey ==
    /\ Request /\ mcp = 0
    /\ mcp' = Encrypt(0, config).key
    /\ UNCHANGED <<provider, account, hash, login, rekey, keys, skipped, confirmed>>

------------------------------------------------------------------------------
(* Key rotation.                                                           *)

Latest(list) == list[1] = 2

(* The server stops, with the requests under way, and starts again.        *)
Restart(list) ==
    /\ config' = list
    /\ login' = [l \in Login |-> Done]
    /\ confirmed' = IF \E l \in Login : login[l].pc # "idle" THEN 0 ELSE confirmed

(* The new key is put in front, and, once RekeyAll is done, the old one    *)
(* removed.                                                                *)
ChangeKeys(list) ==
    /\ ~Rekeying
    /\ env' = list
    /\ IF careful THEN Restart(list) ELSE UNCHANGED <<config, login, confirmed>>
    /\ UNCHANGED <<provider, stored, rekey, careful, skipped, spent>>

AddKey == env = <<1>> /\ ChangeKeys(<<2, 1>>)

RemoveKey == env = <<2, 1>> /\ rekey.pc = "done" /\ ChangeKeys(<<2>>)

RestartServer ==
    /\ config # env
    /\ Restart(env)
    /\ UNCHANGED <<provider, stored, rekey, env, careful, skipped, spent>>

(* RekeyAll, in a process of its own: what it reads and encrypts again     *)
(* are the passwords,                                                      *)
RekeyRead ==
    /\ rekey.pc = "idle" /\ Latest(env)
    /\ rekey' = [rekey EXCEPT !.pc = "accounts", !.secret =
           IF account.status # "none" /\ Decrypts(account.secret.key, env)
           THEN Encrypt(account.secret.pw, env) ELSE NoSecret]
    /\ login' = [l \in Login |-> [login[l] EXCEPT !.ok = FALSE]]
    /\ UNCHANGED <<provider, stored, keys, skipped, confirmed, spent>>

(* Mutant: what could not be read is written back as well.                 *)
RekeyedBlank == [account EXCEPT !.secret = rekey.secret]

Rekeyed ==
    IF rekey.secret = NoSecret THEN account ELSE [account EXCEPT !.secret = rekey.secret]

(* which it writes back.  A failure is logged.                             *)
RekeyAccounts ==
    /\ rekey.pc = "accounts"
    /\ rekey' = [rekey EXCEPT !.pc = "keys", !.mcp =
           IF mcp # 0 /\ Decrypts(mcp, env) THEN Encrypt(0, env).key ELSE 0]
    /\ \/ /\ account' = Rekeyed
          /\ UNCHANGED <<skipped, spent>>
       \/ Fault /\ skipped' = TRUE /\ UNCHANGED account
    /\ UNCHANGED <<provider, hash, mcp, login, keys, confirmed>>

RekeyMCPKeys ==
    /\ rekey.pc = "keys"
    /\ rekey' = [pc |-> "done", secret |-> NoSecret, mcp |-> 0]
    /\ \/ mcp' = (IF rekey.mcp = 0 THEN mcp ELSE rekey.mcp) /\ UNCHANGED <<skipped, spent>>
       \/ Fault /\ skipped' = TRUE /\ UNCHANGED mcp
    /\ UNCHANGED <<provider, account, hash, login, keys, confirmed>>

------------------------------------------------------------------------------
(* The owner of the mailbox gets a new password.                           *)
NewPassword ==
    /\ provider < MaxPassword
    /\ provider' = provider + 1
    /\ UNCHANGED <<stored, login, rekey, keys, skipped, confirmed, spent>>

Next ==
    \/ \E l \in Login : TryIMAPLogin(l) \/ LoginStep(l)
    \/ SaveAccount \/ HandleChangePassword \/ DeleteAccount \/ CreateMCPKey
    \/ AddKey \/ RemoveKey \/ RestartServer
    \/ RekeyRead \/ RekeyAccounts \/ RekeyMCPKeys
    \/ NewPassword

Spec == Init /\ [][Next]_vars

------------------------------------------------------------------------------
(* Properties.                                                             *)

(* The state has the declared shape.                                       *)
TypeOK ==
    /\ provider \in Password
    /\ account \in [status : {"none", "active", "deleted"}, secret : Secret \cup {NoSecret}]
    /\ account.status = "none" <=> account.secret = NoSecret
    /\ hash \in 0..MaxPassword /\ mcp \in 0..2
    /\ login \in [Login -> [pc : {"idle", "lookup", "list", "create", "restore", "refresh",
                                  "cache", "insert", "update"},
                            pw : 0..MaxPassword, ok : BOOLEAN]]
    /\ rekey \in [pc : {"idle", "accounts", "keys", "done"},
                  secret : Secret \cup {NoSecret}, mcp : 0..2]
    /\ {env, config} \subseteq {<<1>>, <<2, 1>>, <<2>>}
    /\ {careful, skipped} \subseteq BOOLEAN
    /\ confirmed \in 0..MaxPassword

(* The password of a login that nothing disturbed is the one the           *)
(* synchronisation uses and a login without the mail server accepts, even  *)
(* if the row could not be read before, or keys were changed since; unless *)
(* the account was deleted.                                                *)
LoginKept ==
    confirmed # 0 /\ account.status = "active" =>
        account.secret.pw = confirmed /\ MonoOfflineLoginOK(confirmed)

(* Stored passwords and MCP keys can be read in every phase of a key       *)
(* rotation, also those written while RekeyAll runs, if the server is      *)
(* restarted with each new list and RekeyAll wrote every row.              *)
SecretsReadable ==
    careful /\ ~skipped =>
        /\ account.status # "none" => Readable
        /\ mcp # 0 => Decrypts(mcp, config)

(* Passwords and keys are there when they are needed.                      *)
SecretsKept == LoginKept /\ SecretsReadable

=============================================================================
