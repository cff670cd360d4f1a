------------------------------ MODULE Credentials ------------------------------
(***************************************************************************)
(* The secrets of orchd: connector accounts (connectors/accounts.rs) and   *)
(* the bearers of MCP servers (socket_server.rs).  A row in the database   *)
(* names the Keychain entries of its owner; the Keychain takes no part in  *)
(* a transaction, and a login, a refresh and McpSetServerBearer write it   *)
(* without the database mutex, which a delete holds from its lookup to its *)
(* commit.                                                                 *)
(*                                                                         *)
(* A secret is there or not; an entry of the Keychain is a pair of owner   *)
(* and slot.  A definition marked `Bug:' is a faulty variant of the next.  *)
(***************************************************************************)
EXTENDS Naturals, Sequences

CONSTANTS
    Accounts,     \* account ids, each given to one login or api key
    Servers,      \* MCP servers whose rows are there at the start
    Askers,       \* calls of token_for, each of one account at a time
    MaxFaults,    \* bound on crashes, Keychain errors and database errors
    None

VARIABLES
    acct,         \* acct[a]: the account row
    srv,          \* srv[s]: the part of the server row that is about its bearer
    frozen,       \* servers of archived projects
    keychain,     \* the entries there are
    login,        \* login[a]: how far the login that will insert a has come
    asker,        \* asker[t]: a refresh in flight
    setter,       \* setter[s]: McpSetServerBearer in flight
    delete,       \* the delete that holds the database mutex, or Free
    leaky,        \* owners that may have left an entry no row names
    hollow,       \* owners whose row may name an entry that is gone
    faults

cred_vars == <<acct, srv, frozen, keychain, login, asker, setter, delete, leaky, hollow, faults>>

Owners == Accounts \cup Servers
Slots == {"token", "refresh", "apikey", "bearer"}

NoAccount == [st |-> "none", kind |-> "oauth", refresh |-> FALSE, expired |-> FALSE]
Idle == [pc |-> "idle", on |-> None]
Free == [of |-> None, left |-> <<>>]

Holds(x) == {slot \in Slots : <<x, slot>> \in keychain}
Live(a) == acct[a].st = "live"

\* The slots a row names, in the order delete_account visits them.
Named(x) ==
    IF x \in Servers THEN IF srv[x].st = "live" /\ srv[x].ref THEN <<"bearer">> ELSE <<>>
    ELSE IF ~Live(x) THEN <<>>
    ELSE IF acct[x].kind = "apikey" THEN <<"apikey">>
    ELSE IF acct[x].refresh THEN <<"token", "refresh">> ELSE <<"token">>
Refers(x) == {Named(x)[i] : i \in DOMAIN Named(x)}

Unlocked == delete = Free
Present(x) == IF x \in Servers THEN srv[x].st = "live" ELSE Live(x)

\* A write to the Keychain that a delete of its owner does not wait for.
Late(x) == delete.of = x \/ ~Present(x)

CredInit ==
    /\ acct = [a \in Accounts |-> NoAccount]
    /\ srv = [s \in Servers |-> [st |-> "live", ref |-> FALSE]]
    /\ frozen \in SUBSET Servers
    /\ keychain = {}
    /\ login = [a \in Accounts |-> "new"]
    /\ asker = [t \in Askers |-> Idle] /\ setter = [s \in Servers |-> "idle"]
    /\ delete = Free
    /\ leaky = {} /\ hollow = {} /\ faults = 0

----------------------------------------------------------------------------
(* A new account *)

Logs(a, from, to) == login[a] = from /\ login' = [login EXCEPT ![a] = to]

Others == <<srv, frozen, asker, setter, delete, hollow>>

\* The verifier waits under its state, in memory.
BeginOAuth(a) ==
    /\ Logs(a, "new", "begun")
    /\ UNCHANGED <<acct, keychain, leaky, faults, Others>>

\* The state is used up, whatever the exchange brings.
CompleteOAuth(a) ==
    /\ Logs(a, "begun", "exchanging")
    /\ UNCHANGED <<acct, keychain, leaky, faults, Others>>

ExchangeFails(a) ==
    /\ Logs(a, "exchanging", "over")
    /\ UNCHANGED <<acct, keychain, leaky, faults, Others>>

\* Into the Keychain first; nobody knows the id yet.
StoreTokens(a, slots) ==
    /\ Logs(a, "exchanging", "stored")
    /\ keychain' = keychain \cup ({a} \X slots)
    /\ UNCHANGED <<acct, leaky, faults, Others>>

Inserted(a, kind) ==
    [NoAccount EXCEPT !.st = "live", !.kind = kind, !.refresh = <<a, "refresh">> \in keychain']

InsertAccount(a) ==
    /\ Unlocked /\ Logs(a, "stored", "over")
    /\ UNCHANGED keychain
    /\ acct' = [acct EXCEPT ![a] = Inserted(a, "oauth")]
    /\ UNCHANGED <<leaky, faults, Others>>

\* Both under the mutex.
AddApiKey(a) ==
    /\ Unlocked /\ Logs(a, "new", "over")
    /\ keychain' = keychain \cup {<<a, "apikey">>}
    /\ acct' = [acct EXCEPT ![a] = Inserted(a, "apikey")]
    /\ UNCHANGED <<leaky, faults, Others>>

\* The second write to the Keychain, the insert or the process fails: what was
\* stored stays.
AddFails(a, slots) ==
    /\ faults < MaxFaults /\ faults' = faults + 1
    /\ \/ Logs(a, "exchanging", "over") /\ slots \subseteq {"token", "refresh"}
       \/ Logs(a, "stored", "over") /\ slots = {}
       \/ Logs(a, "new", "over") /\ slots = {"apikey"} /\ Unlocked
    /\ keychain' = keychain \cup ({a} \X slots)
    /\ leaky' = leaky \cup {a}
    /\ UNCHANGED <<acct, Others>>

----------------------------------------------------------------------------
(* token_for of an account whose access token has expired *)

Expire(a) ==
    /\ Live(a) /\ acct[a].kind = "oauth" /\ ~acct[a].expired
    /\ acct' = [acct EXCEPT ![a].expired = TRUE]
    /\ UNCHANGED <<srv, frozen, keychain, login, asker, setter, delete, leaky, hollow, faults>>

Asks(t, pc) == asker' = [asker EXCEPT ![t].pc = pc]
Rest == <<srv, frozen, login, setter, delete, hollow, faults>>

\* The row is read under the mutex, the refresh token after it.
ReadAccount(t, a) ==
    /\ asker[t] = Idle /\ Unlocked
    /\ Live(a) /\ acct[a].expired /\ acct[a].refresh
    /\ asker' = [asker EXCEPT ![t] = [pc |-> "read", on |-> a]]
    /\ UNCHANGED <<acct, keychain, leaky, Rest>>

ReadRefresh(t) ==
    /\ asker[t].pc = "read"
    /\ IF <<asker[t].on, "refresh">> \in keychain THEN Asks(t, "asked")
       ELSE asker' = [asker EXCEPT ![t] = Idle]
    /\ UNCHANGED <<acct, keychain, leaky, Rest>>

\* The provider or the Keychain refuses, with or without the new access token stored.
RefreshFails(t) ==
    /\ asker[t].pc \in {"asked", "renewed"}
    /\ asker' = [asker EXCEPT ![t] = Idle]
    /\ UNCHANGED <<acct, keychain, leaky, Rest>>

StoreAccess(t) ==
    /\ asker[t].pc = "asked"
    /\ keychain' = keychain \cup {<<asker[t].on, "token">>}
    /\ leaky' = IF Late(asker[t].on) THEN leaky \cup {asker[t].on} ELSE leaky
    /\ Asks(t, "renewed")
    /\ UNCHANGED <<acct, Rest>>

\* A provider need not issue a new refresh token.
StoreRefresh(t, rotated) ==
    /\ asker[t].pc = "renewed"
    /\ keychain' = keychain \cup (IF rotated THEN {<<asker[t].on, "refresh">>} ELSE {})
    /\ leaky' = IF rotated /\ Late(asker[t].on) THEN leaky \cup {asker[t].on} ELSE leaky
    /\ Asks(t, "stored")
    /\ UNCHANGED <<acct, Rest>>

\* Bug: an answer without a refresh token clears the reference, as if the token were gone.
Renewed(row) == [row EXCEPT !.expired = FALSE, !.refresh = FALSE]

\* COALESCE keeps the reference.
Updated(row) == [row EXCEPT !.expired = FALSE]

\* update_account_tokens; a row deleted meanwhile is NotFound.
UpdateTokens(t) ==
    LET a == asker[t].on IN
    /\ asker[t].pc = "stored" /\ Unlocked
    /\ acct' = IF Live(a) THEN [acct EXCEPT ![a] = Updated(@)] ELSE acct
    /\ asker' = [asker EXCEPT ![t] = Idle]
    /\ UNCHANGED <<keychain, leaky, Rest>>

----------------------------------------------------------------------------
(* McpSetServerBearer *)

Else == <<acct, frozen, login, asker, delete, hollow, faults>>

CheckServer(s) ==
    /\ setter[s] = "idle" /\ Unlocked /\ srv[s].st = "live"
    /\ setter' = [setter EXCEPT ![s] = "checked"]
    /\ UNCHANGED <<srv, keychain, leaky, Else>>

StoreBearer(s) ==
    /\ setter[s] = "checked"
    /\ keychain' = keychain \cup {<<s, "bearer">>}
    /\ leaky' = IF Late(s) THEN leaky \cup {s} ELSE leaky
    /\ setter' = [setter EXCEPT ![s] = "stored"]
    /\ UNCHANGED <<srv, Else>>

\* The reference is committed even if update_mcp_server then refuses a server
\* of an archived project.
RecordBearer(s) ==
    /\ setter[s] = "stored" /\ Unlocked
    /\ srv' = IF srv[s].st = "live" THEN [srv EXCEPT ![s].ref = TRUE] ELSE srv
    /\ setter' = [setter EXCEPT ![s] = "idle"]
    /\ UNCHANGED <<keychain, leaky, Else>>

Archive(s) ==
    /\ Unlocked
    /\ frozen' = IF s \in frozen THEN frozen \ {s} ELSE frozen \cup {s}
    /\ UNCHANGED <<acct, srv, keychain, login, asker, setter, delete, leaky, hollow, faults>>

----------------------------------------------------------------------------
(* ConnectorDeleteAccount and McpDeleteServer, under the mutex *)

\* McpDeleteServer deletes the bearer whether or not the row names one.
Visited(x) == IF x \in Servers THEN <<"bearer">> ELSE Named(x)

DeleteBegin(x) ==
    /\ Unlocked /\ Present(x)
    /\ delete' = [of |-> x, left |-> Visited(x)]
    /\ UNCHANGED <<acct, srv, frozen, keychain, login, asker, setter, leaky, hollow, faults>>

\* An entry that is already gone is no error.
DeleteEntry ==
    /\ delete.left # <<>>
    /\ keychain' = keychain \ {<<delete.of, Head(delete.left)>>}
    /\ delete' = [delete EXCEPT !.left = Tail(@)]
    /\ UNCHANGED <<acct, srv, frozen, login, asker, setter, leaky, hollow, faults>>

DeleteRow ==
    LET x == delete.of IN
    /\ ~Unlocked /\ delete.left = <<>> /\ x \notin frozen
    /\ IF x \in Servers
       THEN srv' = [srv EXCEPT ![x] = [st |-> "gone", ref |-> FALSE]] /\ UNCHANGED acct
       ELSE acct' = [acct EXCEPT ![x] = [NoAccount EXCEPT !.st = "gone"]] /\ UNCHANGED srv
    /\ delete' = Free
    /\ UNCHANGED <<frozen, keychain, login, asker, setter, leaky, hollow, faults>>

\* delete_mcp_server refuses a server of an archived project, its bearer deleted.
DeleteRefused ==
    /\ ~Unlocked /\ delete.left = <<>> /\ delete.of \in frozen
    /\ hollow' = hollow \cup {delete.of}
    /\ delete' = Free
    /\ UNCHANGED <<acct, srv, frozen, keychain, login, asker, setter, leaky, faults>>

\* A Keychain or database error: the row stays.
DeleteFails ==
    /\ faults < MaxFaults /\ faults' = faults + 1
    /\ ~Unlocked
    /\ hollow' = hollow \cup {delete.of}
    /\ delete' = Free
    /\ UNCHANGED <<acct, srv, frozen, keychain, login, asker, setter, leaky>>

\* The daemon dies: a login or bearer that was stored has no row, a delete is half done.
Crash ==
    /\ faults < MaxFaults /\ faults' = faults + 1
    /\ leaky' = leaky \cup {a \in Accounts : login[a] = "stored"}
                      \cup {s \in Servers : setter[s] = "stored"}
    /\ hollow' = IF Unlocked THEN hollow ELSE hollow \cup {delete.of}
    /\ login' = [a \in Accounts |-> IF login[a] = "new" THEN "new" ELSE "over"]
    /\ asker' = [t \in Askers |-> Idle] /\ setter' = [s \in Servers |-> "idle"]
    /\ delete' = Free
    /\ UNCHANGED <<acct, srv, frozen, keychain>>

----------------------------------------------------------------------------
CredNext ==
    \/ \E a \in Accounts :
         \/ BeginOAuth(a) \/ CompleteOAuth(a) \/ ExchangeFails(a) \/ InsertAccount(a)
         \/ \E slots \in {{"token"}, {"token", "refresh"}} : StoreTokens(a, slots)
         \/ AddApiKey(a) \/ Expire(a)
         \/ \E slots \in {{}, {"token"}, {"token", "refresh"}, {"apikey"}} : AddFails(a, slots)
    \/ \E t \in Askers :
         \/ \E a \in Accounts : ReadAccount(t, a)
         \/ ReadRefresh(t) \/ RefreshFails(t) \/ StoreAccess(t) \/ UpdateTokens(t)
         \/ \E rotated \in BOOLEAN : StoreRefresh(t, rotated)
    \/ \E s \in Servers : CheckServer(s) \/ StoreBearer(s) \/ RecordBearer(s) \/ Archive(s)
    \/ \E x \in Owners : DeleteBegin(x)
    \/ DeleteEntry \/ DeleteRow \/ DeleteRefused \/ DeleteFails \/ Crash

CredSpec == CredInit /\ [][CredNext]_cred_vars

----------------------------------------------------------------------------
(* Properties *)

AccountRows == [st : {"none", "live", "gone"}, kind : {"oauth", "apikey"},
                refresh : BOOLEAN, expired : BOOLEAN]

\* The state is of the shape the variables' comments give.
CredTypeOK ==
    /\ acct \in [Accounts -> AccountRows]
    /\ srv \in [Servers -> [st : {"live", "gone"}, ref : BOOLEAN]]
    /\ frozen \subseteq Servers
    /\ keychain \subseteq Owners \X Slots
    /\ login \in [Accounts -> {"new", "begun", "exchanging", "stored", "over"}]
    /\ asker \in [Askers -> [pc : {"idle", "read", "asked", "renewed", "stored"},
                             on : Accounts \cup {None}]]
    /\ setter \in [Servers -> {"idle", "checked", "stored"}]
    /\ delete.of \in Owners \cup {None} /\ delete.left \in Seq(Slots)
    /\ leaky \subseteq Owners /\ hollow \subseteq Owners
    /\ faults \in 0..MaxFaults

Settled(x) ==
    /\ delete.of # x
    /\ IF x \in Servers THEN setter[x] # "stored" ELSE login[x] # "stored"

\* Once nobody is at work on an owner, the Keychain holds the entries its row
\* names and no others, so that a delete leaves nothing behind and a call finds
\* its secret (accounts.rs:726-729, socket_server.rs:1954-1963).  What the code
\* leaves open: a delete that a refresh or a bearer's write overlaps, a login or
\* write cut short (leaky), and a delete refused or cut short (hollow).
SecretsMatchRows ==
    \A x \in Owners : Settled(x) =>
        /\ x \notin hollow => Refers(x) \subseteq Holds(x)
        /\ x \notin leaky => Holds(x) \subseteq Refers(x)
=============================================================================
