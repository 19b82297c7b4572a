---------------------------- MODULE OrgConnection ----------------------------
(***************************************************************************)
(* The connection to one registered sandbox, in one window: the            *)
(* credentials the vault keeps and the entry the pool keeps, the calls of  *)
(* getJsforceConnection that validate and renew them side by side          *)
(* (ConnectionHelper.ts, ConnectionPool.ts, OrgRegistry.ts), the import    *)
(* and the disconnect of the org (OrgHandler.ts), and what notices that    *)
(* the sandbox was refreshed and drops what is kept about the org it was   *)
(* (SandboxRefreshDetector.ts, SandboxRefreshTracker.ts, describeCache.ts).*)
(*                                                                         *)
(* A refresh makes the sandbox another org behind the same entry: orgs are *)
(* numbered 1, 2, ... and the entry was registered with org 1.  Times are  *)
(* counted in refreshes started, all that is compared of them.  The circuit*)
(* breaker is a module of its own (CircuitBreaker).                        *)
(***************************************************************************)
EXTENDS Integers, Sequences, FiniteSets

CONSTANTS
    Call,           \* the calls of getJsforceConnection that may overlap
    MaxRefreshes,   \* bound: refreshes of the sandbox
    MaxTrouble      \* bound: what else happens to the org, its entry or the CLI,
                    \* describes and reads of the Monitor, refreshes after the first

ASSUME BoundAssumption == MaxRefreshes \in Nat /\ MaxTrouble \in Nat

VARIABLES
    org,        \* the sandbox: which org it is, its address, the sessions it accepts
    started,    \* refreshes of it started, those completed included
    cli,        \* what the sf CLI stores: address, session, the org it logged in to
    able,       \* whether the CLI can renew its session
    known,      \* whether OrgManager lists the entry
    vault,      \* the credentials kept for it
    pool,       \* its pooled connection, and whether lastValidatedAt is recent
    calls,      \* where each call is
    conn,       \* the session of the connection handed out last, 0 when it does not work
    monitor,    \* the org the Monitor's read answered as, 0 for no such read
    import,     \* the import under way
    leaving,    \* the disconnect under way
    record,     \* what the detector keeps of the entry
    seen,       \* the completed refreshes the production org's tracker has seen
    describe,   \* the org the cached describe is of, 0 for none
    told,       \* for each org, how often the refresh into it was told
    clean,      \* history: nothing was under way when the disconnect began
    gone,       \* history: disconnected so, and not imported since
    trouble     \* how much trouble there was

vars == <<org, started, cli, able, known, vault, pool, calls, conn, monitor,
          import, leaving, record, seen, describe, told, clean, gone, trouble>>

World == <<org, started, cli, able>>
Entry == <<known, vault>>
Cached == <<pool, describe>>
Noticed == <<record, told>>
History == <<clean, gone>>
Others == <<monitor, import, leaving, seen, trouble>>

Orgs == 1..MaxRefreshes + 1
None == [url |-> 0, token |-> 0]
Cred == [url : Nat, token : Nat]
Empty == [url |-> 0, token |-> 0, recent |-> FALSE]
Idle == [at |-> "idle", cred |-> None, says |-> 0]
NoImport == [at |-> "idle", cred |-> None, org |-> 0]

(* Whether the org accepts these credentials now: the session lives, and is  *)
(* shown at the address the org has.                                         *)
Works(c) == c.url = org.url /\ c.token \in org.alive

Init ==
    /\ org = [id |-> 1, url |-> 1, alive |-> {1}, last |-> 1]
    /\ started = 0
    /\ cli = [url |-> 1, token |-> 1, org |-> 1] /\ able = TRUE
    /\ known = TRUE /\ vault = [url |-> 1, token |-> 1]
    /\ pool = Empty /\ conn = 0 /\ describe = 0
    /\ calls = [c \in Call |-> Idle]
    /\ monitor = 0 /\ import = NoImport /\ leaving = "no"
    /\ record = [id |-> 1, former |-> {}, refreshes |-> <<>>]
    /\ seen = {}
    /\ told = [o \in Orgs |-> 0]
    /\ clean = FALSE /\ gone = FALSE
    /\ trouble = 0

Troubled == trouble < MaxTrouble /\ trouble' = trouble + 1

-----------------------------------------------------------------------------
(* The sandbox and the CLI. *)

(* A session of the org expires. *)
Expire(t) ==
    /\ Troubled
    /\ org' = [org EXCEPT !.alive = @ \ {t}]
    /\ conn' = IF conn = t THEN 0 ELSE conn
    /\ UNCHANGED <<started, cli, able, Entry, Cached, calls, monitor, import, leaving,
                   Noticed, seen, History>>

(* The org gets another address: a My Domain change, an instance move. *)
Move ==
    /\ Troubled
    /\ org' = [org EXCEPT !.url = @ + 1]
    /\ conn' = 0
    /\ UNCHANGED <<started, cli, able, Entry, Cached, calls, monitor, import, leaving,
                   Noticed, seen, History>>

(* A refresh is started; once it completes the sandbox is another org, of   *)
(* another address, that knows no session of the old one.  A refresh comes  *)
(* a day after the last at the earliest: an org with an answer under way    *)
(* when its refresh completes has answered before.                          *)
RefreshStarts ==
    /\ started < MaxRefreshes /\ started = org.id - 1
    /\ started' = started + 1
    /\ IF started = 0 THEN UNCHANGED trouble ELSE Troubled
    /\ UNCHANGED <<org, cli, able, Entry, Cached, calls, conn, monitor, import, leaving,
                   seen, Noticed, History>>

RefreshCompletes ==
    /\ started = org.id
    /\ \A c \in Call : calls[c].says \in {0, record.id}
    /\ monitor \in {0, record.id}
    /\ org' = [org EXCEPT !.id = @ + 1, !.url = @ + 1, !.alive = {}]
    /\ conn' = 0
    /\ UNCHANGED <<started, cli, able, Entry, Cached, calls, Others, Noticed, History>>

(* What the CLI stores once it was asked for a live session: a new one when *)
(* its own is not accepted and it can renew it.                             *)
Renews == able /\ ~Works(cli)
Renew ==
    /\ org' = IF Renews THEN [org EXCEPT !.last = @ + 1, !.alive = @ \cup {org.last + 1}]
                        ELSE org
    /\ cli' = IF Renews THEN [url |-> org.url, token |-> org.last + 1, org |-> org.id]
                        ELSE cli

CliLosesSession ==
    /\ able /\ Troubled /\ able' = FALSE
    /\ UNCHANGED <<org, started, cli, Entry, Cached, calls, conn, monitor, import, leaving,
                   Noticed, seen, History>>

CliLogin ==
    /\ ~able /\ able' = TRUE
    /\ UNCHANGED <<org, started, cli, Entry, Cached, calls, conn, Others, Noticed, History>>

-----------------------------------------------------------------------------
(* The detector: which org the sandbox answered as last. *)

(* An answer reveals a refresh unless it names the org the entry is at, or   *)
(* one it was before: such an answer was read before the refresh.            *)
AnotherOrg(o) == known /\ o # record.id
Reveals(o) == known /\ o # record.id /\ o \notin record.former

(* The production org has reported a refresh whose org is not known yet. *)
Pending ==
    /\ record.refreshes # <<>>
    /\ Head(record.refreshes).production /\ Head(record.refreshes).id = 0

Tells(o) == Reveals(o) /\ ~Pending

(* observe(): a pending report is completed, another refresh is put first. *)
Observed(o) ==
    LET refreshes == IF Pending
                     THEN [record.refreshes EXCEPT ![1].id = o]
                     ELSE <<[production |-> FALSE, id |-> o, at |-> started]>>
                              \o record.refreshes
    IN  IF Reveals(o)
        THEN [id |-> o, former |-> record.former \cup {record.id}, refreshes |-> refreshes]
        ELSE record

(* forgetOrg(): the pooled connection and the describes go. *)
ForgetPooled(tells, pooled) ==
    /\ pool' = IF tells THEN Empty ELSE pooled
    /\ UNCHANGED describe
Forget(tells, pooled) ==
    /\ pool' = IF tells THEN Empty ELSE pooled
    /\ describe' = IF tells THEN 0 ELSE describe

(* The org answered as o, the pool holding `pooled`. *)
Observe(o, pooled) ==
    /\ record' = Observed(o)
    /\ told' = IF Tells(o) THEN [told EXCEPT ![o] = @ + 1] ELSE told
    /\ Forget(Tells(o), pooled)

(* The Monitor reads the Organization row through a connection it was given, *)
(* and hands it to the detector once it has it.                              *)
MonitorReads ==
    /\ conn # 0 /\ monitor = 0 /\ Troubled
    /\ monitor' = org.id
    /\ UNCHANGED <<World, Entry, Cached, calls, conn, import, leaving, seen, Noticed,
                   History>>

MonitorReports ==
    /\ monitor # 0
    /\ Observe(monitor, pool)
    /\ monitor' = 0
    /\ UNCHANGED <<World, Entry, calls, conn, import, leaving, seen, trouble, History>>

(* noteCompletedRefresh() of the refresh into org o, unless the sandbox told *)
(* of one after it was started.                                              *)
AskAgain(o) == FALSE
AlreadyTold(o) ==
    \E i \in 1..Len(record.refreshes) :
        ~record.refreshes[i].production /\ record.refreshes[i].at >= o - 1

(* The production org's tracker reads its history and reports the completed  *)
(* refreshes it had not seen, all in one go.                                 *)
Fetched ==
    LET unseen == (2..org.id) \ seen
        telling == {o \in unseen : known /\ ~AlreadyTold(o)}
        reports == [i \in 1..Cardinality(telling) |->
                       [production |-> TRUE, id |-> 0, at |-> started]]
    IN  /\ unseen # {}
        /\ seen' = seen \cup unseen
        /\ record' = [record EXCEPT !.refreshes = reports \o @]
        /\ told' = [o \in Orgs |-> IF o \in telling THEN told[o] + 1 ELSE told[o]]
        /\ Forget(telling # {}, pool)
        /\ UNCHANGED <<World, Entry, calls, conn, monitor, import, leaving, trouble, History>>

-----------------------------------------------------------------------------
(* The describe cache keeps the promise as the org is asked, so that what is *)
(* under way is dropped with the rest; one that fails is not kept.           *)

Describe ==
    /\ describe = 0 /\ conn # 0 /\ Troubled
    /\ describe' = org.id
    /\ UNCHANGED <<World, Entry, pool, calls, conn, monitor, import, leaving, seen,
                   Noticed, History>>

(* DESCRIBE_CACHE_TTL_MS pass, or the describe fails. *)
DescribeGoes ==
    /\ describe # 0
    /\ describe' = 0
    /\ UNCHANGED <<World, Entry, pool, calls, conn, Others, Noticed, History>>

-----------------------------------------------------------------------------
(* The pool. *)

(* acquire(): an entry there is takes the new token and keeps its address. *)
acquire(c) ==
    [url |-> IF pool # Empty THEN pool.url ELSE c.url, token |-> c.token, recent |-> TRUE]

(* POOL_REVALIDATE_AFTER_MS pass. *)
Age ==
    /\ pool.recent /\ pool' = [pool EXCEPT !.recent = FALSE]
    /\ UNCHANGED <<World, Entry, describe, calls, conn, Others, Noticed, History>>

(* The entries of other orgs fill the pool: the oldest goes. *)
evictOldest ==
    /\ pool # Empty /\ Troubled /\ pool' = Empty
    /\ UNCHANGED <<World, Entry, describe, calls, conn, monitor, import, leaving, seen,
                   Noticed, History>>

-----------------------------------------------------------------------------
(* getJsforceConnection(), from one await to the next. *)

(* What the caller is given. *)
HandOut(c) == conn' = IF Works(c) THEN c.token ELSE 0

Goes(c, s) == calls' = [calls EXCEPT ![c] = s]
Ends(c) == Goes(c, Idle)

(* The entry is listed: the vault is asked for its credentials. *)
Begin(c) ==
    /\ calls[c].at = "idle" /\ known
    /\ Goes(c, [Idle EXCEPT !.at = "reading"])
    /\ clean' = (clean /\ leaving = "no")
    /\ UNCHANGED <<World, Entry, Cached, conn, Others, Noticed, gone>>

(* What a pool hit needs. *)
HitAnyAge == pool # Empty /\ pool.token = vault.token
PoolHit == pool # Empty /\ pool.token = vault.token /\ pool.recent

HasCredentials == vault # None

(* The credentials are read: none there are, a pooled connection is handed   *)
(* out, or the org is asked who it is.                                       *)
Read(c) ==
    /\ calls[c].at = "reading"
    /\ \/ /\ ~HasCredentials
          /\ Ends(c) /\ UNCHANGED conn
       \/ /\ HasCredentials /\ PoolHit
          /\ Ends(c) /\ HandOut(pool)
       \/ /\ HasCredentials /\ ~PoolHit
          /\ Goes(c, [Idle EXCEPT !.at = "asking", !.cred = vault]) /\ UNCHANGED conn
    /\ UNCHANGED <<World, Entry, Cached, Others, Noticed, History>>

(* The org answers an identity check with which org it is. *)
OrgAnswers(c) ==
    /\ calls[c].at = "asking" /\ Works(calls[c].cred)
    /\ Goes(c, [calls[c] EXCEPT !.at = "answered", !.says = org.id])
    /\ UNCHANGED <<World, Entry, Cached, conn, Others, Noticed, History>>

(* The connection is good: it is pooled, and the detector hears of the org. *)
Validated(c) ==
    /\ calls[c].at = "answered"
    /\ Observe(calls[c].says, acquire(calls[c].cred))
    /\ HandOut(calls[c].cred)
    /\ Ends(c)
    /\ UNCHANGED <<World, Entry, Others, History>>

(* The session is rejected: the CLI is asked for another. *)
Rejected(c) ==
    /\ calls[c].at = "asking" /\ ~Works(calls[c].cred)
    /\ pool' = Empty
    /\ Goes(c, [calls[c] EXCEPT !.at = "renewing"])
    /\ UNCHANGED <<World, Entry, describe, conn, Others, Noticed, History>>

(* No answer in time, or another error. *)
Failed(c) ==
    /\ calls[c].at = "asking" /\ Troubled
    /\ pool' = Empty
    /\ Ends(c)
    /\ UNCHANGED <<World, Entry, describe, conn, monitor, import, leaving, seen, Noticed, History>>

(* `sf org display` gives the address the CLI stores, or fails and leaves    *)
(* the one that was known; then `sf org auth show-access-token` gives a live *)
(* token, or an older CLI the stored one.  The very credentials that failed  *)
(* are not tried again.                                                      *)
CliAnswers(c) ==
    /\ calls[c].at = "renewing"
    /\ Renew
    /\ \E url \in {cli.url, calls[c].cred.url} :
         LET fresh == [url |-> url, token |-> cli'.token]
         IN  /\ IF url = cli.url THEN UNCHANGED trouble ELSE Troubled
             /\ IF fresh = calls[c].cred THEN Ends(c)
                ELSE Goes(c, [Idle EXCEPT !.at = "rechecking", !.cred = fresh])
    /\ UNCHANGED <<started, able, Entry, Cached, conn, monitor, import, leaving, seen, Noticed,
                   History>>

(* The vault, the CLI or the recheck fails or runs out of time. *)
GivesUp(c) ==
    /\ calls[c].at \in {"reading", "renewing", "rechecking", "saving"} /\ Troubled
    /\ Ends(c)
    /\ UNCHANGED <<World, Entry, Cached, conn, monitor, import, leaving, seen, Noticed, History>>

(* The org answers the recheck.  Only credentials it accepts are saved:      *)
(* saveOrg() lists the entry and goes to the vault.                          *)
Rechecked(c) ==
    /\ calls[c].at = "rechecking"
    /\ IF Works(calls[c].cred)
       THEN /\ Goes(c, [calls[c] EXCEPT !.at = "saving", !.says = org.id])
            /\ known' = TRUE
       ELSE Ends(c) /\ UNCHANGED known
    /\ UNCHANGED <<World, vault, Cached, conn, Others, Noticed, History>>

(* The vault has them: the connection is pooled, and the detector hears. *)
Recovered(c) ==
    /\ calls[c].at = "saving"
    /\ vault' = calls[c].cred
    /\ Observe(calls[c].says, acquire(calls[c].cred))
    /\ HandOut(calls[c].cred)
    /\ Ends(c)
    /\ UNCHANGED <<World, known, Others, History>>

-----------------------------------------------------------------------------
(* The Organizations page. *)

(* An import, or a reconnect through the CLI, lists the org as the CLI knows *)
(* it, its session live; that of an entry still listed counts as trouble.    *)
Import ==
    /\ import = NoImport
    /\ IF known THEN Troubled ELSE UNCHANGED trouble
    /\ Renew
    /\ import' = [at |-> "listed", cred |-> [url |-> cli'.url, token |-> cli'.token],
                  org |-> cli'.org]
    /\ UNCHANGED <<started, able, Entry, Cached, calls, conn, monitor, leaving, seen, Noticed, History>>

(* refreshedEntryFor(): the entry is updated when it has the org's own id,   *)
(* or is on record as refreshed into that org.                               *)
IsThisEntry(o) ==
    \/ o = 1
    \/ known /\ \E i \in 1..Len(record.refreshes) : record.refreshes[i].id = o

ImportSaves ==
    /\ import.at = "listed"
    /\ IF IsThisEntry(import.org)
       THEN /\ import' = [import EXCEPT !.at = "saving"]
            /\ known' = TRUE /\ gone' = FALSE
       ELSE import' = NoImport /\ UNCHANGED <<known, gone>>
    /\ clean' = (clean /\ leaving = "no")
    /\ UNCHANGED <<World, vault, Cached, calls, conn, monitor, leaving, seen, trouble,
                   Noticed>>

ImportStored ==
    /\ import.at = "saving"
    /\ vault' = import.cred
    /\ import' = NoImport
    /\ UNCHANGED <<World, known, Cached, calls, conn, monitor, leaving, seen, trouble,
                   Noticed, History>>

(* The vault fails: an entry that was not listed before is, without          *)
(* credentials.                                                              *)
ImportFails ==
    /\ import.at = "saving"
    /\ import' = NoImport
    /\ UNCHANGED <<World, Entry, Cached, calls, conn, monitor, leaving, seen, trouble,
                   Noticed, History>>

(* handleOrgDisconnect(): the pooled connection goes, then the credentials, *)
(* then the entry.                                                          *)
Quiet == (\A c \in Call : calls[c] = Idle) /\ import = NoImport

DisconnectKeepingPool ==
    /\ leaving = "no" /\ known /\ Troubled
    /\ leaving' = "vault"
    /\ clean' = Quiet
    /\ UNCHANGED <<World, Entry, Cached, calls, conn, monitor, import, seen, Noticed,
                   gone>>
Disconnect ==
    /\ leaving = "no" /\ known /\ Troubled
    /\ pool' = Empty
    /\ leaving' = "vault"
    /\ clean' = Quiet
    /\ UNCHANGED <<World, Entry, describe, calls, conn, monitor, import, seen, Noticed, gone>>

VaultDeletes ==
    /\ leaving = "vault"
    /\ vault' = None
    /\ leaving' = "manager"
    /\ UNCHANGED <<World, known, Cached, calls, conn, monitor, import, seen, trouble,
                   Noticed, History>>

(* The vault fails: the credentials and the entry stay. *)
VaultKeeps ==
    /\ leaving = "vault"
    /\ leaving' = "no"
    /\ clean' = FALSE
    /\ UNCHANGED <<World, Entry, Cached, calls, conn, monitor, import, seen, trouble,
                   Noticed, gone>>

Disconnected ==
    /\ leaving = "manager"
    /\ known' = FALSE
    /\ leaving' = "no"
    /\ gone' = clean /\ clean' = FALSE
    /\ UNCHANGED <<World, vault, Cached, calls, conn, monitor, import, seen, trouble, Noticed>>

-----------------------------------------------------------------------------
CallStep(c) ==
    \/ Begin(c) \/ Read(c) \/ OrgAnswers(c) \/ Validated(c) \/ Rejected(c)
    \/ CliAnswers(c) \/ Rechecked(c) \/ Recovered(c)

Next ==
    \/ \E c \in Call : CallStep(c) \/ Failed(c) \/ GivesUp(c)
    \/ \E t \in org.alive : Expire(t)
    \/ Move \/ RefreshStarts \/ RefreshCompletes \/ CliLosesSession \/ CliLogin
    \/ MonitorReads \/ MonitorReports \/ Fetched
    \/ Describe \/ DescribeGoes
    \/ Age \/ evictOldest
    \/ Import \/ ImportSaves \/ ImportStored \/ ImportFails
    \/ Disconnect \/ VaultDeletes \/ VaultKeeps \/ Disconnected

Spec == Init /\ [][Next]_vars

(***************************************************************************)
(* Every caller keeps asking for connections, and a call goes on: every    *)
(* check and every CLI command has a deadline.  Time passes for the pool.  *)
(* Nothing is assumed of the Organizations page.                           *)
(***************************************************************************)
Fairness ==
    /\ \A c \in Call : WF_vars(CallStep(c))
    /\ WF_vars(Age)

FairSpec == Spec /\ Fairness

-----------------------------------------------------------------------------
(* Type invariant: what is shown to the org as credentials is some. *)
TypeOK ==
    /\ org \in [id : Orgs, url : Nat \ {0}, alive : SUBSET Nat, last : Nat]
    /\ started \in 0..MaxRefreshes
    /\ cli \in [url : Nat \ {0}, token : Nat, org : Orgs]
    /\ vault \in Cred /\ pool \in [url : Nat, token : Nat, recent : BOOLEAN]
    /\ conn \in Nat
    /\ \A c \in Call :
         /\ calls[c].at \in {"idle", "reading", "asking", "answered", "renewing",
                             "rechecking", "saving"}
         /\ calls[c].cred \in Cred
         /\ calls[c].at \notin {"idle", "reading"} => calls[c].cred # None
         /\ calls[c].says \in {0} \cup Orgs
    /\ import.cred \in Cred /\ import.at \in {"idle", "listed", "saving"}
    /\ leaving \in {"no", "vault", "manager"}
    /\ record.id \in Orgs /\ record.former \subseteq Orgs
    /\ seen \subseteq Orgs
    /\ monitor \in {0} \cup Orgs
    /\ describe \in {0} \cup Orgs

(***************************************************************************)
(* handleOrgDisconnect: an org disconnected with nothing under way leaves  *)
(* neither a token in the pool nor credentials nor an entry behind, and    *)
(* none come back until it is imported.  (A call or an import under way    *)
(* then may bring them back.)                                              *)
(***************************************************************************)
DisconnectedIsGone == gone => ~known /\ vault = None /\ pool = Empty

(***************************************************************************)
(* SandboxRefreshDetector: answers that come late - read before a refresh, *)
(* delivered after a newer one was recorded - never take the entry back to *)
(* an org it was before.                                                   *)
(***************************************************************************)
NeverBack == [][record'.id >= record.id]_vars

(***************************************************************************)
(* "the report is completed, not repeated": a refresh is told once,        *)
(* whichever of the sandbox and its production org tells first, and        *)
(* however many refreshes either has missed.                               *)
(***************************************************************************)
ToldOnce == \A o \in Orgs : told[o] <= 1

(***************************************************************************)
(* ExtensionHandlers.forgetOrg: once a refresh is told, no describe of an  *)
(* org before it is served, not even one that was under way; one of an org *)
(* the entry is on record as having been is served only while the refresh  *)
(* into the org it is now has not been told.  (observe() takes the answer  *)
(* of a later org for the end of an older report: such a refresh is        *)
(* recorded at once and told when the production org reports it.)          *)
(***************************************************************************)
NothingOfTheOldOrg ==
    describe # 0 =>
        /\ \A o \in Orgs : told[o] > 0 => describe >= o
        /\ describe \in record.former => told[record.id] = 0

(***************************************************************************)
(* getJsforceConnection: "an expired session heals on its own instead of   *)
(* lasting until the window is reloaded": with a CLI that can renew, the   *)
(* connections handed out work in the end, whatever expired, moved or was  *)
(* refreshed - unless the pool kept the address the org has left, which    *)
(* acquire() never corrects, or the entry is listed without credentials,   *)
(* as a save the vault failed leaves it: every call throws then, until the *)
(* org is imported again.                                                  *)
(***************************************************************************)
LeftAddress == pool # Empty /\ pool.url # org.url
NoCredentials == known /\ vault = None

Heals ==
    <>[](able /\ known /\ leaving = "no") =>
        \/ <>[](conn # 0)
        \/ <>[]LeftAddress
        \/ <>[]NoCredentials
=============================================================================
