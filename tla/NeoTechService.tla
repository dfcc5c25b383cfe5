--------------------------- MODULE NeoTechService ---------------------------
(***************************************************************************)
(* The public NeoTech profile: a terminal pairs itself with a workspace,   *)
(* sends snapshots of its account, and the owner looks at the profile,     *)
(* shares it, revokes the account or purges it.                            *)
(*                                                                         *)
(* Every request is a handler in the cloud that reads and writes separate  *)
(* keys of Redis, one call after the other and without a lock or a         *)
(* transaction (neotech-public-service.ts over neotech-public-store.ts).   *)
(* A handler may be stopped between two calls, an answer may be lost, the  *)
(* network may deliver a snapshot twice, and the terminal gives up waiting *)
(* while the handler still runs.  The terminal is the connector EA: it     *)
(* keeps its credentials in a file, sends one snapshot per timer and drops *)
(* the credentials when the cloud answers "unauthorized".                  *)
(*                                                                         *)
(* An account and its connector are made by the pairing request they are   *)
(* named after; a share is named after the operation that creates it.      *)
(***************************************************************************)
EXTENDS Naturals, FiniteSets

CONSTANTS
    Requests,       \* pairing requests of the terminal
    Ops,            \* requests of the owner's browser
    LastSync,       \* snapshots the terminal takes
    MaxShares,      \* active links per account (10)
    MaxFaults,      \* stops, lost answers, early timeouts, failed files
    NoRequest

ASSUME ServiceAssumption ==
    /\ NoRequest \notin Requests /\ IsFiniteSet(Ops)
    /\ LastSync \in Nat /\ MaxShares \in Nat \ {0} /\ MaxFaults \in Nat

Syncs == 1 .. LastSync

VARIABLES
    code,       \* the pairing record is there
    acc,        \* account record: none, active, revoked
    con,        \* connector record, the same
    member,     \* accounts in the workspace's set
    prof,       \* snapshot the retained profile was built from, 0 for none
    equity,     \* snapshots whose equity points are retained
    nonce,      \* snapshots whose nonce is reserved
    idem,       \* snapshots whose idempotency key is set
    share,      \* share record: none, live, revoked
    listed,     \* shares in the account's set
    pair,       \* position of each pairing handler
    sync,       \* position of each snapshot's handler, and its account
    op,         \* position of each operation, kind, account, shares in hand
    cred,       \* connector named in the terminal's credential file
    on,         \* g_sync_enabled
    wait,       \* the snapshot the terminal waits for, 0 for none
    late,       \* ghost: snapshots whose answer the terminal did not get
    raced,      \* ghost: accounts on which an operation overlapped another handler
    faults

records == <<acc, con, member>>
data == <<prof, equity>>
keys == <<nonce, idem>>
links == <<share, listed>>
cloud == <<code, records, data, keys, links>>
handlers == <<pair, sync, op>>
terminal == <<cred, on, wait, late>>
vars == <<cloud, pair, sync, op, terminal, raced, faults>>

PairPc == {"unsent", "sent", "consumed", "accPut", "conPut", "listed", "done", "refused", "dead"}
SyncPc == {"unsent", "arrived", "known", "fresh", "authorized", "appended",
           "accPut", "conPut", "profPut", "ok", "denied", "error", "dead"}
Running == {"arrived", "known", "fresh", "authorized", "appended",
            "accPut", "conPut", "profPut"}
Kinds == {"revoke", "purge", "share", "unshare"}
OpPc == {"idle", "read", "accPut", "listing", "unlinked", "unlisted", "unprofiled",
         "unmeasured", "unconnected", "done", "dead"}
Over == {"idle", "done", "dead"}
NoOp == [pc |-> "idle", kind |-> "share", of |-> NoRequest, hand |-> {}, sawCon |-> FALSE]

TypeOK ==
    /\ code \in BOOLEAN
    /\ acc \in [Requests -> {"none", "active", "revoked"}]
    /\ con \in [Requests -> {"none", "active", "revoked"}]
    /\ member \subseteq Requests
    /\ prof \in [Requests -> 0 .. LastSync] /\ equity \in [Requests -> SUBSET Syncs]
    /\ nonce \subseteq Syncs /\ idem \subseteq Syncs
    /\ share \in [Ops -> {"none", "live", "revoked"}] /\ listed \subseteq Ops
    /\ pair \in [Requests -> PairPc]
    /\ sync \in [Syncs -> [pc : SyncPc, of : Requests \cup {NoRequest}]]
    /\ op \in [Ops -> [pc : OpPc, kind : Kinds, of : Requests \cup {NoRequest},
                       hand : SUBSET Ops, sawCon : BOOLEAN]]
    /\ cred \in Requests \cup {NoRequest} /\ on \in BOOLEAN /\ wait \in 0 .. LastSync
    /\ late \subseteq Syncs /\ raced \subseteq Requests /\ faults \in 0 .. MaxFaults

Init ==
    /\ code = FALSE
    /\ acc = [r \in Requests |-> "none"] /\ con = acc /\ member = {}
    /\ prof = [r \in Requests |-> 0] /\ equity = [r \in Requests |-> {}]
    /\ nonce = {} /\ idem = {}
    /\ share = [o \in Ops |-> "none"] /\ listed = {}
    /\ pair = [r \in Requests |-> "unsent"]
    /\ sync = [k \in Syncs |-> [pc |-> "unsent", of |-> NoRequest]]
    /\ op = [o \in Ops |-> NoOp]
    /\ cred = NoRequest /\ on = FALSE /\ wait = 0
    /\ late = {} /\ raced = {} /\ faults = 0

Fault == faults < MaxFaults /\ faults' = faults + 1

-----------------------------------------------------------------------------
(* Pairing *)

CreatePairing ==
    /\ ~code /\ code' = TRUE
    /\ UNCHANGED <<records, data, keys, links, handlers, terminal, raced, faults>>

PairingExpires ==
    /\ code /\ code' = FALSE /\ Fault
    /\ UNCHANGED <<records, data, keys, links, handlers, terminal, raced>>

\* OnInit: without credentials the EA pairs with the code in its inputs.
SendPair(r) ==
    /\ pair[r] = "unsent" /\ cred = NoRequest
    /\ pair' = [pair EXCEPT ![r] = "sent"]
    /\ UNCHANGED <<cloud, sync, op, terminal, raced, faults>>

ConsumePairing(r) ==
    /\ pair[r] = "sent"
    /\ pair' = [pair EXCEPT ![r] = IF code THEN "consumed" ELSE "refused"]
    /\ code' = FALSE
    /\ UNCHANGED <<records, data, keys, links, sync, op, terminal, raced, faults>>

PutNewAccount(r) ==
    /\ pair[r] = "consumed" /\ pair' = [pair EXCEPT ![r] = "accPut"]
    /\ acc' = [acc EXCEPT ![r] = "active"]
    /\ UNCHANGED <<code, con, member, data, keys, links, sync, op, terminal, raced, faults>>

PutNewConnector(r) ==
    /\ pair[r] = "accPut" /\ pair' = [pair EXCEPT ![r] = "conPut"]
    /\ con' = [con EXCEPT ![r] = "active"]
    /\ UNCHANGED <<code, acc, member, data, keys, links, sync, op, terminal, raced, faults>>

AddWorkspaceAccount(r) ==
    /\ pair[r] = "conPut" /\ pair' = [pair EXCEPT ![r] = "listed"]
    /\ member' = member \cup {r}
    /\ UNCHANGED <<code, acc, con, data, keys, links, sync, op, terminal, raced, faults>>

\* OakPair: the answer holds the only copy of the token.
Paired(r) ==
    /\ pair[r] = "listed" /\ pair' = [pair EXCEPT ![r] = "done"]
    /\ cred' = r /\ on' = TRUE
    /\ UNCHANGED <<cloud, sync, op, wait, late, raced, faults>>

\* The answer is lost or the file cannot be written: nobody has the token.
PairedInVain(r) ==
    /\ pair[r] = "listed" /\ Fault /\ pair' = [pair EXCEPT ![r] = "done"]
    /\ UNCHANGED <<cloud, sync, op, terminal, raced>>

PairStops(r) ==
    /\ pair[r] \in {"sent", "consumed", "accPut", "conPut"} /\ Fault
    /\ pair' = [pair EXCEPT ![r] = "dead"]
    /\ UNCHANGED <<cloud, sync, op, terminal, raced>>

-----------------------------------------------------------------------------
(* Snapshots *)

Busy(r) == {k \in Syncs : sync[k].of = r /\ sync[k].pc \in Running}
Acting(r) == {o \in Ops : op[o].of = r /\ op[o].pc \notin Over}

\* Mutant: the next snapshot does not wait for the answer to the last.
SendSyncAnytime(k) ==
    /\ on /\ cred # NoRequest
    /\ sync[k].pc = "unsent" /\ \A j \in 1 .. k - 1 : sync[j].pc # "unsent"
    /\ sync' = [sync EXCEPT ![k] = [pc |-> "arrived", of |-> cred]]
    /\ wait' = k
    /\ raced' = IF Acting(cred) = {} THEN raced ELSE raced \cup {cred}
    /\ UNCHANGED <<cloud, pair, op, cred, on, late, faults>>

\* OakSync: one snapshot at a time, the next one newer than every one before.
SendSync(k) ==
    /\ on /\ cred # NoRequest /\ wait = 0
    /\ sync[k].pc = "unsent" /\ \A j \in 1 .. k - 1 : sync[j].pc # "unsent"
    /\ sync' = [sync EXCEPT ![k] = [pc |-> "arrived", of |-> cred]]
    /\ wait' = k
    /\ raced' = IF Acting(cred) = {} THEN raced ELSE raced \cup {cred}
    /\ UNCHANGED <<cloud, pair, op, cred, on, late, faults>>

\* The network delivers the same request once more.
Redeliver(k) ==
    /\ sync[k].pc \in {"ok", "denied", "error", "dead"} /\ Fault
    /\ sync' = [sync EXCEPT ![k].pc = "arrived"]
    /\ raced' = IF Acting(sync[k].of) = {} THEN raced ELSE raced \cup {sync[k].of}
    /\ UNCHANGED <<cloud, pair, op, terminal>>

AtSync(k, from, to) == sync[k].pc = from /\ sync' = [sync EXCEPT ![k].pc = to]

CheckConnector(k) ==
    /\ AtSync(k, "arrived", IF con[sync[k].of] = "active" THEN "known" ELSE "denied")
    /\ UNCHANGED <<cloud, pair, op, terminal, raced, faults>>

\* A nonce serves once.  A snapshot known by its idempotency key is answered from
\* the retained profile; a body that does not validate ends here too.
ReserveNonce(k) ==
    /\ AtSync(k, "known", CASE k \in nonce -> "error"
                             [] k \in idem \ nonce -> IF prof[sync[k].of] # 0 THEN "ok" ELSE "error"
                             [] OTHER -> "fresh")
    /\ nonce' = nonce \cup {k}
    /\ UNCHANGED <<code, records, data, idem, links, pair, op, terminal, raced, faults>>

CheckAccount(k) ==
    /\ AtSync(k, "fresh", IF acc[sync[k].of] = "active" THEN "authorized" ELSE "denied")
    /\ UNCHANGED <<cloud, pair, op, terminal, raced, faults>>

AppendEquityPoints(k) ==
    /\ AtSync(k, "authorized", "appended")
    /\ equity' = [equity EXCEPT ![sync[k].of] = @ \cup {k}]
    /\ UNCHANGED <<code, records, prof, keys, links, pair, op, terminal, raced, faults>>

\* The records are written whole, as they were read when they were active.
PutAccount(k) ==
    /\ AtSync(k, "appended", "accPut")
    /\ acc' = [acc EXCEPT ![sync[k].of] = "active"]
    /\ UNCHANGED <<code, con, member, data, keys, links, pair, op, terminal, raced, faults>>

PutConnector(k) ==
    /\ AtSync(k, "accPut", "conPut")
    /\ con' = [con EXCEPT ![sync[k].of] = "active"]
    /\ UNCHANGED <<code, acc, member, data, keys, links, pair, op, terminal, raced, faults>>

PutProfile(k) ==
    /\ AtSync(k, "conPut", "profPut")
    /\ prof' = [prof EXCEPT ![sync[k].of] = k]
    /\ UNCHANGED <<code, records, equity, keys, links, pair, op, terminal, raced, faults>>

SetIdempotency(k) ==
    /\ AtSync(k, "profPut", "ok")
    /\ idem' = idem \cup {k}
    /\ UNCHANGED <<code, records, data, nonce, links, pair, op, terminal, raced, faults>>

SyncStops(k) ==
    /\ sync[k].pc \in Running /\ Fault
    /\ sync' = [sync EXCEPT ![k].pc = "dead"]
    /\ UNCHANGED <<cloud, pair, op, terminal, raced>>

-----------------------------------------------------------------------------
(* The terminal *)

SyncAnswered(k) ==
    /\ wait = k /\ sync[k].pc \in {"ok", "error"} /\ wait' = 0
    /\ UNCHANGED <<cloud, handlers, cred, on, late, raced, faults>>

\* The credentials are dropped from memory; deleting the file may fail.
SyncRefused(k) ==
    /\ wait = k /\ sync[k].pc = "denied" /\ wait' = 0 /\ on' = FALSE
    /\ \/ cred' = NoRequest /\ UNCHANGED faults
       \/ cred' = cred /\ Fault
    /\ UNCHANGED <<cloud, handlers, late, raced>>

\* WebRequest gives up: the handler is gone or slow, or its answer is lost.
SyncTimesOut(k) ==
    /\ wait = k /\ wait' = 0 /\ late' = late \cup {k}
    /\ IF sync[k].pc = "dead" THEN UNCHANGED faults ELSE Fault
    /\ UNCHANGED <<cloud, handlers, cred, on, raced>>

\* The EA is attached again: OnInit loads the file.
Reattach ==
    /\ Fault /\ wait' = 0 /\ on' = (cred # NoRequest)
    /\ late' = IF wait = 0 THEN late ELSE late \cup {wait}
    /\ UNCHANGED <<cloud, handlers, cred, raced>>

-----------------------------------------------------------------------------
(* The owner *)

\* The browser acts on an account of its list; the handler reads the account
\* and, to revoke or purge it, the connector, and to share, profile and links.
LiveShares(r) == {s \in listed : op[s].of = r /\ share[s] = "live"}

MayStart(kind, r) ==
    CASE kind = "revoke"  -> acc[r] = "active"
      [] kind = "purge"   -> acc[r] # "none"
      [] kind = "share"   -> acc[r] = "active" /\ prof[r] # 0
                             /\ Cardinality(LiveShares(r)) < MaxShares
      [] kind = "unshare" -> acc[r] # "none"

Hands(kind, r) ==
    IF kind # "unshare" THEN {{}}
    ELSE {LiveShares(r)} \cup {{s} : s \in LiveShares(r)}

StartOp(o, kind, r) ==
    /\ op[o].pc = "idle" /\ r \in member /\ MayStart(kind, r)
    /\ \E hand \in Hands(kind, r) :
           op' = [op EXCEPT ![o] = [pc |-> "read", kind |-> kind, of |-> r, hand |-> hand,
                                    sawCon |-> kind = "revoke" /\ con[r] # "none"]]
    /\ raced' = IF Busy(r) \cup Acting(r) = {} THEN raced ELSE raced \cup {r}
    /\ UNCHANGED <<cloud, pair, sync, terminal, faults>>

AtOp(o, kind, from, to) ==
    /\ op[o].pc = from /\ op[o].kind = kind
    /\ op' = [op EXCEPT ![o].pc = to, ![o].hand = {}, ![o].sawCon = @ /\ to # "done"]

RevokeAccount(o) ==
    /\ AtOp(o, "revoke", "read", "accPut")
    /\ acc' = [acc EXCEPT ![op[o].of] = "revoked"]
    /\ UNCHANGED <<code, con, member, data, keys, links, pair, sync, terminal, raced, faults>>

\* Mutant: the connector is left as it is.
RevokeNoConnector(o) ==
    /\ AtOp(o, "revoke", "accPut", "done")
    /\ UNCHANGED <<cloud, pair, sync, terminal, raced, faults>>

RevokeConnector(o) ==
    /\ AtOp(o, "revoke", "accPut", "done")
    /\ con' = IF op[o].sawCon THEN [con EXCEPT ![op[o].of] = "revoked"] ELSE con
    /\ UNCHANGED <<code, acc, member, data, keys, links, pair, sync, terminal, raced, faults>>

CreateShare(o) ==
    /\ AtOp(o, "share", "read", "done")
    /\ share' = [share EXCEPT ![o] = "live"] /\ listed' = listed \cup {o}
    /\ UNCHANGED <<code, records, data, keys, pair, sync, terminal, raced, faults>>

RevokeShare(o, s) ==
    /\ op[o].pc = "read" /\ op[o].kind = "unshare" /\ s \in op[o].hand
    /\ op' = [op EXCEPT ![o].hand = @ \ {s}]
    /\ share' = [share EXCEPT ![s] = "revoked"] /\ listed' = listed \cup {s}
    /\ UNCHANGED <<code, records, data, keys, pair, sync, terminal, raced, faults>>

SharesRevoked(o) ==
    /\ op[o].hand = {} /\ AtOp(o, "unshare", "read", "done")
    /\ UNCHANGED <<cloud, pair, sync, terminal, raced, faults>>

\* deleteAccountShares lists first and deletes what it has listed.
ListShares(o) ==
    /\ op[o].pc = "read" /\ op[o].kind = "purge"
    /\ op' = [op EXCEPT ![o].pc = "listing", ![o].hand = {s \in listed : op[s].of = op[o].of}]
    /\ UNCHANGED <<cloud, pair, sync, terminal, raced, faults>>

DeleteShares(o) ==
    /\ AtOp(o, "purge", "listing", "unlinked")
    /\ share' = [s \in Ops |-> IF s \in op[o].hand THEN "none" ELSE share[s]]
    /\ listed' = {s \in listed : op[s].of # op[o].of}
    /\ UNCHANGED <<code, records, data, keys, pair, sync, terminal, raced, faults>>

RemoveWorkspaceAccount(o) ==
    /\ AtOp(o, "purge", "unlinked", "unlisted")
    /\ member' = member \ {op[o].of}
    /\ UNCHANGED <<code, acc, con, data, keys, links, pair, sync, terminal, raced, faults>>

DeleteProfile(o) ==
    /\ AtOp(o, "purge", "unlisted", "unprofiled")
    /\ prof' = [prof EXCEPT ![op[o].of] = 0]
    /\ UNCHANGED <<code, records, equity, keys, links, pair, sync, terminal, raced, faults>>

\* Mutant: the equity list stays.
DeleteKeysOnly(o) ==
    /\ AtOp(o, "purge", "unprofiled", "unmeasured")
    /\ nonce' = {k \in nonce : sync[k].of # op[o].of}
    /\ idem' = {k \in idem : sync[k].of # op[o].of}
    /\ UNCHANGED <<code, records, data, links, pair, sync, terminal, raced, faults>>

\* The equity list, then every nonce and idempotency key of the connector.
DeleteEquity(o) ==
    /\ AtOp(o, "purge", "unprofiled", "unmeasured")
    /\ equity' = [equity EXCEPT ![op[o].of] = {}]
    /\ nonce' = {k \in nonce : sync[k].of # op[o].of}
    /\ idem' = {k \in idem : sync[k].of # op[o].of}
    /\ UNCHANGED <<code, records, prof, links, pair, sync, terminal, raced, faults>>

DeleteConnector(o) ==
    /\ AtOp(o, "purge", "unmeasured", "unconnected")
    /\ con' = [con EXCEPT ![op[o].of] = "none"]
    /\ UNCHANGED <<code, acc, member, data, keys, links, pair, sync, terminal, raced, faults>>

DeleteAccount(o) ==
    /\ AtOp(o, "purge", "unconnected", "done")
    /\ acc' = [acc EXCEPT ![op[o].of] = "none"]
    /\ UNCHANGED <<code, con, member, data, keys, links, pair, sync, terminal, raced, faults>>

OpStops(o) ==
    /\ op[o].pc \notin Over /\ Fault
    /\ op' = [op EXCEPT ![o].pc = "dead", ![o].hand = {}, ![o].sawCon = FALSE]
    /\ UNCHANGED <<cloud, pair, sync, terminal, raced>>
-----------------------------------------------------------------------------
Pairing(r) ==
    \/ SendPair(r) \/ ConsumePairing(r) \/ PutNewAccount(r) \/ PutNewConnector(r)
    \/ AddWorkspaceAccount(r) \/ Paired(r) \/ PairedInVain(r) \/ PairStops(r)

Ingest(k) ==
    \/ CheckConnector(k) \/ ReserveNonce(k) \/ CheckAccount(k)
    \/ AppendEquityPoints(k) \/ PutAccount(k) \/ PutConnector(k) \/ PutProfile(k)
    \/ SetIdempotency(k) \/ SyncStops(k) \/ Redeliver(k)

Terminal(k) == SendSync(k) \/ SyncAnswered(k) \/ SyncRefused(k) \/ SyncTimesOut(k)

Purge(o) ==
    \/ ListShares(o) \/ DeleteShares(o) \/ RemoveWorkspaceAccount(o) \/ DeleteProfile(o)
    \/ DeleteEquity(o) \/ DeleteConnector(o) \/ DeleteAccount(o)

Owner(o) ==
    \/ \E kind \in Kinds, r \in Requests : StartOp(o, kind, r)
    \/ RevokeAccount(o) \/ RevokeConnector(o) \/ CreateShare(o)
    \/ \E s \in Ops : RevokeShare(o, s)
    \/ SharesRevoked(o) \/ Purge(o) \/ OpStops(o)

Next ==
    \/ CreatePairing \/ PairingExpires \/ Reattach
    \/ \E r \in Requests : Pairing(r)
    \/ \E k \in Syncs : Ingest(k) \/ Terminal(k)
    \/ \E o \in Ops : Owner(o)

Spec == Init /\ [][Next]_vars

-----------------------------------------------------------------------------
Begun(kinds, r) == \E o \in Ops : op[o].kind \in kinds /\ op[o].of = r

\* A revocation that overlapped no other handler of the account is final: neither
\* record becomes active again, whatever is delivered late or twice afterwards.
RevocationIsFinal ==
    \A o \in Ops : op[o].kind = "revoke" /\ op[o].pc = "done" /\ op[o].of \notin raced =>
        acc[op[o].of] # "active" /\ con[op[o].of] # "active"

\* A purge that overlapped no other handler leaves nothing of the account, and
\* nothing comes back.
PurgeIsComplete ==
    \A o \in Ops : op[o].kind = "purge" /\ op[o].pc = "done" /\ op[o].of \notin raced =>
        LET r == op[o].of IN
        /\ acc[r] = "none" /\ con[r] = "none" /\ r \notin member
        /\ prof[r] = 0 /\ equity[r] = {}
        /\ \A k \in nonce \cup idem : sync[k].of # r
        /\ \A s \in Ops : op[s].of = r => share[s] = "none" /\ s \notin listed

\* Snapshots are numbered by their age: an answered one never puts the profile
\* back, though they share no lock; only one the terminal gave up on may, a copy
\* that finds its nonce purged, or one whose connector a race brought back.
ProfileMovesForward ==
    [][\A r \in Requests :
          \/ prof'[r] \in {0} \cup late \/ prof'[r] >= prof[r]
          \/ Begun({"purge"}, r) \/ r \in raced]_vars
=============================================================================
