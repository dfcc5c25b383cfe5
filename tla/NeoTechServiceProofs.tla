------------------------ MODULE NeoTechServiceProofs ------------------------
EXTENDS MCNeoTechService, Sequences, FiniteSetTheorems, TLAPS

-----------------------------------------------------------------------------
(* The invariant *)

SyncTyped == sync \in [Syncs -> [pc : SyncPc, of : Requests \cup {NoRequest}]]
OpRecord == [pc : OpPc, kind : Kinds, of : Requests \cup {NoRequest},
             hand : SUBSET Ops, sawCon : BOOLEAN]
OpTyped == op \in [Ops -> OpRecord]
RestTyped ==
    /\ acc \in [Requests -> {"none", "active", "revoked"}]
    /\ con \in [Requests -> {"none", "active", "revoked"}]
    /\ member \subseteq Requests
    /\ prof \in [Requests -> 0 .. LastSync] /\ equity \in [Requests -> SUBSET Syncs]
    /\ nonce \subseteq Syncs /\ idem \subseteq Syncs
    /\ share \in [Ops -> {"none", "live", "revoked"}] /\ listed \subseteq Ops
    /\ pair \in [Requests -> PairPc]
    /\ cred \in Requests \cup {NoRequest} /\ wait \in 0 .. LastSync
    /\ late \subseteq Syncs /\ raced \subseteq Requests
Switches == code \in BOOLEAN /\ on \in BOOLEAN
Budget == faults \in 0 .. MaxFaults

\* What pairing has done before anybody can name the account.
Known ==
    /\ \A r \in member : pair[r] \in {"listed", "done"}
    /\ cred # NoRequest => pair[cred] = "done"
    /\ \A k \in Syncs :
           /\ sync[k].pc = "unsent" => sync[k].of = NoRequest
           /\ sync[k].pc # "unsent" => sync[k].of \in Requests /\ pair[sync[k].of] = "done"
    /\ \A o \in Ops :
           /\ op[o].pc = "idle" => op[o].of = NoRequest
           /\ op[o].pc # "idle" =>
                  op[o].of \in Requests /\ pair[op[o].of] \in {"listed", "done"}

\* An account that saw no race has one operation at most, and no snapshot beside it.
Alone ==
    \A o \in Ops : op[o].pc \notin Over /\ op[o].of \notin raced =>
        /\ \A p \in Ops : op[p].pc \notin Over /\ op[p].of = op[o].of => p = o
        /\ \A k \in Syncs : sync[k].of = op[o].of => sync[k].pc \notin Running

\* A snapshot passes the first check while the connector is active, and an
\* operation that takes the connector away is alone.
Deep == Running \ {"arrived"}
Dormant ==
    \A k \in Syncs : sync[k].pc \in Deep /\ sync[k].of \notin raced => con[sync[k].of] = "active"

\* A revocation ends with both records taken, and what could write one is gone.
Revoking ==
    \A o \in Ops : op[o].kind = "revoke" /\ op[o].of \notin raced =>
        /\ op[o].pc \in {"accPut", "done"} => acc[op[o].of] # "active"
        /\ op[o].pc \in {"read", "accPut"} /\ ~op[o].sawCon => con[op[o].of] # "active"
        /\ op[o].pc = "done" => con[op[o].of] # "active"

\* A share belongs to the operation that made it.
Shares ==
    /\ \A s \in Ops : op[s].pc = "idle" => share[s] = "none" /\ s \notin listed
    /\ \A s \in Ops : share[s] # "none" /\ op[s].of \notin raced => s \in listed
    /\ \A o, s \in Ops : s \in op[o].hand => op[s].of = op[o].of /\ op[s].pc # "idle"

\* What a purge has removed, stage by stage, and that nothing of it comes back.
Five  == {"unconnected", "done"}
Four  == Five \cup {"unmeasured"}
Three == Four \cup {"unprofiled"}
Two   == Three \cup {"unlisted"}
One   == Two \cup {"unlinked"}
Purged(o) == op[o].kind = "purge" /\ op[o].of \notin raced

Unlinked ==
    \A o \in Ops : Purged(o) =>
        /\ op[o].pc = "listing" =>
               \A s \in listed : op[s].of = op[o].of => s \in op[o].hand
        /\ op[o].pc \in One =>
               \A s \in Ops : op[s].of = op[o].of => share[s] = "none" /\ s \notin listed
Unlisted ==
    \A o \in Ops : Purged(o) =>
        /\ op[o].pc \in Two => op[o].of \notin member
        /\ op[o].pc = "done" =>
               \A p \in Ops : op[p].of = op[o].of => op[p].pc \in Over
Unconnected ==
    \A o \in Ops : Purged(o) =>
        /\ op[o].pc \in Five => con[op[o].of] = "none"
        /\ op[o].pc = "done" => acc[op[o].of] = "none"
Unmeasured ==
    \A o \in Ops : Purged(o) =>
        /\ op[o].pc \in Three => prof[op[o].of] = 0
        /\ op[o].pc \in Four =>
               equity[op[o].of] = {} /\ \A k \in nonce \cup idem : sync[k].of # op[o].of

\* Snapshots leave the terminal in the order of their numbers, one at a time.
InOrder ==
    /\ \A k, j \in Syncs : sync[k].pc # "unsent" /\ j < k => sync[j].pc # "unsent"
    /\ wait # 0 => sync[wait].pc # "unsent"
    /\ \A k \in Syncs : wait # 0 /\ k > wait => sync[k].pc = "unsent"
    /\ \A r \in Requests : prof[r] # 0 => sync[prof[r]].pc # "unsent"
    /\ \A k \in nonce \cup idem : sync[k].pc # "unsent"

\* A snapshot the terminal has an answer to has its nonce spent, or its connector
\* is gone: a copy of it writes nothing.
Writing == {"fresh", "authorized", "appended", "accPut", "conPut", "profPut"}
Unpurged(r) == r \notin raced /\ \A o \in Ops : op[o].kind = "purge" => op[o].of # r
Spent(k) == k \in nonce \/ con[sync[k].of] # "active"
Answered ==
    \A k \in Syncs : sync[k].pc # "unsent" /\ Unpurged(sync[k].of) =>
        /\ sync[k].pc \in Writing \cup {"ok", "error"} => k \in nonce
        /\ sync[k].pc = "denied" => Spent(k)
        /\ k # wait /\ k \notin late => Spent(k) /\ sync[k].pc \notin Writing

IInv ==
    /\ SyncTyped /\ OpTyped /\ RestTyped /\ Switches /\ Budget
    /\ Known /\ Alone /\ Dormant /\ Revoking
    /\ Shares /\ Unlinked /\ Unlisted /\ Unconnected /\ Unmeasured
    /\ InOrder /\ Answered

-----------------------------------------------------------------------------
(* What each step does to the handlers, handler by handler *)

\* One snapshot's handler moves; one operation moves; one operation's hand changes.
SyncAt(k, to) ==
    \A j \in Syncs : /\ sync'[j].of = sync[j].of
                     /\ sync'[j].pc = IF j = k THEN to ELSE sync[j].pc
OpAt(o, to) ==
    \A p \in Ops : /\ op'[p].of = op[p].of /\ op'[p].kind = op[p].kind
                   /\ op'[p].pc = IF p = o THEN to ELSE op[p].pc
                   /\ p # o \/ to \notin {"done", "dead"} => (op'[p].sawCon <=> op[p].sawCon)
Hand(o, h) == \A p \in Ops : op'[p].hand = IF p = o THEN h ELSE op[p].hand

LEMMA Numbers ==
    0 \in 0 .. LastSync /\ Syncs \subseteq 0 .. LastSync /\ (0 .. LastSync) \ {0} = Syncs
  BY ServiceAssumption DEF Syncs

\* What keeps the order when no snapshot is sent.
LEMMA InOrderKept ==
    ASSUME RestTyped, InOrder, wait' = wait,
           \A j \in Syncs : sync'[j].pc = "unsent" <=> sync[j].pc = "unsent",
           \A r \in Requests : prof'[r] # 0 => prof'[r] \in Syncs /\ sync[prof'[r]].pc # "unsent",
           \A j \in nonce' \cup idem' : j \in Syncs /\ sync[j].pc # "unsent"
    PROVE  InOrder'
<1>1. wait # 0 => wait \in Syncs
  BY Numbers DEF RestTyped
<1> QED
  BY <1>1 DEF InOrder

\* An operation that moves keeps its shape.
LEMMA OpMoves ==
    ASSUME OpTyped, NEW o \in Ops, NEW to \in OpPc, NEW h \in SUBSET Ops, NEW b \in BOOLEAN,
           op' = [op EXCEPT ![o].pc = to, ![o].hand = h, ![o].sawCon = b]
    PROVE  OpTyped'
<1>1. PICK x \in OpRecord : x = op[o]
  BY DEF OpTyped
<1>2. [x EXCEPT !.pc = to, !.hand = h, !.sawCon = b] \in OpRecord
  BY DEF OpRecord
<1>3. op' = [op EXCEPT ![o] = [x EXCEPT !.pc = to, !.hand = h, !.sawCon = b]]
  BY <1>1
<1> QED
  BY <1>2, <1>3 DEF OpTyped

LEMMA AtOpTyped ==
    ASSUME OpTyped, NEW o \in Ops, NEW kind, NEW from, NEW to \in OpPc, AtOp(o, kind, from, to)
    PROVE  OpTyped'
<1>1. PICK b \in BOOLEAN : b <=> (op[o].sawCon /\ to # "done")
  OBVIOUS
<1>2. b = (op[o].sawCon /\ to # "done")
  BY <1>1
<1>3. op' = [op EXCEPT ![o].pc = to, ![o].hand = {}, ![o].sawCon = b]
  BY <1>2 DEF AtOp
<1> QED
  BY <1>3, OpMoves

LEMMA CheckConnectorDoes ==
    ASSUME SyncTyped, NEW k \in Syncs, CheckConnector(k)
    PROVE
           /\ sync[k].pc = "arrived"
           /\ SyncAt(k, IF con[sync[k].of] = "active" THEN "known" ELSE "denied")
           /\ UNCHANGED <<code, acc, con, member, prof, equity, nonce, idem,
                         share, listed, pair, op, cred, on, wait, late, raced,
                         faults>>
  BY DEF CheckConnector, AtSync, SyncAt, SyncTyped, cloud, records, data, keys, links,
     handlers, terminal

LEMMA ReserveNonceDoes ==
    ASSUME SyncTyped, NEW k \in Syncs, ReserveNonce(k)
    PROVE
           /\ sync[k].pc = "known" /\ nonce' = nonce \cup {k}
           /\ k \in nonce => SyncAt(k, "error")
           /\ k \in idem \ nonce => SyncAt(k, "ok") \/ SyncAt(k, "error")
           /\ k \notin nonce \cup idem => SyncAt(k, "fresh")
           /\ UNCHANGED <<code, acc, con, member, prof, equity, idem, share,
                         listed, pair, op, cred, on, wait, late, raced, faults>>
<1>0. sync[k].pc = "known" /\ nonce' = nonce \cup {k}
  BY DEF ReserveNonce, AtSync
<1>1. CASE k \in nonce
  <2>1. AtSync(k, "known", "error")
    BY <1>1 DEF ReserveNonce
  <2>2. SyncAt(k, "error")
    BY <2>1 DEF AtSync, SyncAt, SyncTyped
  <2> QED
    BY <1>0, <1>1, <2>2 DEF ReserveNonce, cloud, records, data, keys, links, handlers,
       terminal
<1>2. CASE k \in idem \ nonce
  <2>1. AtSync(k, "known", "ok") \/ AtSync(k, "known", "error")
    BY <1>2 DEF ReserveNonce
  <2>2. SyncAt(k, "ok") \/ SyncAt(k, "error")
    BY <2>1 DEF AtSync, SyncAt, SyncTyped
  <2> QED
    BY <1>0, <1>2, <2>2 DEF ReserveNonce, cloud, records, data, keys, links, handlers,
       terminal
<1>3. CASE k \notin nonce /\ k \notin idem
  <2>1. AtSync(k, "known", "fresh")
    BY <1>3 DEF ReserveNonce
  <2>2. SyncAt(k, "fresh")
    BY <2>1 DEF AtSync, SyncAt, SyncTyped
  <2> QED
    BY <1>0, <1>3, <2>2 DEF ReserveNonce, cloud, records, data, keys, links, handlers,
       terminal
<1> QED
  BY <1>1, <1>2, <1>3

LEMMA CheckAccountDoes ==
    ASSUME SyncTyped, NEW k \in Syncs, CheckAccount(k)
    PROVE
           /\ sync[k].pc = "fresh"
           /\ SyncAt(k, IF acc[sync[k].of] = "active" THEN "authorized" ELSE "denied")
           /\ UNCHANGED <<code, acc, con, member, prof, equity, nonce, idem,
                         share, listed, pair, op, cred, on, wait, late, raced,
                         faults>>
  BY DEF CheckAccount, AtSync, SyncAt, SyncTyped, cloud, records, data, keys, links,
     handlers, terminal

LEMMA AppendEquityPointsDoes ==
    ASSUME SyncTyped, NEW k \in Syncs, AppendEquityPoints(k)
    PROVE
           /\ sync[k].pc = "authorized" /\ SyncAt(k, "appended")
           /\ equity' = [equity EXCEPT ![sync[k].of] = equity[sync[k].of] \cup {k}]
           /\ UNCHANGED <<code, acc, con, member, prof, nonce, idem, share,
                         listed, pair, op, cred, on, wait, late, raced, faults>>
  BY DEF AppendEquityPoints, AtSync, SyncAt, SyncTyped, cloud, records, data, keys, links,
     handlers, terminal

LEMMA PutAccountDoes ==
    ASSUME SyncTyped, NEW k \in Syncs, PutAccount(k)
    PROVE
           /\ sync[k].pc = "appended" /\ SyncAt(k, "accPut")
           /\ acc' = [acc EXCEPT ![sync[k].of] = "active"]
           /\ UNCHANGED <<code, con, member, prof, equity, nonce, idem, share,
                         listed, pair, op, cred, on, wait, late, raced, faults>>
  BY DEF PutAccount, AtSync, SyncAt, SyncTyped, cloud, records, data, keys, links, handlers,
     terminal

LEMMA PutConnectorDoes ==
    ASSUME SyncTyped, NEW k \in Syncs, PutConnector(k)
    PROVE
           /\ sync[k].pc = "accPut" /\ SyncAt(k, "conPut")
           /\ con' = [con EXCEPT ![sync[k].of] = "active"]
           /\ UNCHANGED <<code, acc, member, prof, equity, nonce, idem, share,
                         listed, pair, op, cred, on, wait, late, raced, faults>>
  BY DEF PutConnector, AtSync, SyncAt, SyncTyped, cloud, records, data, keys, links,
     handlers, terminal

LEMMA PutProfileDoes ==
    ASSUME SyncTyped, NEW k \in Syncs, PutProfile(k)
    PROVE
           /\ sync[k].pc = "conPut" /\ SyncAt(k, "profPut")
           /\ prof' = [prof EXCEPT ![sync[k].of] = k]
           /\ UNCHANGED <<code, acc, con, member, equity, nonce, idem, share,
                         listed, pair, op, cred, on, wait, late, raced, faults>>
  BY DEF PutProfile, AtSync, SyncAt, SyncTyped, cloud, records, data, keys, links, handlers,
     terminal

LEMMA SetIdempotencyDoes ==
    ASSUME SyncTyped, NEW k \in Syncs, SetIdempotency(k)
    PROVE
           /\ sync[k].pc = "profPut" /\ SyncAt(k, "ok") /\ idem' = idem \cup {k}
           /\ UNCHANGED <<code, acc, con, member, prof, equity, nonce, share,
                         listed, pair, op, cred, on, wait, late, raced, faults>>
  BY DEF SetIdempotency, AtSync, SyncAt, SyncTyped, cloud, records, data, keys, links,
     handlers, terminal

LEMMA SyncStopsDoes ==
    ASSUME SyncTyped, NEW k \in Syncs, SyncStops(k)
    PROVE
           /\ sync[k].pc \in Running /\ SyncAt(k, "dead")
           /\ UNCHANGED <<code, acc, con, member, prof, equity, nonce, idem,
                         share, listed, pair, op, cred, on, wait, late, raced>>
  BY DEF SyncStops, Fault, SyncAt, SyncTyped, cloud, records, data, keys, links, handlers,
     terminal

LEMMA RedeliverDoes ==
    ASSUME SyncTyped, OpTyped, NEW k \in Syncs, Redeliver(k)
    PROVE
           /\ sync[k].pc \in {"ok", "denied", "error", "dead"} /\ SyncAt(k, "arrived")
           /\ raced' = (IF Acting(sync[k].of) = {} THEN raced ELSE raced \cup {sync[k].of})
           /\ raced \subseteq raced'
           /\ sync[k].of \notin raced' => \A o \in Ops : op[o].of = sync[k].of => op[o].pc \in Over
           /\ UNCHANGED <<code, acc, con, member, prof, equity, nonce, idem,
                         share, listed, pair, op, cred, on, wait, late>>
  BY DEF Redeliver, Fault, Acting, SyncAt, SyncTyped, OpTyped, OpRecord, cloud, records,
     data, keys, links, handlers, terminal

LEMMA SendSyncDoes ==
    ASSUME SyncTyped, OpTyped, NEW k \in Syncs, SendSync(k)
    PROVE
           /\ cred # NoRequest /\ wait = 0 /\ sync[k].pc = "unsent" /\ wait' = k
           /\ \A j \in Syncs : j < k => sync[j].pc # "unsent"
           /\ \A j \in Syncs : /\ sync'[j].pc = IF j = k THEN "arrived" ELSE sync[j].pc
                               /\ sync'[j].of = IF j = k THEN cred ELSE sync[j].of
           /\ raced' = (IF Acting(cred) = {} THEN raced ELSE raced \cup {cred})
           /\ raced \subseteq raced'
           /\ cred \notin raced' => \A o \in Ops : op[o].of = cred => op[o].pc \in Over
           /\ UNCHANGED <<code, acc, con, member, prof, equity, nonce, idem,
                         share, listed, pair, op, cred, on, late, faults>>
  BY DEF SendSync, Acting, Syncs, SyncAt, SyncTyped, OpTyped, OpRecord, cloud, records,
     data, keys, links, handlers, terminal

LEMMA StartOpDoes ==
    ASSUME OpTyped, RestTyped, NEW o \in Ops, NEW kind \in Kinds, NEW r \in Requests,
           StartOp(o, kind, r)
    PROVE
           /\ op[o].pc = "idle" /\ r \in member
           /\ \A p \in Ops : /\ op'[p].pc = IF p = o THEN "read" ELSE op[p].pc
                             /\ op'[p].of = IF p = o THEN r ELSE op[p].of
                             /\ op'[p].kind = IF p = o THEN kind ELSE op[p].kind
                             /\ p # o => op'[p].hand = op[p].hand
                             /\ p # o => (op'[p].sawCon <=> op[p].sawCon)
           /\ \A s \in op'[o].hand : s \in listed /\ s \in Ops /\ op[s].of = r
           /\ kind = "revoke" /\ ~op'[o].sawCon => con[r] = "none"
           /\ kind = "revoke" => acc[r] = "active"
           /\ raced' = (IF Busy(r) \cup Acting(r) = {} THEN raced ELSE raced \cup {r})
           /\ raced \subseteq raced'
           /\ r \notin raced' => /\ \A p \in Ops : op[p].of = r => op[p].pc \in Over
                                /\ \A k \in Syncs : sync[k].of = r => sync[k].pc \notin Running
           /\ UNCHANGED <<code, acc, con, member, prof, equity, nonce, idem,
                         share, listed, pair, sync, cred, on, wait, late,
                         faults>>
<1>1. PICK hand \in Hands(kind, r) :
        op' = [op EXCEPT ![o] = [pc |-> "read", kind |-> kind, of |-> r, hand |-> hand,
                                 sawCon |-> kind = "revoke" /\ con[r] # "none"]]
  BY DEF StartOp
<1>2. \A s \in hand : s \in listed /\ op[s].of = r
  BY DEF Hands, LiveShares
<1>3. /\ op'[o].pc = "read" /\ op'[o].of = r /\ op'[o].kind = kind /\ op'[o].hand = hand
      /\ op'[o].sawCon <=> (kind = "revoke" /\ con[r] # "none")
      /\ \A p \in Ops : p # o => op'[p] = op[p]
  BY <1>1 DEF OpTyped, OpRecord
<1>4. /\ op[o].pc = "idle" /\ r \in member /\ kind = "revoke" => acc[r] = "active"
      /\ raced' = (IF Busy(r) \cup Acting(r) = {} THEN raced ELSE raced \cup {r})
  BY DEF StartOp, MayStart
<1>5. r \notin raced' => /\ \A p \in Ops : op[p].of = r => op[p].pc \in Over
                        /\ \A k \in Syncs : sync[k].of = r => sync[k].pc \notin Running
  BY <1>4 DEF Acting, Busy
<1>6. \A s \in op'[o].hand : s \in listed /\ s \in Ops /\ op[s].of = r
  BY <1>2, <1>3 DEF RestTyped
<1> QED
  BY <1>3, <1>4, <1>5, <1>6 DEF StartOp, cloud, records, data, keys, links, handlers,
     terminal

LEMMA RevokeAccountDoes ==
    ASSUME OpTyped, NEW o \in Ops, RevokeAccount(o)
    PROVE
           /\ op[o].pc = "read" /\ op[o].kind = "revoke"
           /\ OpAt(o, "accPut") /\ Hand(o, {})
           /\ acc' = [acc EXCEPT ![op[o].of] = "revoked"]
           /\ UNCHANGED <<code, con, member, prof, equity, nonce, idem, share,
                         listed, pair, sync, cred, on, wait, late, raced,
                         faults>>
  BY DEF RevokeAccount, AtOp, OpAt, Hand, OpTyped, OpRecord, cloud, records, data, keys,
     links, handlers, terminal

LEMMA RevokeConnectorDoes ==
    ASSUME OpTyped, NEW o \in Ops, RevokeConnector(o)
    PROVE
           /\ op[o].pc = "accPut" /\ op[o].kind = "revoke"
           /\ OpAt(o, "done") /\ Hand(o, {})
           /\ con' = IF op[o].sawCon THEN [con EXCEPT ![op[o].of] = "revoked"] ELSE con
           /\ UNCHANGED <<code, acc, member, prof, equity, nonce, idem, share,
                         listed, pair, sync, cred, on, wait, late, raced,
                         faults>>
  BY DEF RevokeConnector, AtOp, OpAt, Hand, OpTyped, OpRecord, cloud, records, data, keys,
     links, handlers, terminal

LEMMA CreateShareDoes ==
    ASSUME OpTyped, NEW o \in Ops, CreateShare(o)
    PROVE
           /\ op[o].pc = "read" /\ op[o].kind = "share"
           /\ OpAt(o, "done") /\ Hand(o, {})
           /\ share' = [share EXCEPT ![o] = "live"] /\ listed' = listed \cup {o}
           /\ UNCHANGED <<code, acc, con, member, prof, equity, nonce, idem,
                         pair, sync, cred, on, wait, late, raced, faults>>
  BY DEF CreateShare, AtOp, OpAt, Hand, OpTyped, OpRecord, cloud, records, data, keys,
     links, handlers, terminal

LEMMA RevokeShareDoes ==
    ASSUME OpTyped, NEW o \in Ops, NEW s \in Ops, RevokeShare(o, s)
    PROVE
           /\ op[o].pc = "read" /\ op[o].kind = "unshare" /\ s \in op[o].hand
           /\ OpAt(o, "read") /\ Hand(o, op[o].hand \ {s})
           /\ share' = [share EXCEPT ![s] = "revoked"] /\ listed' = listed \cup {s}
           /\ UNCHANGED <<code, acc, con, member, prof, equity, nonce, idem,
                         pair, sync, cred, on, wait, late, raced, faults>>
  BY DEF RevokeShare, OpAt, Hand, OpTyped, OpRecord, cloud, records, data, keys, links,
     handlers, terminal

LEMMA SharesRevokedDoes ==
    ASSUME OpTyped, NEW o \in Ops, SharesRevoked(o)
    PROVE
           /\ op[o].pc = "read" /\ op[o].kind = "unshare"
           /\ OpAt(o, "done") /\ Hand(o, {})
           /\ UNCHANGED <<code, acc, con, member, prof, equity, nonce, idem,
                         share, listed, pair, sync, cred, on, wait, late, raced,
                         faults>>
  BY DEF SharesRevoked, AtOp, OpAt, Hand, OpTyped, OpRecord, cloud, records, data, keys,
     links, handlers, terminal

LEMMA ListSharesDoes ==
    ASSUME OpTyped, NEW o \in Ops, ListShares(o)
    PROVE
           /\ op[o].pc = "read" /\ op[o].kind = "purge"
           /\ OpAt(o, "listing") /\ Hand(o, {s \in listed : op[s].of = op[o].of})
           /\ UNCHANGED <<code, acc, con, member, prof, equity, nonce, idem,
                         share, listed, pair, sync, cred, on, wait, late, raced,
                         faults>>
  BY DEF ListShares, OpAt, Hand, OpTyped, OpRecord, cloud, records, data, keys, links,
     handlers, terminal

LEMMA DeleteSharesDoes ==
    ASSUME OpTyped, RestTyped, NEW o \in Ops, DeleteShares(o)
    PROVE
           /\ op[o].pc = "listing" /\ op[o].kind = "purge"
           /\ OpAt(o, "unlinked") /\ Hand(o, {})
           /\ \A s \in Ops : share'[s] = IF s \in op[o].hand THEN "none" ELSE share[s]
           /\ share' \in [Ops -> {"none", "live", "revoked"}]
           /\ listed' = {s \in listed : op[s].of # op[o].of}
           /\ UNCHANGED <<code, acc, con, member, prof, equity, nonce, idem,
                         pair, sync, cred, on, wait, late, raced, faults>>
  BY DEF DeleteShares, AtOp, RestTyped, OpAt, Hand, OpTyped, OpRecord, cloud, records, data,
     keys, links, handlers, terminal

LEMMA RemoveWorkspaceAccountDoes ==
    ASSUME OpTyped, NEW o \in Ops, RemoveWorkspaceAccount(o)
    PROVE
           /\ op[o].pc = "unlinked" /\ op[o].kind = "purge"
           /\ OpAt(o, "unlisted") /\ Hand(o, {})
           /\ member' = member \ {op[o].of}
           /\ UNCHANGED <<code, acc, con, prof, equity, nonce, idem, share,
                         listed, pair, sync, cred, on, wait, late, raced,
                         faults>>
  BY DEF RemoveWorkspaceAccount, AtOp, OpAt, Hand, OpTyped, OpRecord, cloud, records, data,
     keys, links, handlers, terminal

LEMMA DeleteProfileDoes ==
    ASSUME OpTyped, NEW o \in Ops, DeleteProfile(o)
    PROVE
           /\ op[o].pc = "unlisted" /\ op[o].kind = "purge"
           /\ OpAt(o, "unprofiled") /\ Hand(o, {})
           /\ prof' = [prof EXCEPT ![op[o].of] = 0]
           /\ UNCHANGED <<code, acc, con, member, equity, nonce, idem, share,
                         listed, pair, sync, cred, on, wait, late, raced,
                         faults>>
  BY DEF DeleteProfile, AtOp, OpAt, Hand, OpTyped, OpRecord, cloud, records, data, keys,
     links, handlers, terminal

LEMMA DeleteEquityDoes ==
    ASSUME OpTyped, NEW o \in Ops, DeleteEquity(o)
    PROVE
           /\ op[o].pc = "unprofiled" /\ op[o].kind = "purge"
           /\ OpAt(o, "unmeasured") /\ Hand(o, {})
           /\ equity' = [equity EXCEPT ![op[o].of] = {}]
           /\ nonce' = {k \in nonce : sync[k].of # op[o].of}
           /\ idem' = {k \in idem : sync[k].of # op[o].of}
           /\ UNCHANGED <<code, acc, con, member, prof, share, listed, pair,
                         sync, cred, on, wait, late, raced, faults>>
  BY DEF DeleteEquity, AtOp, OpAt, Hand, OpTyped, OpRecord, cloud, records, data, keys,
     links, handlers, terminal

LEMMA DeleteConnectorDoes ==
    ASSUME OpTyped, NEW o \in Ops, DeleteConnector(o)
    PROVE
           /\ op[o].pc = "unmeasured" /\ op[o].kind = "purge"
           /\ OpAt(o, "unconnected") /\ Hand(o, {})
           /\ con' = [con EXCEPT ![op[o].of] = "none"]
           /\ UNCHANGED <<code, acc, member, prof, equity, nonce, idem, share,
                         listed, pair, sync, cred, on, wait, late, raced,
                         faults>>
  BY DEF DeleteConnector, AtOp, OpAt, Hand, OpTyped, OpRecord, cloud, records, data, keys,
     links, handlers, terminal

LEMMA DeleteAccountDoes ==
    ASSUME OpTyped, NEW o \in Ops, DeleteAccount(o)
    PROVE
           /\ op[o].pc = "unconnected" /\ op[o].kind = "purge"
           /\ OpAt(o, "done") /\ Hand(o, {})
           /\ acc' = [acc EXCEPT ![op[o].of] = "none"]
           /\ UNCHANGED <<code, con, member, prof, equity, nonce, idem, share,
                         listed, pair, sync, cred, on, wait, late, raced,
                         faults>>
  BY DEF DeleteAccount, AtOp, OpAt, Hand, OpTyped, OpRecord, cloud, records, data, keys,
     links, handlers, terminal

LEMMA OpStopsDoes ==
    ASSUME OpTyped, NEW o \in Ops, OpStops(o)
    PROVE
           /\ op[o].pc \notin Over /\ OpAt(o, "dead") /\ Hand(o, {})
           /\ UNCHANGED <<code, acc, con, member, prof, equity, nonce, idem,
                         share, listed, pair, sync, cred, on, wait, late,
                         raced>>
  BY DEF OpStops, Fault, OpAt, Hand, OpTyped, OpRecord, cloud, records, data, keys, links,
     handlers, terminal

-----------------------------------------------------------------------------
(* Every step keeps every part *)

\* The shape of the snapshots' handlers.
LEMMA SyncTypedStep ==
    ASSUME SyncTyped, RestTyped, [Next]_vars
    PROVE  SyncTyped'
<1>1. ASSUME NEW k \in Syncs, CheckConnector(k) PROVE SyncTyped'
  BY <1>1 DEF CheckConnector, AtSync, SyncTyped, RestTyped, SyncPc, Running, cloud, records,
     data, keys, links, handlers, terminal
<1>2. ASSUME NEW k \in Syncs, ReserveNonce(k) PROVE SyncTyped'
  BY <1>2 DEF ReserveNonce, AtSync, SyncTyped, RestTyped, SyncPc, Running, cloud, records,
     data, keys, links, handlers, terminal
<1>3. ASSUME NEW k \in Syncs, CheckAccount(k) PROVE SyncTyped'
  BY <1>3 DEF CheckAccount, AtSync, SyncTyped, RestTyped, SyncPc, Running, cloud, records,
     data, keys, links, handlers, terminal
<1>4. ASSUME NEW k \in Syncs, AppendEquityPoints(k) PROVE SyncTyped'
  BY <1>4 DEF AppendEquityPoints, AtSync, SyncTyped, RestTyped, SyncPc, Running, cloud,
     records, data, keys, links, handlers, terminal
<1>5. ASSUME NEW k \in Syncs, PutAccount(k) PROVE SyncTyped'
  BY <1>5 DEF PutAccount, AtSync, SyncTyped, RestTyped, SyncPc, Running, cloud, records,
     data, keys, links, handlers, terminal
<1>6. ASSUME NEW k \in Syncs, PutConnector(k) PROVE SyncTyped'
  BY <1>6 DEF PutConnector, AtSync, SyncTyped, RestTyped, SyncPc, Running, cloud, records,
     data, keys, links, handlers, terminal
<1>7. ASSUME NEW k \in Syncs, PutProfile(k) PROVE SyncTyped'
  BY <1>7 DEF PutProfile, AtSync, SyncTyped, RestTyped, SyncPc, Running, cloud, records,
     data, keys, links, handlers, terminal
<1>8. ASSUME NEW k \in Syncs, SetIdempotency(k) PROVE SyncTyped'
  BY <1>8 DEF SetIdempotency, AtSync, SyncTyped, RestTyped, SyncPc, Running, cloud, records,
     data, keys, links, handlers, terminal
<1>9. ASSUME NEW k \in Syncs, SyncStops(k) PROVE SyncTyped'
  BY <1>9 DEF SyncStops, Fault, SyncTyped, RestTyped, SyncPc, Running, cloud, records, data,
     keys, links, handlers, terminal
<1>10. ASSUME NEW k \in Syncs, Redeliver(k) PROVE SyncTyped'
  BY <1>10 DEF Redeliver, Fault, SyncTyped, RestTyped, SyncPc, Running, cloud, records,
     data, keys, links, handlers, terminal
<1>11. ASSUME NEW k \in Syncs, SendSync(k) PROVE SyncTyped'
  BY <1>11 DEF SendSync, SyncTyped, RestTyped, SyncPc, Running, cloud, records, data, keys,
     links, handlers, terminal
<1>12. ASSUME UNCHANGED <<sync>> PROVE SyncTyped'
  BY <1>12 DEF SyncTyped, SyncPc, Running
<1>13. ASSUME CreatePairing \/ PairingExpires \/ Reattach
      PROVE  SyncTyped'
  BY <1>12, <1>13 DEF CreatePairing, PairingExpires, Reattach, AtSync, AtOp, cloud, records,
     data, keys, links, handlers, terminal
<1>14. ASSUME NEW r \in Requests, SendPair(r) \/ ConsumePairing(r) \/ PutNewAccount(r) \/
              PutNewConnector(r) \/ AddWorkspaceAccount(r) \/ Paired(r) \/ PairedInVain(r)
              \/ PairStops(r)
      PROVE  SyncTyped'
  BY <1>12, <1>14 DEF SendPair, ConsumePairing, PutNewAccount, PutNewConnector,
     AddWorkspaceAccount, Paired, PairedInVain, PairStops, AtSync, AtOp, cloud, records,
     data, keys, links, handlers, terminal
<1>15. ASSUME NEW k \in Syncs, SyncAnswered(k) \/ SyncRefused(k) \/ SyncTimesOut(k)
      PROVE  SyncTyped'
  BY <1>12, <1>15 DEF SyncAnswered, SyncRefused, SyncTimesOut, AtSync, AtOp, cloud, records,
     data, keys, links, handlers, terminal
<1>16. ASSUME NEW o \in Ops, NEW kind \in Kinds, NEW r \in Requests, StartOp(o, kind, r)
      PROVE  SyncTyped'
  BY <1>12, <1>16 DEF StartOp, AtSync, AtOp, cloud, records, data, keys, links, handlers,
     terminal
<1>17. ASSUME NEW o \in Ops, RevokeAccount(o) \/ RevokeConnector(o) \/ CreateShare(o) \/
              SharesRevoked(o) \/ ListShares(o) \/ DeleteShares(o) \/
              RemoveWorkspaceAccount(o) \/ DeleteProfile(o) \/ DeleteEquity(o) \/
              DeleteConnector(o) \/ DeleteAccount(o) \/ OpStops(o)
      PROVE  SyncTyped'
  BY <1>12, <1>17 DEF RevokeAccount, RevokeConnector, CreateShare, SharesRevoked,
     ListShares, DeleteShares, RemoveWorkspaceAccount, DeleteProfile, DeleteEquity,
     DeleteConnector, DeleteAccount, OpStops, AtSync, AtOp, cloud, records, data, keys,
     links, handlers, terminal
<1>18. ASSUME NEW o \in Ops, NEW s \in Ops, RevokeShare(o, s)
      PROVE  SyncTyped'
  BY <1>12, <1>18 DEF RevokeShare, AtSync, AtOp, cloud, records, data, keys, links,
     handlers, terminal
<1>19. ASSUME UNCHANGED vars PROVE SyncTyped'
  BY <1>12, <1>19 DEF vars, cloud, records, data, keys, links, handlers, terminal
<1> QED
  BY <1>1, <1>2, <1>3, <1>4, <1>5, <1>6, <1>7, <1>8, <1>9, <1>10, <1>11, <1>12, <1>13,
     <1>14, <1>15, <1>16, <1>17, <1>18, <1>19
     DEF Next, Pairing, Ingest, Terminal, Owner, Purge

\* The shape of the operations.
LEMMA OpTypedStep ==
    ASSUME OpTyped, RestTyped, [Next]_vars
    PROVE  OpTyped'
<1>1. ASSUME NEW o \in Ops, NEW kind \in Kinds, NEW r \in Requests, StartOp(o, kind, r)
      PROVE  OpTyped'
  BY <1>1 DEF StartOp, Hands, LiveShares, OpTyped, RestTyped, OpRecord, OpPc, Kinds, cloud,
     records, data, keys, links, handlers, terminal
<1>2. ASSUME NEW o \in Ops, RevokeAccount(o) PROVE OpTyped'
  BY <1>2, AtOpTyped DEF RevokeAccount, OpPc
<1>3. ASSUME NEW o \in Ops, RevokeConnector(o) PROVE OpTyped'
  BY <1>3, AtOpTyped DEF RevokeConnector, OpPc
<1>4. ASSUME NEW o \in Ops, CreateShare(o) PROVE OpTyped'
  BY <1>4, AtOpTyped DEF CreateShare, OpPc
<1>5. ASSUME NEW o \in Ops, NEW s \in Ops, RevokeShare(o, s) PROVE OpTyped'
  BY <1>5 DEF RevokeShare, OpTyped, RestTyped, OpRecord, OpPc, Kinds, LiveShares, cloud,
     records, data, keys, links, handlers, terminal
<1>6. ASSUME NEW o \in Ops, SharesRevoked(o) PROVE OpTyped'
  BY <1>6, AtOpTyped DEF SharesRevoked, OpPc
<1>7. ASSUME NEW o \in Ops, ListShares(o) PROVE OpTyped'
  <2> DEFINE h == {s \in listed : op[s].of = op[o].of}
  <2>1. PICK x \in OpRecord : x = op[o]
    BY DEF OpTyped
  <2>2. h \in SUBSET Ops
    BY DEF RestTyped
  <2> HIDE DEF h
  <2>3. [x EXCEPT !.pc = "listing", !.hand = h] \in OpRecord
    BY <2>2 DEF OpRecord, OpPc
  <2>4. op' = [op EXCEPT ![o] = [x EXCEPT !.pc = "listing", !.hand = h]]
    BY <1>7, <2>1 DEF ListShares, h
  <2> QED
    BY <2>3, <2>4 DEF OpTyped
<1>8. ASSUME NEW o \in Ops, DeleteShares(o) PROVE OpTyped'
  BY <1>8, AtOpTyped DEF DeleteShares, OpPc
<1>9. ASSUME NEW o \in Ops, RemoveWorkspaceAccount(o) PROVE OpTyped'
  BY <1>9, AtOpTyped DEF RemoveWorkspaceAccount, OpPc
<1>10. ASSUME NEW o \in Ops, DeleteProfile(o) PROVE OpTyped'
  BY <1>10, AtOpTyped DEF DeleteProfile, OpPc
<1>11. ASSUME NEW o \in Ops, DeleteEquity(o) PROVE OpTyped'
  BY <1>11, AtOpTyped DEF DeleteEquity, OpPc
<1>12. ASSUME NEW o \in Ops, DeleteConnector(o) PROVE OpTyped'
  BY <1>12, AtOpTyped DEF DeleteConnector, OpPc
<1>13. ASSUME NEW o \in Ops, DeleteAccount(o) PROVE OpTyped'
  BY <1>13, AtOpTyped DEF DeleteAccount, OpPc
<1>14. ASSUME NEW o \in Ops, OpStops(o) PROVE OpTyped'
  BY <1>14, OpMoves DEF OpStops, OpPc
<1>15. ASSUME UNCHANGED <<op>> PROVE OpTyped'
  BY <1>15 DEF OpTyped, OpRecord, OpPc, Kinds, LiveShares
<1>16. ASSUME CreatePairing \/ PairingExpires \/ Reattach
      PROVE  OpTyped'
  BY <1>15, <1>16 DEF CreatePairing, PairingExpires, Reattach, AtSync, AtOp, cloud, records,
     data, keys, links, handlers, terminal
<1>17. ASSUME NEW r \in Requests, SendPair(r) \/ ConsumePairing(r) \/ PutNewAccount(r) \/
              PutNewConnector(r) \/ AddWorkspaceAccount(r) \/ Paired(r) \/ PairedInVain(r)
              \/ PairStops(r)
      PROVE  OpTyped'
  BY <1>15, <1>17 DEF SendPair, ConsumePairing, PutNewAccount, PutNewConnector,
     AddWorkspaceAccount, Paired, PairedInVain, PairStops, AtSync, AtOp, cloud, records,
     data, keys, links, handlers, terminal
<1>18. ASSUME NEW k \in Syncs, CheckConnector(k) \/ ReserveNonce(k) \/ CheckAccount(k) \/
              AppendEquityPoints(k) \/ PutAccount(k) \/ PutConnector(k) \/ PutProfile(k) \/
              SetIdempotency(k) \/ SyncStops(k) \/ Redeliver(k) \/ SendSync(k) \/
              SyncAnswered(k) \/ SyncRefused(k) \/ SyncTimesOut(k)
      PROVE  OpTyped'
  BY <1>15, <1>18 DEF CheckConnector, ReserveNonce, CheckAccount, AppendEquityPoints,
     PutAccount, PutConnector, PutProfile, SetIdempotency, SyncStops, Redeliver, SendSync,
     SyncAnswered, SyncRefused, SyncTimesOut, AtSync, AtOp, cloud, records, data, keys,
     links, handlers, terminal
<1>19. ASSUME UNCHANGED vars PROVE OpTyped'
  BY <1>15, <1>19 DEF vars, cloud, records, data, keys, links, handlers, terminal
<1> QED
  BY <1>1, <1>2, <1>3, <1>4, <1>5, <1>6, <1>7, <1>8, <1>9, <1>10, <1>11, <1>12, <1>13,
     <1>14, <1>15, <1>16, <1>17, <1>18, <1>19
     DEF Next, Pairing, Ingest, Terminal, Owner, Purge

\* The shape of the records and keys.
LEMMA RestTypedStep ==
    ASSUME SyncTyped, OpTyped, RestTyped, Known, [Next]_vars
    PROVE  RestTyped'
<1>1. ASSUME Reattach PROVE RestTyped'
  <2>1. wait # 0 => wait \in Syncs
    BY Numbers DEF RestTyped
  <2>2. wait' = 0 /\ late' \subseteq Syncs /\ UNCHANGED <<cloud, handlers, cred, raced>>
    BY <1>1, <2>1 DEF Reattach, RestTyped
  <2> QED
    BY <2>2, Numbers DEF RestTyped, cloud, records, data, keys, links, handlers, terminal
<1>2. ASSUME NEW r \in Requests, SendPair(r) PROVE RestTyped'
  BY <1>2 DEF SendPair, Fault, RestTyped, PairPc, cloud, records, data, keys, links,
     handlers, terminal
<1>3. ASSUME NEW r \in Requests, ConsumePairing(r) PROVE RestTyped'
  BY <1>3 DEF ConsumePairing, Fault, RestTyped, PairPc, cloud, records, data, keys, links,
     handlers, terminal
<1>4. ASSUME NEW r \in Requests, PutNewAccount(r) PROVE RestTyped'
  BY <1>4 DEF PutNewAccount, Fault, RestTyped, PairPc, cloud, records, data, keys, links,
     handlers, terminal
<1>5. ASSUME NEW r \in Requests, PutNewConnector(r) PROVE RestTyped'
  BY <1>5 DEF PutNewConnector, Fault, RestTyped, PairPc, cloud, records, data, keys, links,
     handlers, terminal
<1>6. ASSUME NEW r \in Requests, AddWorkspaceAccount(r) PROVE RestTyped'
  BY <1>6 DEF AddWorkspaceAccount, Fault, RestTyped, PairPc, cloud, records, data, keys,
     links, handlers, terminal
<1>7. ASSUME NEW r \in Requests, Paired(r) PROVE RestTyped'
  BY <1>7 DEF Paired, Fault, RestTyped, PairPc, cloud, records, data, keys, links, handlers,
     terminal
<1>8. ASSUME NEW r \in Requests, PairedInVain(r) PROVE RestTyped'
  BY <1>8 DEF PairedInVain, Fault, RestTyped, PairPc, cloud, records, data, keys, links,
     handlers, terminal
<1>9. ASSUME NEW r \in Requests, PairStops(r) PROVE RestTyped'
  BY <1>9 DEF PairStops, Fault, RestTyped, PairPc, cloud, records, data, keys, links,
     handlers, terminal
<1>10. ASSUME NEW k \in Syncs, ReserveNonce(k) PROVE RestTyped'
  <2>1. sync[k].of \in Requests
    BY <1>10, ReserveNonceDoes DEF Known, Running, Over, RestTyped
  <2> QED
    BY <1>10, <2>1, ReserveNonceDoes DEF RestTyped
<1>11. ASSUME NEW k \in Syncs, AppendEquityPoints(k) PROVE RestTyped'
  <2>1. sync[k].of \in Requests
    BY <1>11, AppendEquityPointsDoes DEF Known, Running, Over
  <2>2. equity' \in [Requests -> SUBSET Syncs]
    BY <1>11, <2>1, AppendEquityPointsDoes DEF RestTyped
  <2> QED
    BY <1>11, <2>2, AppendEquityPointsDoes DEF RestTyped
<1>12. ASSUME NEW k \in Syncs, PutAccount(k) PROVE RestTyped'
  <2>1. sync[k].of \in Requests
    BY <1>12, PutAccountDoes DEF Known, Running, Over, RestTyped
  <2> QED
    BY <1>12, <2>1, PutAccountDoes DEF RestTyped
<1>13. ASSUME NEW k \in Syncs, PutConnector(k) PROVE RestTyped'
  <2>1. sync[k].of \in Requests
    BY <1>13, PutConnectorDoes DEF Known, Running, Over, RestTyped
  <2> QED
    BY <1>13, <2>1, PutConnectorDoes DEF RestTyped
<1>14. ASSUME NEW k \in Syncs, PutProfile(k) PROVE RestTyped'
  <2>1. sync[k].of \in Requests
    BY <1>14, PutProfileDoes DEF Known, Running, Over
  <2>2. prof' \in [Requests -> 0 .. LastSync]
    BY <1>14, <2>1, PutProfileDoes, Numbers DEF RestTyped
  <2> QED
    BY <1>14, <2>2, PutProfileDoes DEF RestTyped
<1>15. ASSUME NEW k \in Syncs, SetIdempotency(k) PROVE RestTyped'
  <2>1. sync[k].of \in Requests
    BY <1>15, SetIdempotencyDoes DEF Known, Running, Over, RestTyped
  <2> QED
    BY <1>15, <2>1, SetIdempotencyDoes DEF RestTyped
<1>16. ASSUME NEW k \in Syncs, Redeliver(k) PROVE RestTyped'
  <2>1. sync[k].of \in Requests
    BY <1>16, RedeliverDoes DEF Known, Running, Over
  <2>2. raced' \subseteq Requests
    BY <1>16, <2>1, RedeliverDoes DEF RestTyped
  <2> QED
    BY <1>16, <2>2, RedeliverDoes DEF RestTyped
<1>17. ASSUME NEW k \in Syncs, SendSync(k) PROVE RestTyped'
  <2>1. cred \in Requests
    BY <1>17, SendSyncDoes DEF RestTyped
  <2>2. wait' \in 0 .. LastSync
    BY <1>17, SendSyncDoes, Numbers
  <2> QED
    BY <1>17, <2>1, <2>2, SendSyncDoes DEF RestTyped
<1>18. ASSUME NEW k \in Syncs, SyncAnswered(k) PROVE RestTyped'
  BY <1>18, Numbers DEF SyncAnswered, Fault, RestTyped, cloud, records, data, keys, links,
     handlers, terminal
<1>19. ASSUME NEW k \in Syncs, SyncRefused(k) PROVE RestTyped'
  BY <1>19, Numbers DEF SyncRefused, Fault, RestTyped, cloud, records, data, keys, links,
     handlers, terminal
<1>20. ASSUME NEW k \in Syncs, SyncTimesOut(k) PROVE RestTyped'
  BY <1>20, Numbers DEF SyncTimesOut, Fault, RestTyped, cloud, records, data, keys, links,
     handlers, terminal
<1>21. ASSUME NEW o \in Ops, NEW kind \in Kinds, NEW r \in Requests, StartOp(o, kind, r)
       PROVE  RestTyped'
  <2>1. raced' \subseteq Requests
    BY <1>21, StartOpDoes DEF RestTyped
  <2> QED
    BY <1>21, <2>1, StartOpDoes DEF RestTyped
<1>22. ASSUME NEW o \in Ops, RevokeAccount(o) PROVE RestTyped'
  <2>1. op[o].of \in Requests
    BY <1>22, RevokeAccountDoes DEF Known, Running, Over, RestTyped
  <2> QED
    BY <1>22, <2>1, RevokeAccountDoes DEF RestTyped
<1>23. ASSUME NEW o \in Ops, RevokeConnector(o) PROVE RestTyped'
  <2>1. op[o].of \in Requests
    BY <1>23, RevokeConnectorDoes DEF Known, Running, Over, RestTyped
  <2> QED
    BY <1>23, <2>1, RevokeConnectorDoes DEF RestTyped
<1>24. ASSUME NEW o \in Ops, CreateShare(o) PROVE RestTyped'
  <2>1. op[o].of \in Requests
    BY <1>24, CreateShareDoes DEF Known, Running, Over, RestTyped
  <2> QED
    BY <1>24, <2>1, CreateShareDoes DEF RestTyped
<1>25. ASSUME NEW o \in Ops, NEW s \in Ops, RevokeShare(o, s) PROVE RestTyped'
  <2>1. op[o].of \in Requests
    BY <1>25, RevokeShareDoes DEF Known, Running, Over, RestTyped
  <2> QED
    BY ZenonT(60), <1>25, <2>1, RevokeShareDoes DEF RestTyped
<1>26. ASSUME NEW o \in Ops, DeleteShares(o) PROVE RestTyped'
  <2>1. op[o].of \in Requests
    BY <1>26, DeleteSharesDoes DEF Known, Running, Over, RestTyped
  <2> QED
    BY <1>26, <2>1, DeleteSharesDoes DEF RestTyped
<1>27. ASSUME NEW o \in Ops, RemoveWorkspaceAccount(o) PROVE RestTyped'
  <2>1. op[o].of \in Requests
    BY <1>27, RemoveWorkspaceAccountDoes DEF Known, Running, Over, RestTyped
  <2> QED
    BY <1>27, <2>1, RemoveWorkspaceAccountDoes DEF RestTyped
<1>28. ASSUME NEW o \in Ops, DeleteProfile(o) PROVE RestTyped'
  <2>1. op[o].of \in Requests
    BY <1>28, DeleteProfileDoes DEF Known, Running, Over
  <2>2. prof' \in [Requests -> 0 .. LastSync]
    BY <1>28, <2>1, DeleteProfileDoes, Numbers DEF RestTyped
  <2> QED
    BY <1>28, <2>2, DeleteProfileDoes DEF RestTyped
<1>29. ASSUME NEW o \in Ops, DeleteEquity(o) PROVE RestTyped'
  <2>1. op[o].of \in Requests
    BY <1>29, DeleteEquityDoes DEF Known, Running, Over, RestTyped
  <2> QED
    BY <1>29, <2>1, DeleteEquityDoes DEF RestTyped
<1>30. ASSUME NEW o \in Ops, DeleteConnector(o) PROVE RestTyped'
  <2>1. op[o].of \in Requests
    BY <1>30, DeleteConnectorDoes DEF Known, Running, Over, RestTyped
  <2> QED
    BY <1>30, <2>1, DeleteConnectorDoes DEF RestTyped
<1>31. ASSUME NEW o \in Ops, DeleteAccount(o) PROVE RestTyped'
  <2>1. op[o].of \in Requests
    BY <1>31, DeleteAccountDoes DEF Known, Running, Over, RestTyped
  <2> QED
    BY <1>31, <2>1, DeleteAccountDoes DEF RestTyped
<1>32. ASSUME UNCHANGED <<acc, con, member, prof, equity, nonce, idem, share, listed, pair,
              cred, wait, late, raced>>
       PROVE  RestTyped'
  BY <1>32 DEF RestTyped
<1>33. ASSUME CreatePairing \/ PairingExpires
      PROVE  RestTyped'
  BY <1>32, <1>33 DEF CreatePairing, PairingExpires, AtSync, AtOp, cloud, records, data,
     keys, links, handlers, terminal
<1>34. ASSUME NEW k \in Syncs, CheckConnector(k) \/ CheckAccount(k) \/ SyncStops(k)
      PROVE  RestTyped'
  BY <1>32, <1>34 DEF CheckConnector, CheckAccount, SyncStops, AtSync, AtOp, cloud, records,
     data, keys, links, handlers, terminal
<1>35. ASSUME NEW o \in Ops, SharesRevoked(o) \/ ListShares(o) \/ OpStops(o)
      PROVE  RestTyped'
  BY <1>32, <1>35 DEF SharesRevoked, ListShares, OpStops, AtSync, AtOp, cloud, records,
     data, keys, links, handlers, terminal
<1>36. ASSUME UNCHANGED vars PROVE RestTyped'
  BY <1>32, <1>36 DEF vars, cloud, records, data, keys, links, handlers, terminal
<1> QED
  BY <1>1, <1>2, <1>3, <1>4, <1>5, <1>6, <1>7, <1>8, <1>9, <1>10, <1>11, <1>12, <1>13,
     <1>14, <1>15, <1>16, <1>17, <1>18, <1>19, <1>20, <1>21, <1>22, <1>23, <1>24, <1>25,
     <1>26, <1>27, <1>28, <1>29, <1>30, <1>31, <1>32, <1>33, <1>34, <1>35, <1>36
     DEF Next, Pairing, Ingest, Terminal, Owner, Purge

\* The two switches.
LEMMA SwitchesStep ==
    ASSUME Switches, [Next]_vars
    PROVE  Switches'
<1>1. ASSUME CreatePairing PROVE Switches'
  BY <1>1 DEF CreatePairing, Switches, cloud, records, data, keys, links, handlers, terminal
<1>2. ASSUME PairingExpires PROVE Switches'
  BY <1>2 DEF PairingExpires, Fault, Switches, cloud, records, data, keys, links, handlers,
     terminal
<1>3. ASSUME Reattach PROVE Switches'
  BY <1>3 DEF Reattach, Fault, Switches, cloud, records, data, keys, links, handlers,
     terminal
<1>4. ASSUME NEW r \in Requests, ConsumePairing(r) PROVE Switches'
  BY <1>4 DEF ConsumePairing, Switches, cloud, records, data, keys, links, handlers,
     terminal
<1>5. ASSUME NEW r \in Requests, Paired(r) PROVE Switches'
  BY <1>5 DEF Paired, Switches, cloud, records, data, keys, links, handlers, terminal
<1>6. ASSUME NEW k \in Syncs, SyncRefused(k) PROVE Switches'
  BY <1>6 DEF SyncRefused, Fault, Switches, cloud, records, data, keys, links, handlers,
     terminal
<1>7. ASSUME UNCHANGED <<code, on>> PROVE Switches'
  BY <1>7 DEF Switches
<1>8. ASSUME NEW r \in Requests, SendPair(r) \/ PutNewAccount(r) \/ PutNewConnector(r) \/
             AddWorkspaceAccount(r) \/ PairedInVain(r) \/ PairStops(r)
      PROVE  Switches'
  BY <1>7, <1>8 DEF SendPair, PutNewAccount, PutNewConnector, AddWorkspaceAccount,
     PairedInVain, PairStops, AtSync, AtOp, cloud, records, data, keys, links, handlers,
     terminal
<1>9. ASSUME NEW k \in Syncs, CheckConnector(k) \/ ReserveNonce(k) \/ CheckAccount(k) \/
             AppendEquityPoints(k) \/ PutAccount(k) \/ PutConnector(k) \/ PutProfile(k) \/
             SetIdempotency(k) \/ SyncStops(k) \/ Redeliver(k) \/ SendSync(k) \/
             SyncAnswered(k) \/ SyncTimesOut(k)
      PROVE  Switches'
  BY <1>7, <1>9 DEF CheckConnector, ReserveNonce, CheckAccount, AppendEquityPoints,
     PutAccount, PutConnector, PutProfile, SetIdempotency, SyncStops, Redeliver, SendSync,
     SyncAnswered, SyncTimesOut, AtSync, AtOp, cloud, records, data, keys, links, handlers,
     terminal
<1>10. ASSUME NEW o \in Ops, NEW kind \in Kinds, NEW r \in Requests, StartOp(o, kind, r)
      PROVE  Switches'
  BY <1>7, <1>10 DEF StartOp, AtSync, AtOp, cloud, records, data, keys, links, handlers,
     terminal
<1>11. ASSUME NEW o \in Ops, RevokeAccount(o) \/ RevokeConnector(o) \/ CreateShare(o) \/
              SharesRevoked(o) \/ ListShares(o) \/ DeleteShares(o) \/
              RemoveWorkspaceAccount(o) \/ DeleteProfile(o) \/ DeleteEquity(o) \/
              DeleteConnector(o) \/ DeleteAccount(o) \/ OpStops(o)
      PROVE  Switches'
  BY <1>7, <1>11 DEF RevokeAccount, RevokeConnector, CreateShare, SharesRevoked, ListShares,
     DeleteShares, RemoveWorkspaceAccount, DeleteProfile, DeleteEquity, DeleteConnector,
     DeleteAccount, OpStops, AtSync, AtOp, cloud, records, data, keys, links, handlers,
     terminal
<1>12. ASSUME NEW o \in Ops, NEW s \in Ops, RevokeShare(o, s)
      PROVE  Switches'
  BY <1>7, <1>12 DEF RevokeShare, AtSync, AtOp, cloud, records, data, keys, links, handlers,
     terminal
<1>13. ASSUME UNCHANGED vars PROVE Switches'
  BY <1>7, <1>13 DEF vars, cloud, records, data, keys, links, handlers, terminal
<1> QED
  BY <1>1, <1>2, <1>3, <1>4, <1>5, <1>6, <1>7, <1>8, <1>9, <1>10, <1>11, <1>12, <1>13
     DEF Next, Pairing, Ingest, Terminal, Owner, Purge

\* The fault budget.
LEMMA BudgetStep ==
    ASSUME Budget, [Next]_vars
    PROVE  Budget'
<1>1. ASSUME PairingExpires PROVE Budget'
  BY <1>1, ServiceAssumption DEF PairingExpires, Fault, Budget, cloud, records, data, keys,
     links, handlers, terminal
<1>2. ASSUME Reattach PROVE Budget'
  BY <1>2, ServiceAssumption DEF Reattach, Fault, Budget, cloud, records, data, keys, links,
     handlers, terminal
<1>3. ASSUME NEW r \in Requests, PairedInVain(r) PROVE Budget'
  BY <1>3, ServiceAssumption DEF PairedInVain, Fault, Budget, cloud, records, data, keys,
     links, handlers, terminal
<1>4. ASSUME NEW r \in Requests, PairStops(r) PROVE Budget'
  BY <1>4, ServiceAssumption DEF PairStops, Fault, Budget, cloud, records, data, keys,
     links, handlers, terminal
<1>5. ASSUME NEW k \in Syncs, SyncStops(k) PROVE Budget'
  BY <1>5, ServiceAssumption DEF SyncStops, Fault, Budget, cloud, records, data, keys,
     links, handlers, terminal
<1>6. ASSUME NEW k \in Syncs, Redeliver(k) PROVE Budget'
  BY <1>6, ServiceAssumption DEF Redeliver, Fault, Budget, cloud, records, data, keys,
     links, handlers, terminal
<1>7. ASSUME NEW k \in Syncs, SyncRefused(k) PROVE Budget'
  BY <1>7, ServiceAssumption DEF SyncRefused, Fault, Budget, cloud, records, data, keys,
     links, handlers, terminal
<1>8. ASSUME NEW k \in Syncs, SyncTimesOut(k) PROVE Budget'
  BY <1>8, ServiceAssumption DEF SyncTimesOut, Fault, Budget, cloud, records, data, keys,
     links, handlers, terminal
<1>9. ASSUME NEW o \in Ops, OpStops(o) PROVE Budget'
  BY <1>9, ServiceAssumption DEF OpStops, Fault, Budget, cloud, records, data, keys, links,
     handlers, terminal
<1>10. ASSUME UNCHANGED <<faults>> PROVE Budget'
  BY <1>10 DEF Budget, Fault
<1>11. ASSUME CreatePairing
      PROVE  Budget'
  BY <1>10, <1>11 DEF CreatePairing, AtSync, AtOp, cloud, records, data, keys, links,
     handlers, terminal
<1>12. ASSUME NEW r \in Requests, SendPair(r) \/ ConsumePairing(r) \/ PutNewAccount(r) \/
              PutNewConnector(r) \/ AddWorkspaceAccount(r) \/ Paired(r)
      PROVE  Budget'
  BY <1>10, <1>12 DEF SendPair, ConsumePairing, PutNewAccount, PutNewConnector,
     AddWorkspaceAccount, Paired, AtSync, AtOp, cloud, records, data, keys, links, handlers,
     terminal
<1>13. ASSUME NEW k \in Syncs, CheckConnector(k) \/ ReserveNonce(k) \/ CheckAccount(k) \/
              AppendEquityPoints(k) \/ PutAccount(k) \/ PutConnector(k) \/ PutProfile(k) \/
              SetIdempotency(k) \/ SendSync(k) \/ SyncAnswered(k)
      PROVE  Budget'
  BY <1>10, <1>13 DEF CheckConnector, ReserveNonce, CheckAccount, AppendEquityPoints,
     PutAccount, PutConnector, PutProfile, SetIdempotency, SendSync, SyncAnswered, AtSync,
     AtOp, cloud, records, data, keys, links, handlers, terminal
<1>14. ASSUME NEW o \in Ops, NEW kind \in Kinds, NEW r \in Requests, StartOp(o, kind, r)
      PROVE  Budget'
  BY <1>10, <1>14 DEF StartOp, AtSync, AtOp, cloud, records, data, keys, links, handlers,
     terminal
<1>15. ASSUME NEW o \in Ops, RevokeAccount(o) \/ RevokeConnector(o) \/ CreateShare(o) \/
              SharesRevoked(o) \/ ListShares(o) \/ DeleteShares(o) \/
              RemoveWorkspaceAccount(o) \/ DeleteProfile(o) \/ DeleteEquity(o) \/
              DeleteConnector(o) \/ DeleteAccount(o)
      PROVE  Budget'
  BY <1>10, <1>15 DEF RevokeAccount, RevokeConnector, CreateShare, SharesRevoked,
     ListShares, DeleteShares, RemoveWorkspaceAccount, DeleteProfile, DeleteEquity,
     DeleteConnector, DeleteAccount, AtSync, AtOp, cloud, records, data, keys, links,
     handlers, terminal
<1>16. ASSUME NEW o \in Ops, NEW s \in Ops, RevokeShare(o, s)
      PROVE  Budget'
  BY <1>10, <1>16 DEF RevokeShare, AtSync, AtOp, cloud, records, data, keys, links,
     handlers, terminal
<1>17. ASSUME UNCHANGED vars PROVE Budget'
  BY <1>10, <1>17 DEF vars, cloud, records, data, keys, links, handlers, terminal
<1> QED
  BY <1>1, <1>2, <1>3, <1>4, <1>5, <1>6, <1>7, <1>8, <1>9, <1>10, <1>11, <1>12, <1>13,
     <1>14, <1>15, <1>16, <1>17
     DEF Next, Pairing, Ingest, Terminal, Owner, Purge

\* Pairing comes before every use of an account.
LEMMA KnownStep ==
    ASSUME SyncTyped, OpTyped, RestTyped, Known, [Next]_vars
    PROVE  Known'
<1>1. ASSUME NEW r \in Requests, SendPair(r) PROVE Known'
  BY <1>1, ServiceAssumption DEF SendPair, Known, RestTyped, Running, Over, cloud, records,
     data, keys, links, handlers, terminal
<1>2. ASSUME NEW r \in Requests, ConsumePairing(r) PROVE Known'
  BY <1>2, ServiceAssumption DEF ConsumePairing, Known, RestTyped, Running, Over, cloud,
     records, data, keys, links, handlers, terminal
<1>3. ASSUME NEW r \in Requests, PutNewAccount(r) PROVE Known'
  BY <1>3, ServiceAssumption DEF PutNewAccount, Known, RestTyped, Running, Over, cloud,
     records, data, keys, links, handlers, terminal
<1>4. ASSUME NEW r \in Requests, PutNewConnector(r) PROVE Known'
  BY <1>4, ServiceAssumption DEF PutNewConnector, Known, RestTyped, Running, Over, cloud,
     records, data, keys, links, handlers, terminal
<1>5. ASSUME NEW r \in Requests, AddWorkspaceAccount(r) PROVE Known'
  BY <1>5, ServiceAssumption DEF AddWorkspaceAccount, Known, RestTyped, Running, Over,
     cloud, records, data, keys, links, handlers, terminal
<1>6. ASSUME NEW r \in Requests, Paired(r) PROVE Known'
  BY <1>6, ServiceAssumption DEF Paired, Known, RestTyped, Running, Over, cloud, records,
     data, keys, links, handlers, terminal
<1>7. ASSUME NEW r \in Requests, PairedInVain(r) PROVE Known'
  BY <1>7, ServiceAssumption DEF PairedInVain, Fault, Known, RestTyped, Running, Over,
     cloud, records, data, keys, links, handlers, terminal
<1>8. ASSUME NEW r \in Requests, PairStops(r) PROVE Known'
  BY <1>8, ServiceAssumption DEF PairStops, Fault, Known, RestTyped, Running, Over, cloud,
     records, data, keys, links, handlers, terminal
<1>9. ASSUME NEW k \in Syncs, CheckConnector(k) PROVE Known'
  BY <1>9, CheckConnectorDoes, ServiceAssumption DEF SyncAt, Known, RestTyped, Running, Over
<1>10. ASSUME NEW k \in Syncs, ReserveNonce(k) PROVE Known'
  BY <1>10, ReserveNonceDoes, ServiceAssumption DEF SyncAt, Known, RestTyped, Running, Over
<1>11. ASSUME NEW k \in Syncs, CheckAccount(k) PROVE Known'
  BY <1>11, CheckAccountDoes, ServiceAssumption DEF SyncAt, Known, RestTyped, Running, Over
<1>12. ASSUME NEW k \in Syncs, AppendEquityPoints(k) PROVE Known'
  BY <1>12, AppendEquityPointsDoes, ServiceAssumption DEF SyncAt, Known, RestTyped, Running,
     Over
<1>13. ASSUME NEW k \in Syncs, PutAccount(k) PROVE Known'
  BY <1>13, PutAccountDoes, ServiceAssumption DEF SyncAt, Known, RestTyped, Running, Over
<1>14. ASSUME NEW k \in Syncs, PutConnector(k) PROVE Known'
  BY <1>14, PutConnectorDoes, ServiceAssumption DEF SyncAt, Known, RestTyped, Running, Over
<1>15. ASSUME NEW k \in Syncs, PutProfile(k) PROVE Known'
  BY <1>15, PutProfileDoes, ServiceAssumption DEF SyncAt, Known, RestTyped, Running, Over
<1>16. ASSUME NEW k \in Syncs, SetIdempotency(k) PROVE Known'
  BY <1>16, SetIdempotencyDoes, ServiceAssumption DEF SyncAt, Known, RestTyped, Running,
     Over
<1>17. ASSUME NEW k \in Syncs, SyncStops(k) PROVE Known'
  BY <1>17, SyncStopsDoes, ServiceAssumption DEF SyncAt, Known, RestTyped, Running, Over
<1>18. ASSUME NEW k \in Syncs, Redeliver(k) PROVE Known'
  BY <1>18, RedeliverDoes, ServiceAssumption DEF SyncAt, Known, RestTyped, Running, Over
<1>19. ASSUME NEW k \in Syncs, SendSync(k) PROVE Known'
  BY <1>19, SendSyncDoes, ServiceAssumption DEF SyncAt, Known, RestTyped, Running, Over
<1>20. ASSUME NEW k \in Syncs, SyncRefused(k) PROVE Known'
  BY <1>20, ServiceAssumption DEF SyncRefused, Fault, Known, RestTyped, Running, Over,
     cloud, records, data, keys, links, handlers, terminal
<1>21. ASSUME NEW o \in Ops, NEW kind \in Kinds, NEW r \in Requests, StartOp(o, kind, r)
       PROVE  Known'
  BY <1>21, StartOpDoes, ServiceAssumption DEF OpAt, Hand, Known, RestTyped, Running, Over
<1>22. ASSUME NEW o \in Ops, RevokeAccount(o) PROVE Known'
  BY <1>22, RevokeAccountDoes, ServiceAssumption DEF OpAt, Hand, Known, RestTyped, Running,
     Over
<1>23. ASSUME NEW o \in Ops, RevokeConnector(o) PROVE Known'
  BY <1>23, RevokeConnectorDoes, ServiceAssumption DEF OpAt, Hand, Known, RestTyped,
     Running, Over
<1>24. ASSUME NEW o \in Ops, CreateShare(o) PROVE Known'
  BY <1>24, CreateShareDoes, ServiceAssumption DEF OpAt, Hand, Known, RestTyped, Running,
     Over
<1>25. ASSUME NEW o \in Ops, NEW s \in Ops, RevokeShare(o, s) PROVE Known'
  <2>1. /\ op[o].pc = "read" /\ op[o].kind = "unshare"
        /\ OpAt(o, "read") /\ Hand(o, op[o].hand \ {s})
        /\ UNCHANGED <<acc, con, pair, member, cred, sync, wait, late, raced, prof, equity, nonce, idem>>
    BY <1>25, RevokeShareDoes
  <2> QED
    BY <2>1, ServiceAssumption DEF OpAt, Hand, Known, Running, Over
<1>26. ASSUME NEW o \in Ops, SharesRevoked(o) PROVE Known'
  BY <1>26, SharesRevokedDoes, ServiceAssumption DEF OpAt, Hand, Known, RestTyped, Running,
     Over
<1>27. ASSUME NEW o \in Ops, ListShares(o) PROVE Known'
  BY <1>27, ListSharesDoes, ServiceAssumption DEF OpAt, Hand, Known, RestTyped, Running,
     Over
<1>28. ASSUME NEW o \in Ops, DeleteShares(o) PROVE Known'
  BY <1>28, DeleteSharesDoes, ServiceAssumption DEF OpAt, Hand, Known, RestTyped, Running,
     Over
<1>29. ASSUME NEW o \in Ops, RemoveWorkspaceAccount(o) PROVE Known'
  BY <1>29, RemoveWorkspaceAccountDoes, ServiceAssumption DEF OpAt, Hand, Known, RestTyped,
     Running, Over
<1>30. ASSUME NEW o \in Ops, DeleteProfile(o) PROVE Known'
  BY <1>30, DeleteProfileDoes, ServiceAssumption DEF OpAt, Hand, Known, RestTyped, Running,
     Over
<1>31. ASSUME NEW o \in Ops, DeleteEquity(o) PROVE Known'
  BY <1>31, DeleteEquityDoes, ServiceAssumption DEF OpAt, Hand, Known, RestTyped, Running,
     Over
<1>32. ASSUME NEW o \in Ops, DeleteConnector(o) PROVE Known'
  BY <1>32, DeleteConnectorDoes, ServiceAssumption DEF OpAt, Hand, Known, RestTyped,
     Running, Over
<1>33. ASSUME NEW o \in Ops, DeleteAccount(o) PROVE Known'
  BY <1>33, DeleteAccountDoes, ServiceAssumption DEF OpAt, Hand, Known, RestTyped, Running,
     Over
<1>34. ASSUME NEW o \in Ops, OpStops(o) PROVE Known'
  BY <1>34, OpStopsDoes, ServiceAssumption DEF OpAt, Hand, Known, RestTyped, Running, Over
<1>35. ASSUME UNCHANGED <<member, pair, sync, op, cred>> PROVE Known'
  BY <1>35 DEF Known, Running, Over
<1>36. ASSUME CreatePairing \/ PairingExpires \/ Reattach
      PROVE  Known'
  BY <1>35, <1>36 DEF CreatePairing, PairingExpires, Reattach, AtSync, AtOp, cloud, records,
     data, keys, links, handlers, terminal
<1>37. ASSUME NEW k \in Syncs, SyncAnswered(k) \/ SyncTimesOut(k)
      PROVE  Known'
  BY <1>35, <1>37 DEF SyncAnswered, SyncTimesOut, AtSync, AtOp, cloud, records, data, keys,
     links, handlers, terminal
<1>38. ASSUME UNCHANGED vars PROVE Known'
  BY <1>35, <1>38 DEF vars, cloud, records, data, keys, links, handlers, terminal
<1> QED
  BY <1>1, <1>2, <1>3, <1>4, <1>5, <1>6, <1>7, <1>8, <1>9, <1>10, <1>11, <1>12, <1>13,
     <1>14, <1>15, <1>16, <1>17, <1>18, <1>19, <1>20, <1>21, <1>22, <1>23, <1>24, <1>25,
     <1>26, <1>27, <1>28, <1>29, <1>30, <1>31, <1>32, <1>33, <1>34, <1>35, <1>36, <1>37,
     <1>38
     DEF Next, Pairing, Ingest, Terminal, Owner, Purge

\* An operation without a race stays alone: another handler that starts marks it.
LEMMA AloneStep ==
    ASSUME SyncTyped, OpTyped, RestTyped, Known, Alone, [Next]_vars
    PROVE  Alone'
<1>1. ASSUME NEW k \in Syncs, CheckConnector(k) PROVE Alone'
  BY <1>1, CheckConnectorDoes, ServiceAssumption DEF SyncAt, Alone, RestTyped, Known,
     Running, Over, Syncs
<1>2. ASSUME NEW k \in Syncs, ReserveNonce(k) PROVE Alone'
  BY <1>2, ReserveNonceDoes, ServiceAssumption DEF SyncAt, Alone, RestTyped, Known, Running,
     Over, Syncs
<1>3. ASSUME NEW k \in Syncs, CheckAccount(k) PROVE Alone'
  BY <1>3, CheckAccountDoes, ServiceAssumption DEF SyncAt, Alone, RestTyped, Known, Running,
     Over, Syncs
<1>4. ASSUME NEW k \in Syncs, AppendEquityPoints(k) PROVE Alone'
  BY <1>4, AppendEquityPointsDoes, ServiceAssumption DEF SyncAt, Alone, RestTyped, Known,
     Running, Over, Syncs
<1>5. ASSUME NEW k \in Syncs, PutAccount(k) PROVE Alone'
  BY <1>5, PutAccountDoes, ServiceAssumption DEF SyncAt, Alone, RestTyped, Known, Running,
     Over, Syncs
<1>6. ASSUME NEW k \in Syncs, PutConnector(k) PROVE Alone'
  BY <1>6, PutConnectorDoes, ServiceAssumption DEF SyncAt, Alone, RestTyped, Known, Running,
     Over, Syncs
<1>7. ASSUME NEW k \in Syncs, PutProfile(k) PROVE Alone'
  BY <1>7, PutProfileDoes, ServiceAssumption DEF SyncAt, Alone, RestTyped, Known, Running,
     Over, Syncs
<1>8. ASSUME NEW k \in Syncs, SetIdempotency(k) PROVE Alone'
  BY <1>8, SetIdempotencyDoes, ServiceAssumption DEF SyncAt, Alone, RestTyped, Known,
     Running, Over, Syncs
<1>9. ASSUME NEW k \in Syncs, SyncStops(k) PROVE Alone'
  BY <1>9, SyncStopsDoes, ServiceAssumption DEF SyncAt, Alone, RestTyped, Known, Running,
     Over, Syncs
<1>10. ASSUME NEW k \in Syncs, Redeliver(k) PROVE Alone'
  BY <1>10, RedeliverDoes, ServiceAssumption DEF SyncAt, Alone, RestTyped, Known, Running,
     Over, Syncs
<1>11. ASSUME NEW k \in Syncs, SendSync(k) PROVE Alone'
  BY <1>11, SendSyncDoes, ServiceAssumption DEF SyncAt, Alone, RestTyped, Known, Running,
     Over, Syncs
<1>12. ASSUME NEW o \in Ops, NEW kind \in Kinds, NEW r \in Requests, StartOp(o, kind, r)
       PROVE  Alone'
  BY <1>12, StartOpDoes, ServiceAssumption DEF OpAt, Hand, Alone, RestTyped, Known, Running,
     Over, Syncs
<1>13. ASSUME NEW o \in Ops, RevokeAccount(o) PROVE Alone'
  BY <1>13, RevokeAccountDoes, ServiceAssumption DEF OpAt, Hand, Alone, RestTyped, Known,
     Running, Over, Syncs
<1>14. ASSUME NEW o \in Ops, RevokeConnector(o) PROVE Alone'
  BY <1>14, RevokeConnectorDoes, ServiceAssumption DEF OpAt, Hand, Alone, RestTyped, Known,
     Running, Over, Syncs
<1>15. ASSUME NEW o \in Ops, CreateShare(o) PROVE Alone'
  BY <1>15, CreateShareDoes, ServiceAssumption DEF OpAt, Hand, Alone, RestTyped, Known,
     Running, Over, Syncs
<1>16. ASSUME NEW o \in Ops, NEW s \in Ops, RevokeShare(o, s) PROVE Alone'
  <2>1. /\ op[o].pc = "read" /\ op[o].kind = "unshare"
        /\ OpAt(o, "read") /\ Hand(o, op[o].hand \ {s})
        /\ UNCHANGED <<acc, con, pair, member, cred, sync, wait, late, raced, prof, equity, nonce, idem>>
    BY <1>16, RevokeShareDoes
  <2> QED
    BY <2>1 DEF OpAt, Hand, Alone, Running, Over
<1>17. ASSUME NEW o \in Ops, SharesRevoked(o) PROVE Alone'
  BY <1>17, SharesRevokedDoes, ServiceAssumption DEF OpAt, Hand, Alone, RestTyped, Known,
     Running, Over, Syncs
<1>18. ASSUME NEW o \in Ops, ListShares(o) PROVE Alone'
  BY <1>18, ListSharesDoes, ServiceAssumption DEF OpAt, Hand, Alone, RestTyped, Known,
     Running, Over, Syncs
<1>19. ASSUME NEW o \in Ops, DeleteShares(o) PROVE Alone'
  BY <1>19, DeleteSharesDoes, ServiceAssumption DEF OpAt, Hand, Alone, RestTyped, Known,
     Running, Over, Syncs
<1>20. ASSUME NEW o \in Ops, RemoveWorkspaceAccount(o) PROVE Alone'
  BY <1>20, RemoveWorkspaceAccountDoes, ServiceAssumption DEF OpAt, Hand, Alone, RestTyped,
     Known, Running, Over, Syncs
<1>21. ASSUME NEW o \in Ops, DeleteProfile(o) PROVE Alone'
  BY <1>21, DeleteProfileDoes, ServiceAssumption DEF OpAt, Hand, Alone, RestTyped, Known,
     Running, Over, Syncs
<1>22. ASSUME NEW o \in Ops, DeleteEquity(o) PROVE Alone'
  BY <1>22, DeleteEquityDoes, ServiceAssumption DEF OpAt, Hand, Alone, RestTyped, Known,
     Running, Over, Syncs
<1>23. ASSUME NEW o \in Ops, DeleteConnector(o) PROVE Alone'
  BY <1>23, DeleteConnectorDoes, ServiceAssumption DEF OpAt, Hand, Alone, RestTyped, Known,
     Running, Over, Syncs
<1>24. ASSUME NEW o \in Ops, DeleteAccount(o) PROVE Alone'
  BY <1>24, DeleteAccountDoes, ServiceAssumption DEF OpAt, Hand, Alone, RestTyped, Known,
     Running, Over, Syncs
<1>25. ASSUME NEW o \in Ops, OpStops(o) PROVE Alone'
  BY <1>25, OpStopsDoes, ServiceAssumption DEF OpAt, Hand, Alone, RestTyped, Known, Running,
     Over, Syncs
<1>26. ASSUME UNCHANGED <<sync, op, raced>> PROVE Alone'
  BY <1>26 DEF Alone, Running, Over, Syncs
<1>27. ASSUME CreatePairing \/ PairingExpires \/ Reattach
      PROVE  Alone'
  BY <1>26, <1>27 DEF CreatePairing, PairingExpires, Reattach, AtSync, AtOp, cloud, records,
     data, keys, links, handlers, terminal
<1>28. ASSUME NEW r \in Requests, SendPair(r) \/ ConsumePairing(r) \/ PutNewAccount(r) \/
              PutNewConnector(r) \/ AddWorkspaceAccount(r) \/ Paired(r) \/ PairedInVain(r)
              \/ PairStops(r)
      PROVE  Alone'
  BY <1>26, <1>28 DEF SendPair, ConsumePairing, PutNewAccount, PutNewConnector,
     AddWorkspaceAccount, Paired, PairedInVain, PairStops, AtSync, AtOp, cloud, records,
     data, keys, links, handlers, terminal
<1>29. ASSUME NEW k \in Syncs, SyncAnswered(k) \/ SyncRefused(k) \/ SyncTimesOut(k)
      PROVE  Alone'
  BY <1>26, <1>29 DEF SyncAnswered, SyncRefused, SyncTimesOut, AtSync, AtOp, cloud, records,
     data, keys, links, handlers, terminal
<1>30. ASSUME UNCHANGED vars PROVE Alone'
  BY <1>26, <1>30 DEF vars, cloud, records, data, keys, links, handlers, terminal
<1> QED
  BY <1>1, <1>2, <1>3, <1>4, <1>5, <1>6, <1>7, <1>8, <1>9, <1>10, <1>11, <1>12, <1>13,
     <1>14, <1>15, <1>16, <1>17, <1>18, <1>19, <1>20, <1>21, <1>22, <1>23, <1>24, <1>25,
     <1>26, <1>27, <1>28, <1>29, <1>30
     DEF Next, Pairing, Ingest, Terminal, Owner, Purge

\* No snapshot is past its first check once the connector is taken.
LEMMA DormantStep ==
    ASSUME SyncTyped, OpTyped, RestTyped, Known, Alone, Dormant, [Next]_vars
    PROVE  Dormant'
<1>1. ASSUME NEW r \in Requests, PutNewConnector(r) PROVE Dormant'
  BY <1>1 DEF PutNewConnector, Dormant, RestTyped, Known, Alone, Deep, Running, Over, cloud,
     records, data, keys, links, handlers, terminal
<1>2. ASSUME NEW k \in Syncs, CheckConnector(k) PROVE Dormant'
  BY <1>2, CheckConnectorDoes DEF SyncAt, Dormant, RestTyped, Known, Alone, Deep, Running,
     Over
<1>3. ASSUME NEW k \in Syncs, ReserveNonce(k) PROVE Dormant'
  BY <1>3, ReserveNonceDoes DEF SyncAt, Dormant, RestTyped, Known, Alone, Deep, Running,
     Over
<1>4. ASSUME NEW k \in Syncs, CheckAccount(k) PROVE Dormant'
  BY <1>4, CheckAccountDoes DEF SyncAt, Dormant, RestTyped, Known, Alone, Deep, Running,
     Over
<1>5. ASSUME NEW k \in Syncs, AppendEquityPoints(k) PROVE Dormant'
  BY <1>5, AppendEquityPointsDoes DEF SyncAt, Dormant, RestTyped, Known, Alone, Deep,
     Running, Over
<1>6. ASSUME NEW k \in Syncs, PutAccount(k) PROVE Dormant'
  BY <1>6, PutAccountDoes DEF SyncAt, Dormant, RestTyped, Known, Alone, Deep, Running, Over
<1>7. ASSUME NEW k \in Syncs, PutConnector(k) PROVE Dormant'
  BY <1>7, PutConnectorDoes DEF SyncAt, Dormant, RestTyped, Known, Alone, Deep, Running,
     Over
<1>8. ASSUME NEW k \in Syncs, PutProfile(k) PROVE Dormant'
  BY <1>8, PutProfileDoes DEF SyncAt, Dormant, RestTyped, Known, Alone, Deep, Running, Over
<1>9. ASSUME NEW k \in Syncs, SetIdempotency(k) PROVE Dormant'
  BY <1>9, SetIdempotencyDoes DEF SyncAt, Dormant, RestTyped, Known, Alone, Deep, Running,
     Over
<1>10. ASSUME NEW k \in Syncs, SyncStops(k) PROVE Dormant'
  BY <1>10, SyncStopsDoes DEF SyncAt, Dormant, RestTyped, Known, Alone, Deep, Running, Over
<1>11. ASSUME NEW k \in Syncs, Redeliver(k) PROVE Dormant'
  BY <1>11, RedeliverDoes DEF SyncAt, Dormant, RestTyped, Known, Alone, Deep, Running, Over
<1>12. ASSUME NEW k \in Syncs, SendSync(k) PROVE Dormant'
  BY <1>12, SendSyncDoes DEF SyncAt, Dormant, RestTyped, Known, Alone, Deep, Running, Over
<1>13. ASSUME NEW o \in Ops, NEW kind \in Kinds, NEW r \in Requests, StartOp(o, kind, r)
       PROVE  Dormant'
  BY <1>13, StartOpDoes DEF OpAt, Hand, Dormant, RestTyped, Known, Alone, Deep, Running,
     Over
<1>14. ASSUME NEW o \in Ops, RevokeConnector(o) PROVE Dormant'
  BY <1>14, RevokeConnectorDoes DEF OpAt, Hand, Dormant, RestTyped, Known, Alone, Deep,
     Running, Over
<1>15. ASSUME NEW o \in Ops, DeleteConnector(o) PROVE Dormant'
  BY <1>15, DeleteConnectorDoes DEF OpAt, Hand, Dormant, RestTyped, Known, Alone, Deep,
     Running, Over
<1>16. ASSUME UNCHANGED <<con, sync, raced>> PROVE Dormant'
  BY <1>16 DEF Dormant, Deep, Running, Over
<1>17. ASSUME CreatePairing \/ PairingExpires \/ Reattach
      PROVE  Dormant'
  BY <1>16, <1>17 DEF CreatePairing, PairingExpires, Reattach, AtSync, AtOp, cloud, records,
     data, keys, links, handlers, terminal
<1>18. ASSUME NEW r \in Requests, SendPair(r) \/ ConsumePairing(r) \/ PutNewAccount(r) \/
              AddWorkspaceAccount(r) \/ Paired(r) \/ PairedInVain(r) \/ PairStops(r)
      PROVE  Dormant'
  BY <1>16, <1>18 DEF SendPair, ConsumePairing, PutNewAccount, AddWorkspaceAccount, Paired,
     PairedInVain, PairStops, AtSync, AtOp, cloud, records, data, keys, links, handlers,
     terminal
<1>19. ASSUME NEW k \in Syncs, SyncAnswered(k) \/ SyncRefused(k) \/ SyncTimesOut(k)
      PROVE  Dormant'
  BY <1>16, <1>19 DEF SyncAnswered, SyncRefused, SyncTimesOut, AtSync, AtOp, cloud, records,
     data, keys, links, handlers, terminal
<1>20. ASSUME NEW o \in Ops, RevokeAccount(o) \/ CreateShare(o) \/ SharesRevoked(o) \/
              ListShares(o) \/ DeleteShares(o) \/ RemoveWorkspaceAccount(o) \/
              DeleteProfile(o) \/ DeleteEquity(o) \/ DeleteAccount(o) \/ OpStops(o)
      PROVE  Dormant'
  BY <1>16, <1>20 DEF RevokeAccount, CreateShare, SharesRevoked, ListShares, DeleteShares,
     RemoveWorkspaceAccount, DeleteProfile, DeleteEquity, DeleteAccount, OpStops, AtSync,
     AtOp, cloud, records, data, keys, links, handlers, terminal
<1>21. ASSUME NEW o \in Ops, NEW s \in Ops, RevokeShare(o, s)
      PROVE  Dormant'
  BY <1>16, <1>21 DEF RevokeShare, AtSync, AtOp, cloud, records, data, keys, links,
     handlers, terminal
<1>22. ASSUME UNCHANGED vars PROVE Dormant'
  BY <1>16, <1>22 DEF vars, cloud, records, data, keys, links, handlers, terminal
<1> QED
  BY <1>1, <1>2, <1>3, <1>4, <1>5, <1>6, <1>7, <1>8, <1>9, <1>10, <1>11, <1>12, <1>13,
     <1>14, <1>15, <1>16, <1>17, <1>18, <1>19, <1>20, <1>21, <1>22
     DEF Next, Pairing, Ingest, Terminal, Owner, Purge

\* A revocation: late snapshots stop at the connector, pairing is over.
LEMMA RevokingStep ==
    ASSUME SyncTyped, OpTyped, RestTyped, Known, Alone, Dormant, Revoking, [Next]_vars
    PROVE  Revoking'
<1>1. ASSUME NEW r \in Requests, PutNewAccount(r) PROVE Revoking'
  BY <1>1 DEF PutNewAccount, Revoking, RestTyped, Known, Alone, Dormant, Deep, Running,
     Over, cloud, records, data, keys, links, handlers, terminal
<1>2. ASSUME NEW r \in Requests, PutNewConnector(r) PROVE Revoking'
  BY <1>2 DEF PutNewConnector, Revoking, RestTyped, Known, Alone, Dormant, Deep, Running,
     Over, cloud, records, data, keys, links, handlers, terminal
<1>3. ASSUME NEW k \in Syncs, PutAccount(k) PROVE Revoking'
  BY <1>3, PutAccountDoes DEF SyncAt, Revoking, RestTyped, Known, Alone, Dormant, Deep,
     Running, Over
<1>4. ASSUME NEW k \in Syncs, PutConnector(k) PROVE Revoking'
  BY <1>4, PutConnectorDoes DEF SyncAt, Revoking, RestTyped, Known, Alone, Dormant, Deep,
     Running, Over
<1>5. ASSUME NEW k \in Syncs, Redeliver(k) PROVE Revoking'
  BY <1>5, RedeliverDoes DEF SyncAt, Revoking, RestTyped, Known, Alone, Dormant, Deep,
     Running, Over
<1>6. ASSUME NEW k \in Syncs, SendSync(k) PROVE Revoking'
  BY <1>6, SendSyncDoes DEF SyncAt, Revoking, RestTyped, Known, Alone, Dormant, Deep,
     Running, Over
<1>7. ASSUME NEW o \in Ops, NEW kind \in Kinds, NEW r \in Requests, StartOp(o, kind, r)
      PROVE  Revoking'
  BY <1>7, StartOpDoes DEF OpAt, Hand, Revoking, RestTyped, Known, Alone, Dormant, Deep,
     Running, Over
<1>8. ASSUME NEW o \in Ops, RevokeAccount(o) PROVE Revoking'
  BY <1>8, RevokeAccountDoes DEF OpAt, Hand, Revoking, RestTyped, Known, Alone, Dormant,
     Deep, Running, Over
<1>9. ASSUME NEW o \in Ops, RevokeConnector(o) PROVE Revoking'
  BY <1>9, RevokeConnectorDoes DEF OpAt, Hand, Revoking, RestTyped, Known, Alone, Dormant,
     Deep, Running, Over
<1>10. ASSUME NEW o \in Ops, CreateShare(o) PROVE Revoking'
  BY <1>10, CreateShareDoes DEF OpAt, Hand, Revoking, RestTyped, Known, Alone, Dormant,
     Deep, Running, Over
<1>11. ASSUME NEW o \in Ops, NEW s \in Ops, RevokeShare(o, s) PROVE Revoking'
  <2>1. /\ op[o].pc = "read" /\ op[o].kind = "unshare"
        /\ OpAt(o, "read") /\ Hand(o, op[o].hand \ {s})
        /\ UNCHANGED <<acc, con, pair, member, cred, sync, wait, late, raced, prof, equity, nonce, idem>>
    BY <1>11, RevokeShareDoes
  <2> QED
    BY <2>1 DEF OpAt, Hand, Revoking, Over
<1>12. ASSUME NEW o \in Ops, SharesRevoked(o) PROVE Revoking'
  BY <1>12, SharesRevokedDoes DEF OpAt, Hand, Revoking, RestTyped, Known, Alone, Dormant,
     Deep, Running, Over
<1>13. ASSUME NEW o \in Ops, ListShares(o) PROVE Revoking'
  BY <1>13, ListSharesDoes DEF OpAt, Hand, Revoking, RestTyped, Known, Alone, Dormant, Deep,
     Running, Over
<1>14. ASSUME NEW o \in Ops, DeleteShares(o) PROVE Revoking'
  BY <1>14, DeleteSharesDoes DEF OpAt, Hand, Revoking, RestTyped, Known, Alone, Dormant,
     Deep, Running, Over
<1>15. ASSUME NEW o \in Ops, RemoveWorkspaceAccount(o) PROVE Revoking'
  BY <1>15, RemoveWorkspaceAccountDoes DEF OpAt, Hand, Revoking, RestTyped, Known, Alone,
     Dormant, Deep, Running, Over
<1>16. ASSUME NEW o \in Ops, DeleteProfile(o) PROVE Revoking'
  BY <1>16, DeleteProfileDoes DEF OpAt, Hand, Revoking, RestTyped, Known, Alone, Dormant,
     Deep, Running, Over
<1>17. ASSUME NEW o \in Ops, DeleteEquity(o) PROVE Revoking'
  BY <1>17, DeleteEquityDoes DEF OpAt, Hand, Revoking, RestTyped, Known, Alone, Dormant,
     Deep, Running, Over
<1>18. ASSUME NEW o \in Ops, DeleteConnector(o) PROVE Revoking'
  BY <1>18, DeleteConnectorDoes DEF OpAt, Hand, Revoking, RestTyped, Known, Alone, Dormant,
     Deep, Running, Over
<1>19. ASSUME NEW o \in Ops, DeleteAccount(o) PROVE Revoking'
  BY <1>19, DeleteAccountDoes DEF OpAt, Hand, Revoking, RestTyped, Known, Alone, Dormant,
     Deep, Running, Over
<1>20. ASSUME NEW o \in Ops, OpStops(o) PROVE Revoking'
  BY <1>20, OpStopsDoes DEF OpAt, Hand, Revoking, RestTyped, Known, Alone, Dormant, Deep,
     Running, Over
<1>21. ASSUME UNCHANGED <<acc, con, op, raced>> PROVE Revoking'
  BY <1>21 DEF Revoking, Deep, Running, Over
<1>22. ASSUME CreatePairing \/ PairingExpires \/ Reattach
      PROVE  Revoking'
  BY <1>21, <1>22 DEF CreatePairing, PairingExpires, Reattach, AtSync, AtOp, cloud, records,
     data, keys, links, handlers, terminal
<1>23. ASSUME NEW r \in Requests, SendPair(r) \/ ConsumePairing(r) \/ AddWorkspaceAccount(r)
              \/ Paired(r) \/ PairedInVain(r) \/ PairStops(r)
      PROVE  Revoking'
  BY <1>21, <1>23 DEF SendPair, ConsumePairing, AddWorkspaceAccount, Paired, PairedInVain,
     PairStops, AtSync, AtOp, cloud, records, data, keys, links, handlers, terminal
<1>24. ASSUME NEW k \in Syncs, CheckConnector(k) \/ ReserveNonce(k) \/ CheckAccount(k) \/
              AppendEquityPoints(k) \/ PutProfile(k) \/ SetIdempotency(k) \/ SyncStops(k) \/
              SyncAnswered(k) \/ SyncRefused(k) \/ SyncTimesOut(k)
      PROVE  Revoking'
  BY <1>21, <1>24 DEF CheckConnector, ReserveNonce, CheckAccount, AppendEquityPoints,
     PutProfile, SetIdempotency, SyncStops, SyncAnswered, SyncRefused, SyncTimesOut, AtSync,
     AtOp, cloud, records, data, keys, links, handlers, terminal
<1>25. ASSUME UNCHANGED vars PROVE Revoking'
  BY <1>21, <1>25 DEF vars, cloud, records, data, keys, links, handlers, terminal
<1> QED
  BY <1>1, <1>2, <1>3, <1>4, <1>5, <1>6, <1>7, <1>8, <1>9, <1>10, <1>11, <1>12, <1>13,
     <1>14, <1>15, <1>16, <1>17, <1>18, <1>19, <1>20, <1>21, <1>22, <1>23, <1>24, <1>25
     DEF Next, Pairing, Ingest, Terminal, Owner, Purge

\* A share appears only through its own operation.
LEMMA SharesStep ==
    ASSUME SyncTyped, OpTyped, RestTyped, Known, Alone, Unlinked, Shares, [Next]_vars
    PROVE  Shares'
<1>1. ASSUME NEW k \in Syncs, Redeliver(k) PROVE Shares'
  BY <1>1, RedeliverDoes DEF SyncAt, Shares, Over
<1>2. ASSUME NEW k \in Syncs, SendSync(k) PROVE Shares'
  BY <1>2, SendSyncDoes DEF SyncAt, Shares, Over
<1>3. ASSUME NEW o \in Ops, NEW kind \in Kinds, NEW r \in Requests, StartOp(o, kind, r)
      PROVE  Shares'
  BY <1>3, StartOpDoes DEF OpAt, Hand, Shares, Over
<1>4. ASSUME NEW o \in Ops, RevokeAccount(o) PROVE Shares'
  BY <1>4, RevokeAccountDoes DEF OpAt, Hand, Shares, Over
<1>5. ASSUME NEW o \in Ops, RevokeConnector(o) PROVE Shares'
  BY <1>5, RevokeConnectorDoes DEF OpAt, Hand, Shares, Over
<1>6. ASSUME NEW o \in Ops, CreateShare(o) PROVE Shares'
  <2>1. /\ op[o].pc = "read" /\ OpAt(o, "done") /\ Hand(o, {}) /\ raced' = raced
        /\ share' = [share EXCEPT ![o] = "live"] /\ listed' = listed \cup {o}
    BY <1>6, CreateShareDoes
  <2>2. \A p \in Ops : share'[p] = IF p = o THEN "live" ELSE share[p]
    BY <2>1 DEF RestTyped
  <2> QED
    BY <2>1, <2>2 DEF OpAt, Hand, Shares
<1>7. ASSUME NEW o \in Ops, NEW s \in Ops, RevokeShare(o, s) PROVE Shares'
  <2>1. /\ op[o].pc = "read" /\ op[o].kind = "unshare" /\ s \in op[o].hand
        /\ OpAt(o, "read") /\ Hand(o, op[o].hand \ {s}) /\ raced' = raced
        /\ share' = [share EXCEPT ![s] = "revoked"] /\ listed' = listed \cup {s}
    BY <1>7, RevokeShareDoes
  <2>2. \A p \in Ops : share'[p] = IF p = s THEN "revoked" ELSE share[p]
    BY <2>1 DEF RestTyped
  <2> QED
    BY <2>1, <2>2 DEF OpAt, Hand, Shares
<1>8. ASSUME NEW o \in Ops, SharesRevoked(o) PROVE Shares'
  BY <1>8, SharesRevokedDoes DEF OpAt, Hand, Shares, Over
<1>9. ASSUME NEW o \in Ops, ListShares(o) PROVE Shares'
  <2>1. /\ op[o].pc = "read" /\ OpAt(o, "listing") /\ UNCHANGED <<share, listed, raced>>
    BY <1>9, ListSharesDoes
  <2>2. /\ \A s \in op'[o].hand : s \in listed /\ op[s].of = op[o].of
        /\ \A p \in Ops : p # o => op'[p].hand = op[p].hand
    BY <1>9, ListSharesDoes DEF Hand
  <2> QED
    BY <2>1, <2>2 DEF OpAt, Shares
<1>10. ASSUME NEW o \in Ops, DeleteShares(o) PROVE Shares'
  <2>1. /\ op[o].pc = "listing" /\ op[o].kind = "purge"
        /\ OpAt(o, "unlinked") /\ Hand(o, {}) /\ raced' = raced
        /\ \A s \in Ops : share'[s] = IF s \in op[o].hand THEN "none" ELSE share[s]
    BY <1>10, DeleteSharesDoes
  <2>2. \A s \in Ops : s \in listed' <=> s \in listed /\ op[s].of # op[o].of
    BY <1>10, DeleteSharesDoes
  <2>3. op[o].of \notin raced => \A s \in listed : op[s].of = op[o].of => s \in op[o].hand
    BY <2>1 DEF Unlinked, Purged
  <2> QED
    BY <2>1, <2>2, <2>3 DEF OpAt, Hand, Shares
<1>11. ASSUME NEW o \in Ops, RemoveWorkspaceAccount(o) PROVE Shares'
  BY <1>11, RemoveWorkspaceAccountDoes DEF OpAt, Hand, Shares, Over
<1>12. ASSUME NEW o \in Ops, DeleteProfile(o) PROVE Shares'
  BY <1>12, DeleteProfileDoes DEF OpAt, Hand, Shares, Over
<1>13. ASSUME NEW o \in Ops, DeleteEquity(o) PROVE Shares'
  BY <1>13, DeleteEquityDoes DEF OpAt, Hand, Shares, Over
<1>14. ASSUME NEW o \in Ops, DeleteConnector(o) PROVE Shares'
  BY <1>14, DeleteConnectorDoes DEF OpAt, Hand, Shares, Over
<1>15. ASSUME NEW o \in Ops, DeleteAccount(o) PROVE Shares'
  BY <1>15, DeleteAccountDoes DEF OpAt, Hand, Shares, Over
<1>16. ASSUME NEW o \in Ops, OpStops(o) PROVE Shares'
  BY <1>16, OpStopsDoes DEF OpAt, Hand, Shares, Over
<1>17. ASSUME UNCHANGED <<share, listed, op, raced>> PROVE Shares'
  BY <1>17 DEF Shares, Over
<1>18. ASSUME CreatePairing \/ PairingExpires \/ Reattach
      PROVE  Shares'
  BY <1>17, <1>18 DEF CreatePairing, PairingExpires, Reattach, AtSync, AtOp, cloud, records,
     data, keys, links, handlers, terminal
<1>19. ASSUME NEW r \in Requests, SendPair(r) \/ ConsumePairing(r) \/ PutNewAccount(r) \/
              PutNewConnector(r) \/ AddWorkspaceAccount(r) \/ Paired(r) \/ PairedInVain(r)
              \/ PairStops(r)
      PROVE  Shares'
  BY <1>17, <1>19 DEF SendPair, ConsumePairing, PutNewAccount, PutNewConnector,
     AddWorkspaceAccount, Paired, PairedInVain, PairStops, AtSync, AtOp, cloud, records,
     data, keys, links, handlers, terminal
<1>20. ASSUME NEW k \in Syncs, CheckConnector(k) \/ ReserveNonce(k) \/ CheckAccount(k) \/
              AppendEquityPoints(k) \/ PutAccount(k) \/ PutConnector(k) \/ PutProfile(k) \/
              SetIdempotency(k) \/ SyncStops(k) \/ SyncAnswered(k) \/ SyncRefused(k) \/
              SyncTimesOut(k)
      PROVE  Shares'
  BY <1>17, <1>20 DEF CheckConnector, ReserveNonce, CheckAccount, AppendEquityPoints,
     PutAccount, PutConnector, PutProfile, SetIdempotency, SyncStops, SyncAnswered,
     SyncRefused, SyncTimesOut, AtSync, AtOp, cloud, records, data, keys, links, handlers,
     terminal
<1>21. ASSUME UNCHANGED vars PROVE Shares'
  BY <1>17, <1>21 DEF vars, cloud, records, data, keys, links, handlers, terminal
<1> QED
  BY <1>1, <1>2, <1>3, <1>4, <1>5, <1>6, <1>7, <1>8, <1>9, <1>10, <1>11, <1>12, <1>13,
     <1>14, <1>15, <1>16, <1>17, <1>18, <1>19, <1>20, <1>21
     DEF Next, Pairing, Ingest, Terminal, Owner, Purge

\* A purge has listed every share before it deletes them, and nobody adds one.
LEMMA UnlinkedStep ==
    ASSUME SyncTyped, OpTyped, RestTyped, Known, Alone, Shares, Unlinked, Unlisted, [Next]_vars
    PROVE  Unlinked'
<1>1. ASSUME NEW k \in Syncs, Redeliver(k) PROVE Unlinked'
  BY <1>1, RedeliverDoes DEF SyncAt, Unlinked, RestTyped, Known, Alone, Shares, Unlisted,
     Purged, One, Two, Three, Four, Five, Running, Over, Deep
<1>2. ASSUME NEW k \in Syncs, SendSync(k) PROVE Unlinked'
  BY <1>2, SendSyncDoes DEF SyncAt, Unlinked, RestTyped, Known, Alone, Shares, Unlisted,
     Purged, One, Two, Three, Four, Five, Running, Over, Deep
<1>3. ASSUME NEW o \in Ops, NEW kind \in Kinds, NEW r \in Requests, StartOp(o, kind, r)
      PROVE  Unlinked'
  BY <1>3, StartOpDoes DEF OpAt, Hand, Unlinked, RestTyped, Known, Alone, Shares, Unlisted,
     Purged, One, Two, Three, Four, Five, Running, Over, Deep
<1>4. ASSUME NEW o \in Ops, RevokeAccount(o) PROVE Unlinked'
  BY <1>4, RevokeAccountDoes DEF OpAt, Hand, Unlinked, RestTyped, Known, Alone, Shares,
     Unlisted, Purged, One, Two, Three, Four, Five, Running, Over, Deep
<1>5. ASSUME NEW o \in Ops, RevokeConnector(o) PROVE Unlinked'
  BY <1>5, RevokeConnectorDoes DEF OpAt, Hand, Unlinked, RestTyped, Known, Alone, Shares,
     Unlisted, Purged, One, Two, Three, Four, Five, Running, Over, Deep
<1>6. ASSUME NEW o \in Ops, CreateShare(o) PROVE Unlinked'
  BY <1>6, CreateShareDoes DEF OpAt, Hand, Unlinked, RestTyped, Known, Alone, Shares,
     Unlisted, Purged, One, Two, Three, Four, Five, Running, Over, Deep
<1>7. ASSUME NEW o \in Ops, NEW s \in Ops, RevokeShare(o, s) PROVE Unlinked'
  <2>1. /\ op[o].pc = "read" /\ op[o].kind = "unshare" /\ s \in op[o].hand
        /\ OpAt(o, "read") /\ raced' = raced /\ listed' = listed \cup {s}
    BY <1>7, RevokeShareDoes
  <2>2. op[s].of = op[o].of /\ \A p \in Ops : p # s => share'[p] = share[p]
    <3>1. share' = [share EXCEPT ![s] = "revoked"]
      BY <1>7, RevokeShareDoes
    <3> QED
      BY <2>1, <3>1 DEF Shares, RestTyped
  <2>3. \A p \in Ops : Purged(p) /\ op[p].of = op[o].of => op[p].pc \notin One \cup {"listing"}
    BY <2>1 DEF Alone, Unlisted, Over, Purged, One, Two, Three, Four, Five
  <2>4. \A p \in Ops : p # o => op'[p].hand = op[p].hand
    BY <1>7, RevokeShareDoes DEF Hand
  <2>5. \A p \in Ops : /\ op'[p].pc = op[p].pc /\ op'[p].of = op[p].of
                       /\ (Purged(p))' <=> Purged(p)
    BY <2>1 DEF OpAt, Purged
  <2> SUFFICES ASSUME NEW p \in Ops, (Purged(p))'
               PROVE  /\ op[p].pc = "listing" =>
                             \A q \in listed' : op[q].of = op[p].of => q \in op'[p].hand
                      /\ op[p].pc \in One =>
                             \A q \in Ops : op[q].of = op[p].of => share'[q] = "none" /\ q \notin listed'
    BY <2>1, <2>5 DEF Unlinked, OpAt, RestTyped
  <2> QED
    BY <2>1, <2>2, <2>3, <2>4, <2>5 DEF Unlinked, One, Two, Three, Four, Five
<1>8. ASSUME NEW o \in Ops, SharesRevoked(o) PROVE Unlinked'
  BY <1>8, SharesRevokedDoes DEF OpAt, Hand, Unlinked, RestTyped, Known, Alone, Shares,
     Unlisted, Purged, One, Two, Three, Four, Five, Running, Over, Deep
<1>9. ASSUME NEW o \in Ops, ListShares(o) PROVE Unlinked'
  <2>1. /\ OpAt(o, "listing") /\ UNCHANGED <<share, listed, raced>>
        /\ op[o].pc = "read"
    BY <1>9, ListSharesDoes
  <2>2. /\ \A s \in listed : op[s].of = op[o].of => s \in op'[o].hand
        /\ \A p \in Ops : p # o => op'[p].hand = op[p].hand
    BY <1>9, ListSharesDoes DEF Hand
  <2>3. listed \subseteq Ops
    BY DEF RestTyped
  <2> QED
    BY <2>1, <2>2, <2>3 DEF OpAt, Unlinked, Purged, One, Two, Three, Four, Five
<1>10. ASSUME NEW o \in Ops, DeleteShares(o) PROVE Unlinked'
  BY <1>10, DeleteSharesDoes DEF OpAt, Hand, Unlinked, RestTyped, Known, Alone, Shares,
     Unlisted, Purged, One, Two, Three, Four, Five, Running, Over, Deep
<1>11. ASSUME NEW o \in Ops, RemoveWorkspaceAccount(o) PROVE Unlinked'
  BY <1>11, RemoveWorkspaceAccountDoes DEF OpAt, Hand, Unlinked, RestTyped, Known, Alone,
     Shares, Unlisted, Purged, One, Two, Three, Four, Five, Running, Over, Deep
<1>12. ASSUME NEW o \in Ops, DeleteProfile(o) PROVE Unlinked'
  BY <1>12, DeleteProfileDoes DEF OpAt, Hand, Unlinked, RestTyped, Known, Alone, Shares,
     Unlisted, Purged, One, Two, Three, Four, Five, Running, Over, Deep
<1>13. ASSUME NEW o \in Ops, DeleteEquity(o) PROVE Unlinked'
  BY <1>13, DeleteEquityDoes DEF OpAt, Hand, Unlinked, RestTyped, Known, Alone, Shares,
     Unlisted, Purged, One, Two, Three, Four, Five, Running, Over, Deep
<1>14. ASSUME NEW o \in Ops, DeleteConnector(o) PROVE Unlinked'
  BY <1>14, DeleteConnectorDoes DEF OpAt, Hand, Unlinked, RestTyped, Known, Alone, Shares,
     Unlisted, Purged, One, Two, Three, Four, Five, Running, Over, Deep
<1>15. ASSUME NEW o \in Ops, DeleteAccount(o) PROVE Unlinked'
  BY <1>15, DeleteAccountDoes DEF OpAt, Hand, Unlinked, RestTyped, Known, Alone, Shares,
     Unlisted, Purged, One, Two, Three, Four, Five, Running, Over, Deep
<1>16. ASSUME NEW o \in Ops, OpStops(o) PROVE Unlinked'
  BY <1>16, OpStopsDoes DEF OpAt, Hand, Unlinked, RestTyped, Known, Alone, Shares, Unlisted,
     Purged, One, Two, Three, Four, Five, Running, Over, Deep
<1>17. ASSUME UNCHANGED <<share, listed, op, raced>> PROVE Unlinked'
  BY <1>17 DEF Unlinked, Purged, One, Two, Three, Four, Five, Running, Over, Deep
<1>18. ASSUME CreatePairing \/ PairingExpires \/ Reattach
      PROVE  Unlinked'
  BY <1>17, <1>18 DEF CreatePairing, PairingExpires, Reattach, AtSync, AtOp, cloud, records,
     data, keys, links, handlers, terminal
<1>19. ASSUME NEW r \in Requests, SendPair(r) \/ ConsumePairing(r) \/ PutNewAccount(r) \/
              PutNewConnector(r) \/ AddWorkspaceAccount(r) \/ Paired(r) \/ PairedInVain(r)
              \/ PairStops(r)
      PROVE  Unlinked'
  BY <1>17, <1>19 DEF SendPair, ConsumePairing, PutNewAccount, PutNewConnector,
     AddWorkspaceAccount, Paired, PairedInVain, PairStops, AtSync, AtOp, cloud, records,
     data, keys, links, handlers, terminal
<1>20. ASSUME NEW k \in Syncs, CheckConnector(k) \/ ReserveNonce(k) \/ CheckAccount(k) \/
              AppendEquityPoints(k) \/ PutAccount(k) \/ PutConnector(k) \/ PutProfile(k) \/
              SetIdempotency(k) \/ SyncStops(k) \/ SyncAnswered(k) \/ SyncRefused(k) \/
              SyncTimesOut(k)
      PROVE  Unlinked'
  BY <1>17, <1>20 DEF CheckConnector, ReserveNonce, CheckAccount, AppendEquityPoints,
     PutAccount, PutConnector, PutProfile, SetIdempotency, SyncStops, SyncAnswered,
     SyncRefused, SyncTimesOut, AtSync, AtOp, cloud, records, data, keys, links, handlers,
     terminal
<1>21. ASSUME UNCHANGED vars PROVE Unlinked'
  BY <1>17, <1>21 DEF vars, cloud, records, data, keys, links, handlers, terminal
<1> QED
  BY <1>1, <1>2, <1>3, <1>4, <1>5, <1>6, <1>7, <1>8, <1>9, <1>10, <1>11, <1>12, <1>13,
     <1>14, <1>15, <1>16, <1>17, <1>18, <1>19, <1>20, <1>21
     DEF Next, Pairing, Ingest, Terminal, Owner, Purge

\* Nothing starts on an account that is no longer listed.
LEMMA UnlistedStep ==
    ASSUME SyncTyped, OpTyped, RestTyped, Known, Alone, Unlisted, [Next]_vars
    PROVE  Unlisted'
<1>1. ASSUME NEW r \in Requests, AddWorkspaceAccount(r) PROVE Unlisted'
  BY <1>1 DEF AddWorkspaceAccount, Unlisted, RestTyped, Known, Alone, Purged, One, Two,
     Three, Four, Five, Running, Over, Deep, cloud, records, data, keys, links, handlers,
     terminal
<1>2. ASSUME NEW k \in Syncs, Redeliver(k) PROVE Unlisted'
  BY <1>2, RedeliverDoes DEF SyncAt, Unlisted, RestTyped, Known, Alone, Purged, One, Two,
     Three, Four, Five, Running, Over, Deep
<1>3. ASSUME NEW k \in Syncs, SendSync(k) PROVE Unlisted'
  BY <1>3, SendSyncDoes DEF SyncAt, Unlisted, RestTyped, Known, Alone, Purged, One, Two,
     Three, Four, Five, Running, Over, Deep
<1>4. ASSUME NEW o \in Ops, NEW kind \in Kinds, NEW r \in Requests, StartOp(o, kind, r)
      PROVE  Unlisted'
  BY <1>4, StartOpDoes DEF OpAt, Hand, Unlisted, RestTyped, Known, Alone, Purged, One, Two,
     Three, Four, Five, Running, Over, Deep
<1>5. ASSUME NEW o \in Ops, RevokeAccount(o) PROVE Unlisted'
  BY <1>5, RevokeAccountDoes DEF OpAt, Hand, Unlisted, RestTyped, Known, Alone, Purged, One,
     Two, Three, Four, Five, Running, Over, Deep
<1>6. ASSUME NEW o \in Ops, RevokeConnector(o) PROVE Unlisted'
  BY <1>6, RevokeConnectorDoes DEF OpAt, Hand, Unlisted, RestTyped, Known, Alone, Purged,
     One, Two, Three, Four, Five, Running, Over, Deep
<1>7. ASSUME NEW o \in Ops, CreateShare(o) PROVE Unlisted'
  BY <1>7, CreateShareDoes DEF OpAt, Hand, Unlisted, RestTyped, Known, Alone, Purged, One,
     Two, Three, Four, Five, Running, Over, Deep
<1>8. ASSUME NEW o \in Ops, NEW s \in Ops, RevokeShare(o, s) PROVE Unlisted'
  <2>1. /\ op[o].pc = "read" /\ op[o].kind = "unshare"
        /\ OpAt(o, "read") /\ Hand(o, op[o].hand \ {s})
        /\ UNCHANGED <<acc, con, pair, member, cred, sync, wait, late, raced, prof, equity, nonce, idem>>
    BY <1>8, RevokeShareDoes
  <2> QED
    BY <2>1 DEF OpAt, Hand, Unlisted, Over, Purged, One, Two, Three, Four, Five
<1>9. ASSUME NEW o \in Ops, SharesRevoked(o) PROVE Unlisted'
  BY <1>9, SharesRevokedDoes DEF OpAt, Hand, Unlisted, RestTyped, Known, Alone, Purged, One,
     Two, Three, Four, Five, Running, Over, Deep
<1>10. ASSUME NEW o \in Ops, ListShares(o) PROVE Unlisted'
  BY <1>10, ListSharesDoes DEF OpAt, Hand, Unlisted, RestTyped, Known, Alone, Purged, One,
     Two, Three, Four, Five, Running, Over, Deep
<1>11. ASSUME NEW o \in Ops, DeleteShares(o) PROVE Unlisted'
  BY <1>11, DeleteSharesDoes DEF OpAt, Hand, Unlisted, RestTyped, Known, Alone, Purged, One,
     Two, Three, Four, Five, Running, Over, Deep
<1>12. ASSUME NEW o \in Ops, RemoveWorkspaceAccount(o) PROVE Unlisted'
  BY <1>12, RemoveWorkspaceAccountDoes DEF OpAt, Hand, Unlisted, RestTyped, Known, Alone,
     Purged, One, Two, Three, Four, Five, Running, Over, Deep
<1>13. ASSUME NEW o \in Ops, DeleteProfile(o) PROVE Unlisted'
  BY <1>13, DeleteProfileDoes DEF OpAt, Hand, Unlisted, RestTyped, Known, Alone, Purged,
     One, Two, Three, Four, Five, Running, Over, Deep
<1>14. ASSUME NEW o \in Ops, DeleteEquity(o) PROVE Unlisted'
  BY <1>14, DeleteEquityDoes DEF OpAt, Hand, Unlisted, RestTyped, Known, Alone, Purged, One,
     Two, Three, Four, Five, Running, Over, Deep
<1>15. ASSUME NEW o \in Ops, DeleteConnector(o) PROVE Unlisted'
  BY <1>15, DeleteConnectorDoes DEF OpAt, Hand, Unlisted, RestTyped, Known, Alone, Purged,
     One, Two, Three, Four, Five, Running, Over, Deep
<1>16. ASSUME NEW o \in Ops, DeleteAccount(o) PROVE Unlisted'
  BY <1>16, DeleteAccountDoes DEF OpAt, Hand, Unlisted, RestTyped, Known, Alone, Purged,
     One, Two, Three, Four, Five, Running, Over, Deep
<1>17. ASSUME NEW o \in Ops, OpStops(o) PROVE Unlisted'
  BY <1>17, OpStopsDoes DEF OpAt, Hand, Unlisted, RestTyped, Known, Alone, Purged, One, Two,
     Three, Four, Five, Running, Over, Deep
<1>18. ASSUME UNCHANGED <<member, op, raced>> PROVE Unlisted'
  BY <1>18 DEF Unlisted, Purged, One, Two, Three, Four, Five, Running, Over, Deep
<1>19. ASSUME CreatePairing \/ PairingExpires \/ Reattach
      PROVE  Unlisted'
  BY <1>18, <1>19 DEF CreatePairing, PairingExpires, Reattach, AtSync, AtOp, cloud, records,
     data, keys, links, handlers, terminal
<1>20. ASSUME NEW r \in Requests, SendPair(r) \/ ConsumePairing(r) \/ PutNewAccount(r) \/
              PutNewConnector(r) \/ Paired(r) \/ PairedInVain(r) \/ PairStops(r)
      PROVE  Unlisted'
  BY <1>18, <1>20 DEF SendPair, ConsumePairing, PutNewAccount, PutNewConnector, Paired,
     PairedInVain, PairStops, AtSync, AtOp, cloud, records, data, keys, links, handlers,
     terminal
<1>21. ASSUME NEW k \in Syncs, CheckConnector(k) \/ ReserveNonce(k) \/ CheckAccount(k) \/
              AppendEquityPoints(k) \/ PutAccount(k) \/ PutConnector(k) \/ PutProfile(k) \/
              SetIdempotency(k) \/ SyncStops(k) \/ SyncAnswered(k) \/ SyncRefused(k) \/
              SyncTimesOut(k)
      PROVE  Unlisted'
  BY <1>18, <1>21 DEF CheckConnector, ReserveNonce, CheckAccount, AppendEquityPoints,
     PutAccount, PutConnector, PutProfile, SetIdempotency, SyncStops, SyncAnswered,
     SyncRefused, SyncTimesOut, AtSync, AtOp, cloud, records, data, keys, links, handlers,
     terminal
<1>22. ASSUME UNCHANGED vars PROVE Unlisted'
  BY <1>18, <1>22 DEF vars, cloud, records, data, keys, links, handlers, terminal
<1> QED
  BY <1>1, <1>2, <1>3, <1>4, <1>5, <1>6, <1>7, <1>8, <1>9, <1>10, <1>11, <1>12, <1>13,
     <1>14, <1>15, <1>16, <1>17, <1>18, <1>19, <1>20, <1>21, <1>22
     DEF Next, Pairing, Ingest, Terminal, Owner, Purge

\* Without its connector an account is not written again.
LEMMA UnconnectedStep ==
    ASSUME SyncTyped, OpTyped, RestTyped, Known, Alone, Dormant, Unlisted, Unconnected, [Next]_vars
    PROVE  Unconnected'
<1>1. ASSUME NEW r \in Requests, PutNewAccount(r) PROVE Unconnected'
  BY <1>1 DEF PutNewAccount, Unconnected, RestTyped, Known, Alone, Dormant, Unlisted,
     Purged, One, Two, Three, Four, Five, Running, Over, Deep, cloud, records, data, keys,
     links, handlers, terminal
<1>2. ASSUME NEW r \in Requests, PutNewConnector(r) PROVE Unconnected'
  BY <1>2 DEF PutNewConnector, Unconnected, RestTyped, Known, Alone, Dormant, Unlisted,
     Purged, One, Two, Three, Four, Five, Running, Over, Deep, cloud, records, data, keys,
     links, handlers, terminal
<1>3. ASSUME NEW k \in Syncs, PutAccount(k) PROVE Unconnected'
  BY <1>3, PutAccountDoes DEF SyncAt, Unconnected, RestTyped, Known, Alone, Dormant,
     Unlisted, Purged, One, Two, Three, Four, Five, Running, Over, Deep
<1>4. ASSUME NEW k \in Syncs, PutConnector(k) PROVE Unconnected'
  BY <1>4, PutConnectorDoes DEF SyncAt, Unconnected, RestTyped, Known, Alone, Dormant,
     Unlisted, Purged, One, Two, Three, Four, Five, Running, Over, Deep
<1>5. ASSUME NEW k \in Syncs, Redeliver(k) PROVE Unconnected'
  BY <1>5, RedeliverDoes DEF SyncAt, Unconnected, RestTyped, Known, Alone, Dormant,
     Unlisted, Purged, One, Two, Three, Four, Five, Running, Over, Deep
<1>6. ASSUME NEW k \in Syncs, SendSync(k) PROVE Unconnected'
  BY <1>6, SendSyncDoes DEF SyncAt, Unconnected, RestTyped, Known, Alone, Dormant, Unlisted,
     Purged, One, Two, Three, Four, Five, Running, Over, Deep
<1>7. ASSUME NEW o \in Ops, NEW kind \in Kinds, NEW r \in Requests, StartOp(o, kind, r)
      PROVE  Unconnected'
  BY <1>7, StartOpDoes DEF OpAt, Hand, Unconnected, RestTyped, Known, Alone, Dormant,
     Unlisted, Purged, One, Two, Three, Four, Five, Running, Over, Deep
<1>8. ASSUME NEW o \in Ops, RevokeAccount(o) PROVE Unconnected'
  BY <1>8, RevokeAccountDoes DEF OpAt, Hand, Unconnected, RestTyped, Known, Alone, Dormant,
     Unlisted, Purged, One, Two, Three, Four, Five, Running, Over, Deep
<1>9. ASSUME NEW o \in Ops, RevokeConnector(o) PROVE Unconnected'
  BY <1>9, RevokeConnectorDoes DEF OpAt, Hand, Unconnected, RestTyped, Known, Alone,
     Dormant, Unlisted, Purged, One, Two, Three, Four, Five, Running, Over, Deep
<1>10. ASSUME NEW o \in Ops, CreateShare(o) PROVE Unconnected'
  BY <1>10, CreateShareDoes DEF OpAt, Hand, Unconnected, RestTyped, Known, Alone, Dormant,
     Unlisted, Purged, One, Two, Three, Four, Five, Running, Over, Deep
<1>11. ASSUME NEW o \in Ops, NEW s \in Ops, RevokeShare(o, s) PROVE Unconnected'
  <2>1. /\ op[o].pc = "read" /\ op[o].kind = "unshare"
        /\ OpAt(o, "read") /\ Hand(o, op[o].hand \ {s})
        /\ UNCHANGED <<acc, con, pair, member, cred, sync, wait, late, raced, prof, equity, nonce, idem>>
    BY <1>11, RevokeShareDoes
  <2> QED
    BY <2>1 DEF OpAt, Hand, Unconnected, Purged, One, Two, Three, Four, Five
<1>12. ASSUME NEW o \in Ops, SharesRevoked(o) PROVE Unconnected'
  BY <1>12, SharesRevokedDoes DEF OpAt, Hand, Unconnected, RestTyped, Known, Alone, Dormant,
     Unlisted, Purged, One, Two, Three, Four, Five, Running, Over, Deep
<1>13. ASSUME NEW o \in Ops, ListShares(o) PROVE Unconnected'
  BY <1>13, ListSharesDoes DEF OpAt, Hand, Unconnected, RestTyped, Known, Alone, Dormant,
     Unlisted, Purged, One, Two, Three, Four, Five, Running, Over, Deep
<1>14. ASSUME NEW o \in Ops, DeleteShares(o) PROVE Unconnected'
  BY <1>14, DeleteSharesDoes DEF OpAt, Hand, Unconnected, RestTyped, Known, Alone, Dormant,
     Unlisted, Purged, One, Two, Three, Four, Five, Running, Over, Deep
<1>15. ASSUME NEW o \in Ops, RemoveWorkspaceAccount(o) PROVE Unconnected'
  BY <1>15, RemoveWorkspaceAccountDoes DEF OpAt, Hand, Unconnected, RestTyped, Known, Alone,
     Dormant, Unlisted, Purged, One, Two, Three, Four, Five, Running, Over, Deep
<1>16. ASSUME NEW o \in Ops, DeleteProfile(o) PROVE Unconnected'
  BY <1>16, DeleteProfileDoes DEF OpAt, Hand, Unconnected, RestTyped, Known, Alone, Dormant,
     Unlisted, Purged, One, Two, Three, Four, Five, Running, Over, Deep
<1>17. ASSUME NEW o \in Ops, DeleteEquity(o) PROVE Unconnected'
  BY <1>17, DeleteEquityDoes DEF OpAt, Hand, Unconnected, RestTyped, Known, Alone, Dormant,
     Unlisted, Purged, One, Two, Three, Four, Five, Running, Over, Deep
<1>18. ASSUME NEW o \in Ops, DeleteConnector(o) PROVE Unconnected'
  BY <1>18, DeleteConnectorDoes DEF OpAt, Hand, Unconnected, RestTyped, Known, Alone,
     Dormant, Unlisted, Purged, One, Two, Three, Four, Five, Running, Over, Deep
<1>19. ASSUME NEW o \in Ops, DeleteAccount(o) PROVE Unconnected'
  BY <1>19, DeleteAccountDoes DEF OpAt, Hand, Unconnected, RestTyped, Known, Alone, Dormant,
     Unlisted, Purged, One, Two, Three, Four, Five, Running, Over, Deep
<1>20. ASSUME NEW o \in Ops, OpStops(o) PROVE Unconnected'
  BY <1>20, OpStopsDoes DEF OpAt, Hand, Unconnected, RestTyped, Known, Alone, Dormant,
     Unlisted, Purged, One, Two, Three, Four, Five, Running, Over, Deep
<1>21. ASSUME UNCHANGED <<acc, con, op, raced>> PROVE Unconnected'
  BY <1>21 DEF Unconnected, Purged, One, Two, Three, Four, Five, Running, Over, Deep
<1>22. ASSUME CreatePairing \/ PairingExpires \/ Reattach
      PROVE  Unconnected'
  BY <1>21, <1>22 DEF CreatePairing, PairingExpires, Reattach, AtSync, AtOp, cloud, records,
     data, keys, links, handlers, terminal
<1>23. ASSUME NEW r \in Requests, SendPair(r) \/ ConsumePairing(r) \/ AddWorkspaceAccount(r)
              \/ Paired(r) \/ PairedInVain(r) \/ PairStops(r)
      PROVE  Unconnected'
  BY <1>21, <1>23 DEF SendPair, ConsumePairing, AddWorkspaceAccount, Paired, PairedInVain,
     PairStops, AtSync, AtOp, cloud, records, data, keys, links, handlers, terminal
<1>24. ASSUME NEW k \in Syncs, CheckConnector(k) \/ ReserveNonce(k) \/ CheckAccount(k) \/
              AppendEquityPoints(k) \/ PutProfile(k) \/ SetIdempotency(k) \/ SyncStops(k) \/
              SyncAnswered(k) \/ SyncRefused(k) \/ SyncTimesOut(k)
      PROVE  Unconnected'
  BY <1>21, <1>24 DEF CheckConnector, ReserveNonce, CheckAccount, AppendEquityPoints,
     PutProfile, SetIdempotency, SyncStops, SyncAnswered, SyncRefused, SyncTimesOut, AtSync,
     AtOp, cloud, records, data, keys, links, handlers, terminal
<1>25. ASSUME UNCHANGED vars PROVE Unconnected'
  BY <1>21, <1>25 DEF vars, cloud, records, data, keys, links, handlers, terminal
<1> QED
  BY <1>1, <1>2, <1>3, <1>4, <1>5, <1>6, <1>7, <1>8, <1>9, <1>10, <1>11, <1>12, <1>13,
     <1>14, <1>15, <1>16, <1>17, <1>18, <1>19, <1>20, <1>21, <1>22, <1>23, <1>24, <1>25
     DEF Next, Pairing, Ingest, Terminal, Owner, Purge

\* What a purge removed of the measurements stays removed.
LEMMA UnmeasuredStep ==
    ASSUME SyncTyped, OpTyped, RestTyped, Known, Alone, Dormant, Unlisted, Unconnected,
           InOrder, Unmeasured, [Next]_vars
    PROVE  Unmeasured'
<1>1. ASSUME NEW k \in Syncs, CheckConnector(k) PROVE Unmeasured'
  BY <1>1, CheckConnectorDoes DEF SyncAt, Unmeasured, RestTyped, Known, Alone, Dormant,
     Unlisted, Unconnected, InOrder, Purged, One, Two, Three, Four, Five, Running, Over,
     Deep
<1>2. ASSUME NEW k \in Syncs, ReserveNonce(k) PROVE Unmeasured'
  BY <1>2, ReserveNonceDoes DEF SyncAt, Unmeasured, RestTyped, Known, Alone, Dormant,
     Unlisted, Unconnected, InOrder, Purged, One, Two, Three, Four, Five, Running, Over,
     Deep
<1>3. ASSUME NEW k \in Syncs, CheckAccount(k) PROVE Unmeasured'
  BY <1>3, CheckAccountDoes DEF SyncAt, Unmeasured, RestTyped, Known, Alone, Dormant,
     Unlisted, Unconnected, InOrder, Purged, One, Two, Three, Four, Five, Running, Over,
     Deep
<1>4. ASSUME NEW k \in Syncs, AppendEquityPoints(k) PROVE Unmeasured'
  BY <1>4, AppendEquityPointsDoes DEF SyncAt, Unmeasured, RestTyped, Known, Alone, Dormant,
     Unlisted, Unconnected, InOrder, Purged, One, Two, Three, Four, Five, Running, Over,
     Deep
<1>5. ASSUME NEW k \in Syncs, PutAccount(k) PROVE Unmeasured'
  BY <1>5, PutAccountDoes DEF SyncAt, Unmeasured, RestTyped, Known, Alone, Dormant,
     Unlisted, Unconnected, InOrder, Purged, One, Two, Three, Four, Five, Running, Over,
     Deep
<1>6. ASSUME NEW k \in Syncs, PutConnector(k) PROVE Unmeasured'
  BY <1>6, PutConnectorDoes DEF SyncAt, Unmeasured, RestTyped, Known, Alone, Dormant,
     Unlisted, Unconnected, InOrder, Purged, One, Two, Three, Four, Five, Running, Over,
     Deep
<1>7. ASSUME NEW k \in Syncs, PutProfile(k) PROVE Unmeasured'
  BY <1>7, PutProfileDoes DEF SyncAt, Unmeasured, RestTyped, Known, Alone, Dormant,
     Unlisted, Unconnected, InOrder, Purged, One, Two, Three, Four, Five, Running, Over,
     Deep
<1>8. ASSUME NEW k \in Syncs, SetIdempotency(k) PROVE Unmeasured'
  BY <1>8, SetIdempotencyDoes DEF SyncAt, Unmeasured, RestTyped, Known, Alone, Dormant,
     Unlisted, Unconnected, InOrder, Purged, One, Two, Three, Four, Five, Running, Over,
     Deep
<1>9. ASSUME NEW k \in Syncs, SyncStops(k) PROVE Unmeasured'
  BY <1>9, SyncStopsDoes DEF SyncAt, Unmeasured, RestTyped, Known, Alone, Dormant, Unlisted,
     Unconnected, InOrder, Purged, One, Two, Three, Four, Five, Running, Over, Deep
<1>10. ASSUME NEW k \in Syncs, Redeliver(k) PROVE Unmeasured'
  BY <1>10, RedeliverDoes DEF SyncAt, Unmeasured, RestTyped, Known, Alone, Dormant,
     Unlisted, Unconnected, InOrder, Purged, One, Two, Three, Four, Five, Running, Over,
     Deep
<1>11. ASSUME NEW k \in Syncs, SendSync(k) PROVE Unmeasured'
  BY <1>11, SendSyncDoes DEF SyncAt, Unmeasured, RestTyped, Known, Alone, Dormant, Unlisted,
     Unconnected, InOrder, Purged, One, Two, Three, Four, Five, Running, Over, Deep
<1>12. ASSUME NEW o \in Ops, NEW kind \in Kinds, NEW r \in Requests, StartOp(o, kind, r)
       PROVE  Unmeasured'
  BY <1>12, StartOpDoes DEF OpAt, Hand, Unmeasured, RestTyped, Known, Alone, Dormant,
     Unlisted, Unconnected, InOrder, Purged, One, Two, Three, Four, Five, Running, Over,
     Deep
<1>13. ASSUME NEW o \in Ops, RevokeAccount(o) PROVE Unmeasured'
  BY <1>13, RevokeAccountDoes DEF OpAt, Hand, Unmeasured, RestTyped, Known, Alone, Dormant,
     Unlisted, Unconnected, InOrder, Purged, One, Two, Three, Four, Five, Running, Over,
     Deep
<1>14. ASSUME NEW o \in Ops, RevokeConnector(o) PROVE Unmeasured'
  BY <1>14, RevokeConnectorDoes DEF OpAt, Hand, Unmeasured, RestTyped, Known, Alone,
     Dormant, Unlisted, Unconnected, InOrder, Purged, One, Two, Three, Four, Five, Running,
     Over, Deep
<1>15. ASSUME NEW o \in Ops, CreateShare(o) PROVE Unmeasured'
  BY <1>15, CreateShareDoes DEF OpAt, Hand, Unmeasured, RestTyped, Known, Alone, Dormant,
     Unlisted, Unconnected, InOrder, Purged, One, Two, Three, Four, Five, Running, Over,
     Deep
<1>16. ASSUME NEW o \in Ops, NEW s \in Ops, RevokeShare(o, s) PROVE Unmeasured'
  <2>1. /\ op[o].pc = "read" /\ op[o].kind = "unshare"
        /\ OpAt(o, "read") /\ Hand(o, op[o].hand \ {s})
        /\ UNCHANGED <<acc, con, pair, member, cred, sync, wait, late, raced, prof, equity, nonce, idem>>
    BY <1>16, RevokeShareDoes
  <2> QED
    BY <2>1 DEF OpAt, Hand, Unmeasured, Purged, One, Two, Three, Four, Five
<1>17. ASSUME NEW o \in Ops, SharesRevoked(o) PROVE Unmeasured'
  BY <1>17, SharesRevokedDoes DEF OpAt, Hand, Unmeasured, RestTyped, Known, Alone, Dormant,
     Unlisted, Unconnected, InOrder, Purged, One, Two, Three, Four, Five, Running, Over,
     Deep
<1>18. ASSUME NEW o \in Ops, ListShares(o) PROVE Unmeasured'
  BY <1>18, ListSharesDoes DEF OpAt, Hand, Unmeasured, RestTyped, Known, Alone, Dormant,
     Unlisted, Unconnected, InOrder, Purged, One, Two, Three, Four, Five, Running, Over,
     Deep
<1>19. ASSUME NEW o \in Ops, DeleteShares(o) PROVE Unmeasured'
  BY <1>19, DeleteSharesDoes DEF OpAt, Hand, Unmeasured, RestTyped, Known, Alone, Dormant,
     Unlisted, Unconnected, InOrder, Purged, One, Two, Three, Four, Five, Running, Over,
     Deep
<1>20. ASSUME NEW o \in Ops, RemoveWorkspaceAccount(o) PROVE Unmeasured'
  BY <1>20, RemoveWorkspaceAccountDoes DEF OpAt, Hand, Unmeasured, RestTyped, Known, Alone,
     Dormant, Unlisted, Unconnected, InOrder, Purged, One, Two, Three, Four, Five, Running,
     Over, Deep
<1>21. ASSUME NEW o \in Ops, DeleteProfile(o) PROVE Unmeasured'
  BY <1>21, DeleteProfileDoes DEF OpAt, Hand, Unmeasured, RestTyped, Known, Alone, Dormant,
     Unlisted, Unconnected, InOrder, Purged, One, Two, Three, Four, Five, Running, Over,
     Deep
<1>22. ASSUME NEW o \in Ops, DeleteEquity(o) PROVE Unmeasured'
  BY <1>22, DeleteEquityDoes DEF OpAt, Hand, Unmeasured, RestTyped, Known, Alone, Dormant,
     Unlisted, Unconnected, InOrder, Purged, One, Two, Three, Four, Five, Running, Over,
     Deep
<1>23. ASSUME NEW o \in Ops, DeleteConnector(o) PROVE Unmeasured'
  BY <1>23, DeleteConnectorDoes DEF OpAt, Hand, Unmeasured, RestTyped, Known, Alone,
     Dormant, Unlisted, Unconnected, InOrder, Purged, One, Two, Three, Four, Five, Running,
     Over, Deep
<1>24. ASSUME NEW o \in Ops, DeleteAccount(o) PROVE Unmeasured'
  BY <1>24, DeleteAccountDoes DEF OpAt, Hand, Unmeasured, RestTyped, Known, Alone, Dormant,
     Unlisted, Unconnected, InOrder, Purged, One, Two, Three, Four, Five, Running, Over,
     Deep
<1>25. ASSUME NEW o \in Ops, OpStops(o) PROVE Unmeasured'
  BY <1>25, OpStopsDoes DEF OpAt, Hand, Unmeasured, RestTyped, Known, Alone, Dormant,
     Unlisted, Unconnected, InOrder, Purged, One, Two, Three, Four, Five, Running, Over,
     Deep
<1>26. ASSUME UNCHANGED <<prof, equity, nonce, idem, sync, op, raced>> PROVE Unmeasured'
  BY <1>26 DEF Unmeasured, Purged, One, Two, Three, Four, Five, Running, Over, Deep
<1>27. ASSUME CreatePairing \/ PairingExpires \/ Reattach
      PROVE  Unmeasured'
  BY <1>26, <1>27 DEF CreatePairing, PairingExpires, Reattach, AtSync, AtOp, cloud, records,
     data, keys, links, handlers, terminal
<1>28. ASSUME NEW r \in Requests, SendPair(r) \/ ConsumePairing(r) \/ PutNewAccount(r) \/
              PutNewConnector(r) \/ AddWorkspaceAccount(r) \/ Paired(r) \/ PairedInVain(r)
              \/ PairStops(r)
      PROVE  Unmeasured'
  BY <1>26, <1>28 DEF SendPair, ConsumePairing, PutNewAccount, PutNewConnector,
     AddWorkspaceAccount, Paired, PairedInVain, PairStops, AtSync, AtOp, cloud, records,
     data, keys, links, handlers, terminal
<1>29. ASSUME NEW k \in Syncs, SyncAnswered(k) \/ SyncRefused(k) \/ SyncTimesOut(k)
      PROVE  Unmeasured'
  BY <1>26, <1>29 DEF SyncAnswered, SyncRefused, SyncTimesOut, AtSync, AtOp, cloud, records,
     data, keys, links, handlers, terminal
<1>30. ASSUME UNCHANGED vars PROVE Unmeasured'
  BY <1>26, <1>30 DEF vars, cloud, records, data, keys, links, handlers, terminal
<1> QED
  BY <1>1, <1>2, <1>3, <1>4, <1>5, <1>6, <1>7, <1>8, <1>9, <1>10, <1>11, <1>12, <1>13,
     <1>14, <1>15, <1>16, <1>17, <1>18, <1>19, <1>20, <1>21, <1>22, <1>23, <1>24, <1>25,
     <1>26, <1>27, <1>28, <1>29, <1>30
     DEF Next, Pairing, Ingest, Terminal, Owner, Purge

\* Snapshots are sent in the order of their numbers.
LEMMA InOrderStep ==
    ASSUME SyncTyped, OpTyped, RestTyped, Known, InOrder, [Next]_vars
    PROVE  InOrder'
<1>1. ASSUME Reattach PROVE InOrder'
  BY <1>1, ServiceAssumption DEF Reattach, Fault, InOrder, RestTyped, Known, Running, Syncs,
     cloud, records, data, keys, links, handlers, terminal
<1>2. ASSUME NEW k \in Syncs, CheckConnector(k) PROVE InOrder'
  <2>1. \A j \in Syncs : sync'[j].pc = "unsent" <=> sync[j].pc = "unsent"
    BY <1>2, CheckConnectorDoes DEF SyncAt, Running
  <2>2. wait' = wait
    BY <1>2, CheckConnectorDoes
  <2>3. \A r \in Requests : prof'[r] # 0 => prof'[r] \in Syncs /\ sync[prof'[r]].pc # "unsent"
    BY <1>2, CheckConnectorDoes, Numbers DEF InOrder, RestTyped
  <2>4. \A j \in nonce' \cup idem' : j \in Syncs /\ sync[j].pc # "unsent"
    BY <1>2, CheckConnectorDoes DEF InOrder, RestTyped
  <2> QED
    BY <2>1, <2>2, <2>3, <2>4, InOrderKept
<1>3. ASSUME NEW k \in Syncs, ReserveNonce(k) PROVE InOrder'
  <2>1. \A j \in Syncs : sync'[j].pc = "unsent" <=> sync[j].pc = "unsent"
    BY <1>3, ReserveNonceDoes DEF SyncAt, Running
  <2>2. wait' = wait
    BY <1>3, ReserveNonceDoes
  <2>3. \A r \in Requests : prof'[r] # 0 => prof'[r] \in Syncs /\ sync[prof'[r]].pc # "unsent"
    BY <1>3, ReserveNonceDoes, Numbers DEF InOrder, RestTyped
  <2>4. \A j \in nonce' \cup idem' : j \in Syncs /\ sync[j].pc # "unsent"
    BY <1>3, ReserveNonceDoes DEF InOrder, RestTyped
  <2> QED
    BY <2>1, <2>2, <2>3, <2>4, InOrderKept
<1>4. ASSUME NEW k \in Syncs, CheckAccount(k) PROVE InOrder'
  <2>1. \A j \in Syncs : sync'[j].pc = "unsent" <=> sync[j].pc = "unsent"
    BY <1>4, CheckAccountDoes DEF SyncAt, Running
  <2>2. wait' = wait
    BY <1>4, CheckAccountDoes
  <2>3. \A r \in Requests : prof'[r] # 0 => prof'[r] \in Syncs /\ sync[prof'[r]].pc # "unsent"
    BY <1>4, CheckAccountDoes, Numbers DEF InOrder, RestTyped
  <2>4. \A j \in nonce' \cup idem' : j \in Syncs /\ sync[j].pc # "unsent"
    BY <1>4, CheckAccountDoes DEF InOrder, RestTyped
  <2> QED
    BY <2>1, <2>2, <2>3, <2>4, InOrderKept
<1>5. ASSUME NEW k \in Syncs, AppendEquityPoints(k) PROVE InOrder'
  <2>1. \A j \in Syncs : sync'[j].pc = "unsent" <=> sync[j].pc = "unsent"
    BY <1>5, AppendEquityPointsDoes DEF SyncAt, Running
  <2>2. wait' = wait
    BY <1>5, AppendEquityPointsDoes
  <2>3. \A r \in Requests : prof'[r] # 0 => prof'[r] \in Syncs /\ sync[prof'[r]].pc # "unsent"
    BY <1>5, AppendEquityPointsDoes, Numbers DEF InOrder, RestTyped
  <2>4. \A j \in nonce' \cup idem' : j \in Syncs /\ sync[j].pc # "unsent"
    BY <1>5, AppendEquityPointsDoes DEF InOrder, RestTyped
  <2> QED
    BY <2>1, <2>2, <2>3, <2>4, InOrderKept
<1>6. ASSUME NEW k \in Syncs, PutAccount(k) PROVE InOrder'
  <2>1. \A j \in Syncs : sync'[j].pc = "unsent" <=> sync[j].pc = "unsent"
    BY <1>6, PutAccountDoes DEF SyncAt, Running
  <2>2. wait' = wait
    BY <1>6, PutAccountDoes
  <2>3. \A r \in Requests : prof'[r] # 0 => prof'[r] \in Syncs /\ sync[prof'[r]].pc # "unsent"
    BY <1>6, PutAccountDoes, Numbers DEF InOrder, RestTyped
  <2>4. \A j \in nonce' \cup idem' : j \in Syncs /\ sync[j].pc # "unsent"
    BY <1>6, PutAccountDoes DEF InOrder, RestTyped
  <2> QED
    BY <2>1, <2>2, <2>3, <2>4, InOrderKept
<1>7. ASSUME NEW k \in Syncs, PutConnector(k) PROVE InOrder'
  <2>1. \A j \in Syncs : sync'[j].pc = "unsent" <=> sync[j].pc = "unsent"
    BY <1>7, PutConnectorDoes DEF SyncAt, Running
  <2>2. wait' = wait
    BY <1>7, PutConnectorDoes
  <2>3. \A r \in Requests : prof'[r] # 0 => prof'[r] \in Syncs /\ sync[prof'[r]].pc # "unsent"
    BY <1>7, PutConnectorDoes, Numbers DEF InOrder, RestTyped
  <2>4. \A j \in nonce' \cup idem' : j \in Syncs /\ sync[j].pc # "unsent"
    BY <1>7, PutConnectorDoes DEF InOrder, RestTyped
  <2> QED
    BY <2>1, <2>2, <2>3, <2>4, InOrderKept
<1>8. ASSUME NEW k \in Syncs, PutProfile(k) PROVE InOrder'
  <2>1. \A j \in Syncs : sync'[j].pc = "unsent" <=> sync[j].pc = "unsent"
    BY <1>8, PutProfileDoes DEF SyncAt, Running
  <2>2. wait' = wait
    BY <1>8, PutProfileDoes
  <2>3. \A r \in Requests : prof'[r] # 0 => prof'[r] \in Syncs /\ sync[prof'[r]].pc # "unsent"
    BY <1>8, PutProfileDoes, Numbers DEF InOrder, RestTyped
  <2>4. \A j \in nonce' \cup idem' : j \in Syncs /\ sync[j].pc # "unsent"
    BY <1>8, PutProfileDoes DEF InOrder, RestTyped
  <2> QED
    BY <2>1, <2>2, <2>3, <2>4, InOrderKept
<1>9. ASSUME NEW k \in Syncs, SetIdempotency(k) PROVE InOrder'
  <2>1. \A j \in Syncs : sync'[j].pc = "unsent" <=> sync[j].pc = "unsent"
    BY <1>9, SetIdempotencyDoes DEF SyncAt, Running
  <2>2. wait' = wait
    BY <1>9, SetIdempotencyDoes
  <2>3. \A r \in Requests : prof'[r] # 0 => prof'[r] \in Syncs /\ sync[prof'[r]].pc # "unsent"
    BY <1>9, SetIdempotencyDoes, Numbers DEF InOrder, RestTyped
  <2>4. \A j \in nonce' \cup idem' : j \in Syncs /\ sync[j].pc # "unsent"
    BY <1>9, SetIdempotencyDoes DEF InOrder, RestTyped
  <2> QED
    BY <2>1, <2>2, <2>3, <2>4, InOrderKept
<1>10. ASSUME NEW k \in Syncs, SyncStops(k) PROVE InOrder'
  <2>1. \A j \in Syncs : sync'[j].pc = "unsent" <=> sync[j].pc = "unsent"
    BY <1>10, SyncStopsDoes DEF SyncAt, Running
  <2>2. wait' = wait
    BY <1>10, SyncStopsDoes
  <2>3. \A r \in Requests : prof'[r] # 0 => prof'[r] \in Syncs /\ sync[prof'[r]].pc # "unsent"
    BY <1>10, SyncStopsDoes, Numbers DEF InOrder, RestTyped
  <2>4. \A j \in nonce' \cup idem' : j \in Syncs /\ sync[j].pc # "unsent"
    BY <1>10, SyncStopsDoes DEF InOrder, RestTyped
  <2> QED
    BY <2>1, <2>2, <2>3, <2>4, InOrderKept
<1>11. ASSUME NEW k \in Syncs, Redeliver(k) PROVE InOrder'
  <2>1. \A j \in Syncs : sync'[j].pc = "unsent" <=> sync[j].pc = "unsent"
    BY <1>11, RedeliverDoes DEF SyncAt, Running
  <2>2. wait' = wait
    BY <1>11, RedeliverDoes
  <2>3. \A r \in Requests : prof'[r] # 0 => prof'[r] \in Syncs /\ sync[prof'[r]].pc # "unsent"
    BY <1>11, RedeliverDoes, Numbers DEF InOrder, RestTyped
  <2>4. \A j \in nonce' \cup idem' : j \in Syncs /\ sync[j].pc # "unsent"
    BY <1>11, RedeliverDoes DEF InOrder, RestTyped
  <2> QED
    BY <2>1, <2>2, <2>3, <2>4, InOrderKept
<1>12. ASSUME NEW k \in Syncs, SendSync(k) PROVE InOrder'
  <2>1. /\ wait' = k /\ sync[k].pc = "unsent" /\ UNCHANGED <<prof, nonce, idem>>
        /\ \A j \in Syncs : j < k => sync[j].pc # "unsent"
        /\ \A j \in Syncs : sync'[j].pc = IF j = k THEN "arrived" ELSE sync[j].pc
    BY <1>12, SendSyncDoes
  <2>2. \A i, j \in Syncs : i < j \/ j < i \/ i = j
    BY ServiceAssumption DEF Syncs
  <2>3. \A r \in Requests : prof[r] # 0 => prof[r] \in Syncs
    BY Numbers DEF RestTyped
  <2>4. \A i, j \in Syncs : i > j <=> j < i
    BY ServiceAssumption DEF Syncs
  <2> QED
    BY <2>1, <2>2, <2>3, <2>4 DEF InOrder, RestTyped
<1>13. ASSUME NEW k \in Syncs, SyncAnswered(k) PROVE InOrder'
  BY <1>13, ServiceAssumption DEF SyncAnswered, InOrder, RestTyped, Known, Running, Syncs,
     cloud, records, data, keys, links, handlers, terminal
<1>14. ASSUME NEW k \in Syncs, SyncRefused(k) PROVE InOrder'
  BY <1>14, ServiceAssumption DEF SyncRefused, Fault, InOrder, RestTyped, Known, Running,
     Syncs, cloud, records, data, keys, links, handlers, terminal
<1>15. ASSUME NEW k \in Syncs, SyncTimesOut(k) PROVE InOrder'
  BY <1>15, ServiceAssumption DEF SyncTimesOut, Fault, InOrder, RestTyped, Known, Running,
     Syncs, cloud, records, data, keys, links, handlers, terminal
<1>16. ASSUME NEW o \in Ops, DeleteProfile(o) PROVE InOrder'
  <2>1. wait' = wait /\ sync' = sync
    BY <1>16, DeleteProfileDoes
  <2>3. \A r \in Requests : prof'[r] # 0 => prof'[r] \in Syncs /\ sync[prof'[r]].pc # "unsent"
    BY <1>16, DeleteProfileDoes, Numbers DEF InOrder, RestTyped
  <2>4. \A j \in nonce' \cup idem' : j \in Syncs /\ sync[j].pc # "unsent"
    BY <1>16, DeleteProfileDoes DEF InOrder, RestTyped
  <2> QED
    BY <2>1, <2>3, <2>4, InOrderKept
<1>17. ASSUME NEW o \in Ops, DeleteEquity(o) PROVE InOrder'
  <2>1. wait' = wait /\ sync' = sync
    BY <1>17, DeleteEquityDoes
  <2>3. \A r \in Requests : prof'[r] # 0 => prof'[r] \in Syncs /\ sync[prof'[r]].pc # "unsent"
    BY <1>17, DeleteEquityDoes, Numbers DEF InOrder, RestTyped
  <2>4. \A j \in nonce' \cup idem' : j \in Syncs /\ sync[j].pc # "unsent"
    BY <1>17, DeleteEquityDoes DEF InOrder, RestTyped
  <2> QED
    BY <2>1, <2>3, <2>4, InOrderKept
<1>18. ASSUME UNCHANGED <<prof, nonce, idem, sync, wait>> PROVE InOrder'
  BY <1>18 DEF InOrder, Running, Syncs
<1>19. ASSUME CreatePairing \/ PairingExpires
      PROVE  InOrder'
  BY <1>18, <1>19 DEF CreatePairing, PairingExpires, AtSync, AtOp, cloud, records, data,
     keys, links, handlers, terminal
<1>20. ASSUME NEW r \in Requests, SendPair(r) \/ ConsumePairing(r) \/ PutNewAccount(r) \/
              PutNewConnector(r) \/ AddWorkspaceAccount(r) \/ Paired(r) \/ PairedInVain(r)
              \/ PairStops(r)
      PROVE  InOrder'
  BY <1>18, <1>20 DEF SendPair, ConsumePairing, PutNewAccount, PutNewConnector,
     AddWorkspaceAccount, Paired, PairedInVain, PairStops, AtSync, AtOp, cloud, records,
     data, keys, links, handlers, terminal
<1>21. ASSUME NEW o \in Ops, NEW kind \in Kinds, NEW r \in Requests, StartOp(o, kind, r)
      PROVE  InOrder'
  BY <1>18, <1>21 DEF StartOp, AtSync, AtOp, cloud, records, data, keys, links, handlers,
     terminal
<1>22. ASSUME NEW o \in Ops, RevokeAccount(o) \/ RevokeConnector(o) \/ CreateShare(o) \/
              SharesRevoked(o) \/ ListShares(o) \/ DeleteShares(o) \/
              RemoveWorkspaceAccount(o) \/ DeleteConnector(o) \/ DeleteAccount(o) \/
              OpStops(o)
      PROVE  InOrder'
  BY <1>18, <1>22 DEF RevokeAccount, RevokeConnector, CreateShare, SharesRevoked,
     ListShares, DeleteShares, RemoveWorkspaceAccount, DeleteConnector, DeleteAccount,
     OpStops, AtSync, AtOp, cloud, records, data, keys, links, handlers, terminal
<1>23. ASSUME NEW o \in Ops, NEW s \in Ops, RevokeShare(o, s)
      PROVE  InOrder'
  BY <1>18, <1>23 DEF RevokeShare, AtSync, AtOp, cloud, records, data, keys, links,
     handlers, terminal
<1>24. ASSUME UNCHANGED vars PROVE InOrder'
  BY <1>18, <1>24 DEF vars, cloud, records, data, keys, links, handlers, terminal
<1> QED
  BY <1>1, <1>2, <1>3, <1>4, <1>5, <1>6, <1>7, <1>8, <1>9, <1>10, <1>11, <1>12, <1>13,
     <1>14, <1>15, <1>16, <1>17, <1>18, <1>19, <1>20, <1>21, <1>22, <1>23, <1>24
     DEF Next, Pairing, Ingest, Terminal, Owner, Purge

\* A snapshot leaves its nonce behind before the terminal hears of it.
LEMMA AnsweredStep ==
    ASSUME SyncTyped, OpTyped, RestTyped, Known, Alone, Dormant, InOrder, Answered, [Next]_vars
    PROVE  Answered'
<1>1. ASSUME Reattach PROVE Answered'
  BY <1>1 DEF Reattach, Fault, Answered, RestTyped, Known, Alone, Dormant, InOrder, Running,
     Over, Deep, Writing, Unpurged, Spent, cloud, records, data, keys, links, handlers,
     terminal
<1>2. ASSUME NEW r \in Requests, PutNewConnector(r) PROVE Answered'
  BY <1>2 DEF PutNewConnector, Answered, RestTyped, Known, Alone, Dormant, InOrder, Running,
     Over, Deep, Writing, Unpurged, Spent, cloud, records, data, keys, links, handlers,
     terminal
<1>3. ASSUME NEW k \in Syncs, CheckConnector(k) PROVE Answered'
  BY <1>3, CheckConnectorDoes DEF SyncAt, Answered, RestTyped, Known, Alone, Dormant,
     InOrder, Running, Over, Deep, Writing, Unpurged, Spent
<1>4. ASSUME NEW k \in Syncs, ReserveNonce(k) PROVE Answered'
  BY <1>4, ReserveNonceDoes DEF SyncAt, Answered, RestTyped, Known, Alone, Dormant, InOrder,
     Running, Over, Deep, Writing, Unpurged, Spent
<1>5. ASSUME NEW k \in Syncs, CheckAccount(k) PROVE Answered'
  BY <1>5, CheckAccountDoes DEF SyncAt, Answered, RestTyped, Known, Alone, Dormant, InOrder,
     Running, Over, Deep, Writing, Unpurged, Spent
<1>6. ASSUME NEW k \in Syncs, AppendEquityPoints(k) PROVE Answered'
  BY <1>6, AppendEquityPointsDoes DEF SyncAt, Answered, RestTyped, Known, Alone, Dormant,
     InOrder, Running, Over, Deep, Writing, Unpurged, Spent
<1>7. ASSUME NEW k \in Syncs, PutAccount(k) PROVE Answered'
  BY <1>7, PutAccountDoes DEF SyncAt, Answered, RestTyped, Known, Alone, Dormant, InOrder,
     Running, Over, Deep, Writing, Unpurged, Spent
<1>8. ASSUME NEW k \in Syncs, PutConnector(k) PROVE Answered'
  BY <1>8, PutConnectorDoes DEF SyncAt, Answered, RestTyped, Known, Alone, Dormant, InOrder,
     Running, Over, Deep, Writing, Unpurged, Spent
<1>9. ASSUME NEW k \in Syncs, PutProfile(k) PROVE Answered'
  BY <1>9, PutProfileDoes DEF SyncAt, Answered, RestTyped, Known, Alone, Dormant, InOrder,
     Running, Over, Deep, Writing, Unpurged, Spent
<1>10. ASSUME NEW k \in Syncs, SetIdempotency(k) PROVE Answered'
  BY <1>10, SetIdempotencyDoes DEF SyncAt, Answered, RestTyped, Known, Alone, Dormant,
     InOrder, Running, Over, Deep, Writing, Unpurged, Spent
<1>11. ASSUME NEW k \in Syncs, SyncStops(k) PROVE Answered'
  BY <1>11, SyncStopsDoes DEF SyncAt, Answered, RestTyped, Known, Alone, Dormant, InOrder,
     Running, Over, Deep, Writing, Unpurged, Spent
<1>12. ASSUME NEW k \in Syncs, Redeliver(k) PROVE Answered'
  BY <1>12, RedeliverDoes DEF SyncAt, Answered, RestTyped, Known, Alone, Dormant, InOrder,
     Running, Over, Deep, Writing, Unpurged, Spent
<1>13. ASSUME NEW k \in Syncs, SendSync(k) PROVE Answered'
  <2>1. /\ wait = 0 /\ wait' = k /\ UNCHANGED <<nonce, con, op, late>> /\ raced \subseteq raced'
        /\ \A j \in Syncs : j # k => sync'[j].pc = sync[j].pc /\ sync'[j].of = sync[j].of
        /\ sync'[k].pc = "arrived"
    BY <1>13, SendSyncDoes
  <2>2. \A j \in Syncs : j # wait
    BY <2>1, ServiceAssumption DEF Syncs
  <2> QED
    BY <2>1, <2>2 DEF Answered, Writing, Unpurged, Spent
<1>14. ASSUME NEW k \in Syncs, SyncAnswered(k) PROVE Answered'
  BY <1>14 DEF SyncAnswered, Answered, RestTyped, Known, Alone, Dormant, InOrder, Running,
     Over, Deep, Writing, Unpurged, Spent, cloud, records, data, keys, links, handlers,
     terminal
<1>15. ASSUME NEW k \in Syncs, SyncRefused(k) PROVE Answered'
  BY <1>15 DEF SyncRefused, Fault, Answered, RestTyped, Known, Alone, Dormant, InOrder,
     Running, Over, Deep, Writing, Unpurged, Spent, cloud, records, data, keys, links,
     handlers, terminal
<1>16. ASSUME NEW k \in Syncs, SyncTimesOut(k) PROVE Answered'
  BY <1>16 DEF SyncTimesOut, Fault, Answered, RestTyped, Known, Alone, Dormant, InOrder,
     Running, Over, Deep, Writing, Unpurged, Spent, cloud, records, data, keys, links,
     handlers, terminal
<1>17. ASSUME NEW o \in Ops, NEW kind \in Kinds, NEW r \in Requests, StartOp(o, kind, r)
       PROVE  Answered'
  <2>1. /\ op[o].pc = "idle" /\ UNCHANGED <<nonce, con, sync, wait, late>> /\ raced \subseteq raced'
        /\ \A p \in Ops : p # o => op'[p].kind = op[p].kind /\ op'[p].of = op[p].of
    BY <1>17, StartOpDoes
  <2>2. ASSUME NEW j \in Syncs, sync[j].pc # "unsent", (Unpurged(sync[j].of))'
        PROVE  Unpurged(sync[j].of)
    BY <2>1, <2>2, ServiceAssumption DEF Unpurged, Known
  <2> QED
    BY <2>1, <2>2 DEF Answered, Spent
<1>18. ASSUME NEW o \in Ops, RevokeAccount(o) PROVE Answered'
  BY <1>18, RevokeAccountDoes DEF OpAt, Hand, Answered, RestTyped, Known, Alone, Dormant,
     InOrder, Running, Over, Deep, Writing, Unpurged, Spent
<1>19. ASSUME NEW o \in Ops, RevokeConnector(o) PROVE Answered'
  BY <1>19, RevokeConnectorDoes DEF OpAt, Hand, Answered, RestTyped, Known, Alone, Dormant,
     InOrder, Running, Over, Deep, Writing, Unpurged, Spent
<1>20. ASSUME NEW o \in Ops, CreateShare(o) PROVE Answered'
  BY <1>20, CreateShareDoes DEF OpAt, Hand, Answered, RestTyped, Known, Alone, Dormant,
     InOrder, Running, Over, Deep, Writing, Unpurged, Spent
<1>21. ASSUME NEW o \in Ops, NEW s \in Ops, RevokeShare(o, s) PROVE Answered'
  <2>1. /\ op[o].pc = "read" /\ op[o].kind = "unshare"
        /\ OpAt(o, "read") /\ Hand(o, op[o].hand \ {s})
        /\ UNCHANGED <<acc, con, pair, member, cred, sync, wait, late, raced, prof, equity, nonce, idem>>
    BY <1>21, RevokeShareDoes
  <2> QED
    BY <2>1 DEF OpAt, Hand, Answered, Writing, Unpurged, Spent
<1>22. ASSUME NEW o \in Ops, SharesRevoked(o) PROVE Answered'
  BY <1>22, SharesRevokedDoes DEF OpAt, Hand, Answered, RestTyped, Known, Alone, Dormant,
     InOrder, Running, Over, Deep, Writing, Unpurged, Spent
<1>23. ASSUME NEW o \in Ops, ListShares(o) PROVE Answered'
  BY <1>23, ListSharesDoes DEF OpAt, Hand, Answered, RestTyped, Known, Alone, Dormant,
     InOrder, Running, Over, Deep, Writing, Unpurged, Spent
<1>24. ASSUME NEW o \in Ops, DeleteShares(o) PROVE Answered'
  BY <1>24, DeleteSharesDoes DEF OpAt, Hand, Answered, RestTyped, Known, Alone, Dormant,
     InOrder, Running, Over, Deep, Writing, Unpurged, Spent
<1>25. ASSUME NEW o \in Ops, RemoveWorkspaceAccount(o) PROVE Answered'
  BY <1>25, RemoveWorkspaceAccountDoes DEF OpAt, Hand, Answered, RestTyped, Known, Alone,
     Dormant, InOrder, Running, Over, Deep, Writing, Unpurged, Spent
<1>26. ASSUME NEW o \in Ops, DeleteProfile(o) PROVE Answered'
  BY <1>26, DeleteProfileDoes DEF OpAt, Hand, Answered, RestTyped, Known, Alone, Dormant,
     InOrder, Running, Over, Deep, Writing, Unpurged, Spent
<1>27. ASSUME NEW o \in Ops, DeleteEquity(o) PROVE Answered'
  BY <1>27, DeleteEquityDoes DEF OpAt, Hand, Answered, RestTyped, Known, Alone, Dormant,
     InOrder, Running, Over, Deep, Writing, Unpurged, Spent
<1>28. ASSUME NEW o \in Ops, DeleteConnector(o) PROVE Answered'
  BY <1>28, DeleteConnectorDoes DEF OpAt, Hand, Answered, RestTyped, Known, Alone, Dormant,
     InOrder, Running, Over, Deep, Writing, Unpurged, Spent
<1>29. ASSUME NEW o \in Ops, DeleteAccount(o) PROVE Answered'
  BY <1>29, DeleteAccountDoes DEF OpAt, Hand, Answered, RestTyped, Known, Alone, Dormant,
     InOrder, Running, Over, Deep, Writing, Unpurged, Spent
<1>30. ASSUME NEW o \in Ops, OpStops(o) PROVE Answered'
  BY <1>30, OpStopsDoes DEF OpAt, Hand, Answered, RestTyped, Known, Alone, Dormant, InOrder,
     Running, Over, Deep, Writing, Unpurged, Spent
<1>31. ASSUME UNCHANGED <<con, nonce, sync, op, wait, late, raced>> PROVE Answered'
  BY <1>31 DEF Answered, Running, Over, Deep, Writing, Unpurged, Spent
<1>32. ASSUME CreatePairing \/ PairingExpires
      PROVE  Answered'
  BY <1>31, <1>32 DEF CreatePairing, PairingExpires, AtSync, AtOp, cloud, records, data,
     keys, links, handlers, terminal
<1>33. ASSUME NEW r \in Requests, SendPair(r) \/ ConsumePairing(r) \/ PutNewAccount(r) \/
              AddWorkspaceAccount(r) \/ Paired(r) \/ PairedInVain(r) \/ PairStops(r)
      PROVE  Answered'
  BY <1>31, <1>33 DEF SendPair, ConsumePairing, PutNewAccount, AddWorkspaceAccount, Paired,
     PairedInVain, PairStops, AtSync, AtOp, cloud, records, data, keys, links, handlers,
     terminal
<1>34. ASSUME UNCHANGED vars PROVE Answered'
  BY <1>31, <1>34 DEF vars, cloud, records, data, keys, links, handlers, terminal
<1> QED
  BY <1>1, <1>2, <1>3, <1>4, <1>5, <1>6, <1>7, <1>8, <1>9, <1>10, <1>11, <1>12, <1>13,
     <1>14, <1>15, <1>16, <1>17, <1>18, <1>19, <1>20, <1>21, <1>22, <1>23, <1>24, <1>25,
     <1>26, <1>27, <1>28, <1>29, <1>30, <1>31, <1>32, <1>33, <1>34
     DEF Next, Pairing, Ingest, Terminal, Owner, Purge

-----------------------------------------------------------------------------
(* The theorems *)

LEMMA InitHolds == Init => IInv
<1> SUFFICES ASSUME Init PROVE IInv
  OBVIOUS
<1>1. SyncTyped /\ Switches /\ Budget
  <2>1. SyncTyped
    BY DEF Init, SyncTyped, SyncPc
  <2>2. Switches
    BY DEF Init, Switches
  <2>3. Budget
    BY ServiceAssumption DEF Init, Budget
  <2> QED
    BY <2>1, <2>2, <2>3
<1>0. RestTyped
  <2>1. /\ acc \in [Requests -> {"none", "active", "revoked"}]
        /\ con \in [Requests -> {"none", "active", "revoked"}]
        /\ share \in [Ops -> {"none", "live", "revoked"}]
    BY DEF Init
  <2>2. pair \in [Requests -> PairPc]
    BY DEF Init, PairPc
  <2>3. prof \in [Requests -> 0 .. LastSync] /\ wait \in 0 .. LastSync
    BY Numbers DEF Init
  <2>4. /\ equity \in [Requests -> SUBSET Syncs] /\ member = {} /\ nonce = {} /\ idem = {}
        /\ listed = {} /\ late = {} /\ raced = {} /\ cred = NoRequest
    BY DEF Init
  <2> QED
    BY <2>1, <2>2, <2>3, <2>4 DEF RestTyped
<1>2. \A k \in Syncs : sync[k].pc = "unsent" /\ sync[k].of = NoRequest
  BY DEF Init
<1>3. \A o \in Ops : op[o] = NoOp
  BY DEF Init
<1>4. NoOp \in OpRecord /\ NoOp.pc = "idle" /\ NoOp.of = NoRequest /\ NoOp.hand = {}
      /\ NoOp.kind = "share"
  BY DEF NoOp, OpRecord, OpPc, Kinds
<1>5. \A o \in Ops : op[o].pc = "idle" /\ op[o].of = NoRequest /\ op[o].hand = {}
                     /\ op[o].kind = "share"
  BY <1>3, <1>4
<1>6. OpTyped
  BY <1>4 DEF Init, OpTyped
<1>7. member = {} /\ cred = NoRequest /\ wait = 0 /\ nonce = {} /\ idem = {} /\ listed = {}
      /\ \A r \in Requests : prof[r] = 0
  BY DEF Init
<1>8. \A s \in Ops : share[s] = "none"
  BY DEF Init
<1>9. Known /\ Alone /\ Dormant /\ InOrder /\ Answered
  BY <1>2, <1>5, <1>7 DEF Known, Alone, Dormant, InOrder, Answered, Over, Deep, Running
<1>10. Revoking /\ Shares /\ Unlinked /\ Unlisted /\ Unconnected /\ Unmeasured
  BY <1>5, <1>7, <1>8 DEF Revoking, Shares, Unlinked, Unlisted, Unconnected, Unmeasured,
     Purged
<1> QED
  BY <1>0, <1>1, <1>6, <1>9, <1>10 DEF IInv

LEMMA StepHolds == IInv /\ [Next]_vars => IInv'
<1> SUFFICES ASSUME IInv, [Next]_vars PROVE IInv'
  OBVIOUS
<1>1. SyncTyped' /\ OpTyped' /\ RestTyped' /\ Switches' /\ Budget'
  BY SyncTypedStep, OpTypedStep, RestTypedStep, SwitchesStep, BudgetStep DEF IInv
<1>2. Known' /\ Alone' /\ Dormant' /\ Revoking'
  BY KnownStep, AloneStep, DormantStep, RevokingStep DEF IInv
<1>3. Shares' /\ Unlinked' /\ Unlisted' /\ Unconnected' /\ Unmeasured'
  BY SharesStep, UnlinkedStep, UnlistedStep, UnconnectedStep, UnmeasuredStep DEF IInv
<1>4. InOrder' /\ Answered'
  BY InOrderStep, AnsweredStep DEF IInv
<1> QED
  BY <1>1, <1>2, <1>3, <1>4 DEF IInv

\* The invariant holds in every state the service and the terminal can reach.
THEOREM Invariance == Spec => []IInv
  BY InitHolds, StepHolds, PTL DEF Spec

\* Every record, key and handler is always of its type.
THEOREM TypeCorrect == Spec => []TypeOK
<1>1. IInv => TypeOK
  BY DEF IInv, SyncTyped, OpTyped, OpRecord, RestTyped, Switches, Budget, TypeOK
<1> QED
  BY Invariance, <1>1, PTL

\* A revocation nothing overlapped is final (revokeNeoTechAccount): late and
\* repeated snapshots find the connector revoked at their first check.
THEOREM RevocationIsFinalHolds == Spec => []RevocationIsFinal
<1>1. IInv => RevocationIsFinal
  BY DEF IInv, Revoking, RevocationIsFinal
<1> QED
  BY Invariance, <1>1, PTL

\* A purge nothing overlapped leaves nothing of the account, and nothing comes
\* back (purgeNeoTechAccount).
THEOREM PurgeIsCompleteHolds == Spec => []PurgeIsComplete
<1>1. ASSUME IInv, NEW o \in Ops, op[o].kind = "purge", op[o].pc = "done", op[o].of \notin raced
      PROVE  /\ acc[op[o].of] = "none" /\ con[op[o].of] = "none" /\ op[o].of \notin member
             /\ prof[op[o].of] = 0 /\ equity[op[o].of] = {}
             /\ \A k \in nonce \cup idem : sync[k].of # op[o].of
             /\ \A s \in Ops : op[s].of = op[o].of => share[s] = "none" /\ s \notin listed
  <2>1. Purged(o)
    BY <1>1 DEF Purged
  <2>2. /\ acc[op[o].of] = "none" /\ con[op[o].of] = "none" /\ op[o].of \notin member
        /\ \A s \in Ops : op[s].of = op[o].of => share[s] = "none" /\ s \notin listed
    BY <1>1, <2>1 DEF IInv, Unlinked, Unlisted, Unconnected, One, Two, Three, Four, Five
  <2>3. /\ prof[op[o].of] = 0 /\ equity[op[o].of] = {}
        /\ \A k \in nonce \cup idem : sync[k].of # op[o].of
    BY <1>1, <2>1 DEF IInv, Unmeasured, Three, Four, Five
  <2> QED
    BY <2>2, <2>3
<1>2. IInv => PurgeIsComplete
  BY <1>1 DEF PurgeIsComplete
<1> QED
  BY Invariance, <1>2, PTL

\* The profile never goes back to a snapshot older than the one it shows, but for
\* one the terminal gave up on (putProfile in ingestNeoTechSync): a snapshot that
\* was answered has its nonce spent, and the one awaited is the newest of all.
LEMMA ProfileStep ==
    ASSUME IInv, [Next]_vars, NEW q \in Requests, prof'[q] \notin {0} \cup late, Unpurged(q)
    PROVE  prof'[q] >= prof[q]
<1> USE DEF IInv
<1>0. prof[q] \in Nat
  BY ServiceAssumption DEF RestTyped
<1>1. ASSUME prof' = prof PROVE prof'[q] >= prof[q]
  BY <1>0, <1>1
<1>2. ASSUME NEW k \in Syncs, PutProfile(k) PROVE prof'[q] >= prof[q]
  <2>1. sync[k].pc = "conPut" /\ prof' = [prof EXCEPT ![sync[k].of] = k]
    BY <1>2, PutProfileDoes
  <2>2. CASE sync[k].of # q
    BY <1>0, <2>1, <2>2 DEF RestTyped
  <2>3. CASE sync[k].of = q
    <3>1. prof'[q] = k
      BY <2>1, <2>3 DEF RestTyped
    <3>2. k = wait
      BY <2>1, <2>3, <3>1 DEF Answered, Writing
    <3>3. prof[q] # 0 => prof[q] \in Syncs /\ sync[prof[q]].pc # "unsent"
      BY Numbers DEF InOrder, RestTyped
    <3>4. wait # 0 /\ (prof[q] # 0 => ~(prof[q] > wait))
      BY <3>2, <3>3, ServiceAssumption DEF InOrder, Syncs
    <3> QED
      BY <1>0, <3>1, <3>2, <3>4, ServiceAssumption DEF Syncs
  <2> QED
    BY <2>2, <2>3
<1>3. ASSUME NEW o \in Ops, DeleteProfile(o) PROVE prof'[q] >= prof[q]
  <2>1. prof' = [prof EXCEPT ![op[o].of] = 0]
    BY <1>3, DeleteProfileDoes
  <2> QED
    BY <1>0, <2>1 DEF RestTyped
<1>4. ASSUME CreatePairing \/ PairingExpires \/ Reattach
      PROVE  prof'[q] >= prof[q]
  BY <1>1, <1>4 DEF CreatePairing, PairingExpires, Reattach, AtSync, AtOp, cloud, records,
     data, keys, links, handlers, terminal
<1>5. ASSUME NEW r \in Requests, SendPair(r) \/ ConsumePairing(r) \/ PutNewAccount(r) \/
             PutNewConnector(r) \/ AddWorkspaceAccount(r) \/ Paired(r) \/ PairedInVain(r) \/
             PairStops(r)
      PROVE  prof'[q] >= prof[q]
  BY <1>1, <1>5 DEF SendPair, ConsumePairing, PutNewAccount, PutNewConnector,
     AddWorkspaceAccount, Paired, PairedInVain, PairStops, AtSync, AtOp, cloud, records,
     data, keys, links, handlers, terminal
<1>6. ASSUME NEW k \in Syncs, CheckConnector(k) \/ ReserveNonce(k) \/ CheckAccount(k) \/
             AppendEquityPoints(k) \/ PutAccount(k) \/ PutConnector(k) \/ SetIdempotency(k)
             \/ SyncStops(k) \/ Redeliver(k) \/ SendSync(k) \/ SyncAnswered(k) \/
             SyncRefused(k) \/ SyncTimesOut(k)
      PROVE  prof'[q] >= prof[q]
  BY <1>1, <1>6 DEF CheckConnector, ReserveNonce, CheckAccount, AppendEquityPoints,
     PutAccount, PutConnector, SetIdempotency, SyncStops, Redeliver, SendSync, SyncAnswered,
     SyncRefused, SyncTimesOut, AtSync, AtOp, cloud, records, data, keys, links, handlers,
     terminal
<1>7. ASSUME NEW o \in Ops, NEW kind \in Kinds, NEW r \in Requests, StartOp(o, kind, r)
      PROVE  prof'[q] >= prof[q]
  BY <1>1, <1>7 DEF StartOp, AtSync, AtOp, cloud, records, data, keys, links, handlers,
     terminal
<1>8. ASSUME NEW o \in Ops, RevokeAccount(o) \/ RevokeConnector(o) \/ CreateShare(o) \/
             SharesRevoked(o) \/ ListShares(o) \/ DeleteShares(o) \/
             RemoveWorkspaceAccount(o) \/ DeleteEquity(o) \/ DeleteConnector(o) \/
             DeleteAccount(o) \/ OpStops(o)
      PROVE  prof'[q] >= prof[q]
  BY <1>1, <1>8 DEF RevokeAccount, RevokeConnector, CreateShare, SharesRevoked, ListShares,
     DeleteShares, RemoveWorkspaceAccount, DeleteEquity, DeleteConnector, DeleteAccount,
     OpStops, AtSync, AtOp, cloud, records, data, keys, links, handlers, terminal
<1>9. ASSUME NEW o \in Ops, NEW s \in Ops, RevokeShare(o, s)
      PROVE  prof'[q] >= prof[q]
  BY <1>1, <1>9 DEF RevokeShare, AtSync, AtOp, cloud, records, data, keys, links, handlers,
     terminal
<1>10. ASSUME UNCHANGED vars PROVE prof'[q] >= prof[q]
  BY <1>1, <1>10 DEF vars, cloud, records, data, keys, links, handlers, terminal
<1> QED
  BY <1>1, <1>2, <1>3, <1>4, <1>5, <1>6, <1>7, <1>8, <1>9, <1>10
     DEF Next, Pairing, Ingest, Terminal, Owner, Purge

\* The action property, from the invariant.
THEOREM ProfileMovesForwardHolds == Spec => ProfileMovesForward
<1>1. ASSUME IInv, [Next]_vars, NEW r \in Requests
      PROVE  \/ prof'[r] \in {0} \cup late \/ prof'[r] >= prof[r]
             \/ Begun({"purge"}, r) \/ r \in raced
  BY <1>1, ProfileStep DEF Begun, Unpurged
<1>2. IInv /\ [Next]_vars =>
          [\A r \in Requests : \/ prof'[r] \in {0} \cup late \/ prof'[r] >= prof[r]
                               \/ Begun({"purge"}, r) \/ r \in raced]_vars
  BY <1>1
<1> QED
  BY Invariance, <1>2, PTL DEF Spec, ProfileMovesForward

-----------------------------------------------------------------------------
(* The hourly alarm: H1Timekeeper.  An hour of the record had its request   *)
(* sent or answered, so what is between two records was begun or spanned.   *)

\* A call that has not begun is idle, and one that waits has sent its request.
TKCalls ==
    \A t \in Handlers : /\ TK!Is(t, "idle") => handler[t] = TK!Idle
                        /\ handler[t].at <= hour
                        /\ TK!Is(t, "waiting") => handler[t].at \in begun

\* The hour that is recorded had a request sent or answered in it.
TKRecord == success <= hour /\ success \in begun \cup spanned

TKSound == TK!TypeOK /\ TKCalls /\ TKRecord /\ TK!HourIsNotSkipped

LEMMA TKInit == TK!Init => TKSound
<1> SUFFICES ASSUME TK!Init PROVE TKSound
  OBVIOUS
<1> USE ClockAssumption DEF TK!Init, TK!Is, TK!Idle, TK!Hours
<1>1. TK!TypeOK
  <2>1. TK!Idle \in [pc : {"idle", "waiting", "arming", "over"}, at : 0 .. LastHour,
                     kind : {"alarm", "watchdog", "run", "arm"}]
    OBVIOUS
  <2>2. handler \in [Handlers -> [pc : {"idle", "waiting", "arming", "over"}, at : 0 .. LastHour,
                                 kind : {"alarm", "watchdog", "run", "arm"}]]
    BY <2>1
  <2>3. 0 \in 0 .. LastHour /\ 0 \in 0 .. MaxMisses
    OBVIOUS
  <2> QED BY <2>2, <2>3 DEF TK!TypeOK
<1>2. TKCalls /\ TKRecord
  BY DEF TKCalls, TKRecord
<1>3. TK!HourIsNotSkipped
  BY DEF TK!HourIsNotSkipped
<1> QED BY <1>1, <1>2, <1>3 DEF TKSound

LEMMA TKStep == TKSound /\ [TK!Next]_TK!vars => TKSound'
<1> SUFFICES ASSUME TKSound, [TK!Next]_TK!vars PROVE TKSound'
  OBVIOUS
<1> USE ClockAssumption
    DEF TKSound, TK!TypeOK, TK!vars, TK!storage, TK!ghosts, TK!Is, TK!Become, TK!Begin, TK!Send,
        TK!Idle, TK!Over, TK!Hours
<1>1. CASE TK!HourTurns
  <2>1. TK!TypeOK'
    BY <1>1 DEF TK!HourTurns
  <2>2. TKCalls'
    BY <1>1 DEF TK!HourTurns, TKCalls
  <2>3. TKRecord'
    BY <1>1 DEF TK!HourTurns, TKCalls, TKRecord
  <2>4. TK!HourIsNotSkipped'
    BY <1>1 DEF TK!HourTurns, TKCalls, TKRecord, TK!HourIsNotSkipped
  <2> QED BY <2>1, <2>2, <2>3, <2>4
<1>2. CASE TK!Evict
  <2>1. TK!TypeOK'
    BY <1>2 DEF TK!Evict
  <2>2. TKCalls'
    BY <1>2 DEF TK!Evict, TKCalls
  <2>3. TKRecord'
    BY <1>2 DEF TK!Evict, TKCalls, TKRecord
  <2>4. TK!HourIsNotSkipped'
    BY <1>2 DEF TK!Evict, TKCalls, TKRecord, TK!HourIsNotSkipped
  <2> QED BY <2>1, <2>2, <2>3, <2>4
<1>3. ASSUME NEW t \in Handlers, TK!Alarm(t) PROVE TKSound'
  <2>1. TK!TypeOK'
    BY <1>3 DEF TK!Alarm
  <2>2. TKCalls'
    BY <1>3 DEF TK!Alarm, TKCalls
  <2>3. TKRecord'
    BY <1>3 DEF TK!Alarm, TKCalls, TKRecord
  <2>4. TK!HourIsNotSkipped'
    BY <1>3 DEF TK!Alarm, TKCalls, TKRecord, TK!HourIsNotSkipped
  <2> QED BY <2>1, <2>2, <2>3, <2>4
<1>4. ASSUME NEW t \in Handlers, TK!Watchdog(t) PROVE TKSound'
  <2>1. TK!TypeOK'
    BY <1>4 DEF TK!Watchdog
  <2>2. TKCalls'
    BY <1>4 DEF TK!Watchdog, TKCalls
  <2>3. TKRecord'
    BY <1>4 DEF TK!Watchdog, TKCalls, TKRecord
  <2>4. TK!HourIsNotSkipped'
    BY <1>4 DEF TK!Watchdog, TKCalls, TKRecord, TK!HourIsNotSkipped
  <2> QED BY <2>1, <2>2, <2>3, <2>4
<1>5. ASSUME NEW t \in Handlers, TK!Run(t) PROVE TKSound'
  <2>1. TK!TypeOK'
    BY <1>5 DEF TK!Run
  <2>2. TKCalls'
    BY <1>5 DEF TK!Run, TKCalls
  <2>3. TKRecord'
    BY <1>5 DEF TK!Run, TKCalls, TKRecord
  <2>4. TK!HourIsNotSkipped'
    BY <1>5 DEF TK!Run, TKCalls, TKRecord, TK!HourIsNotSkipped
  <2> QED BY <2>1, <2>2, <2>3, <2>4
<1>6. ASSUME NEW t \in Handlers, TK!Arm(t) PROVE TKSound'
  <2>1. TK!TypeOK'
    BY <1>6 DEF TK!Arm
  <2>2. TKCalls'
    BY <1>6 DEF TK!Arm, TKCalls
  <2>3. TKRecord'
    BY <1>6 DEF TK!Arm, TKCalls, TKRecord
  <2>4. TK!HourIsNotSkipped'
    BY <1>6 DEF TK!Arm, TKCalls, TKRecord, TK!HourIsNotSkipped
  <2> QED BY <2>1, <2>2, <2>3, <2>4
<1>7. ASSUME NEW t \in Handlers, TK!Succeed(t) PROVE TKSound'
  <2>1. TK!TypeOK'
    BY <1>7 DEF TK!Succeed
  <2>2. TKCalls'
    BY <1>7 DEF TK!Succeed, TKCalls
  <2>3. TKRecord'
    BY <1>7 DEF TK!Succeed, TKCalls, TKRecord
  <2>4. TK!HourIsNotSkipped'
    BY <1>7 DEF TK!Succeed, TKCalls, TKRecord, TK!HourIsNotSkipped
  <2> QED BY <2>1, <2>2, <2>3, <2>4
<1>8. ASSUME NEW t \in Handlers, TK!Throw(t) PROVE TKSound'
  <2>0. again' \in BOOLEAN
    BY <1>8, Zenon DEF TK!Throw
  <2>1. TK!TypeOK'
    BY <1>8, <2>0 DEF TK!Throw
  <2>2. TKCalls'
    BY <1>8 DEF TK!Throw, TKCalls
  <2>3. TKRecord'
    BY <1>8 DEF TK!Throw, TKCalls, TKRecord
  <2>4. TK!HourIsNotSkipped'
    BY <1>8 DEF TK!Throw, TKCalls, TKRecord, TK!HourIsNotSkipped
  <2> QED BY <2>1, <2>2, <2>3, <2>4
<1>9. ASSUME NEW t \in Handlers, TK!ArmNext(t) PROVE TKSound'
  <2>1. TK!TypeOK'
    BY <1>9 DEF TK!ArmNext, TK!nextBoundary
  <2>2. TKCalls'
    BY <1>9 DEF TK!ArmNext, TK!nextBoundary, TKCalls
  <2>3. TKRecord'
    BY <1>9 DEF TK!ArmNext, TK!nextBoundary, TKCalls, TKRecord
  <2>4. TK!HourIsNotSkipped'
    BY <1>9 DEF TK!ArmNext, TK!nextBoundary, TKCalls, TKRecord, TK!HourIsNotSkipped
  <2> QED BY <2>1, <2>2, <2>3, <2>4
<1>10. CASE UNCHANGED TK!vars
  <2>1. TK!TypeOK'
    BY <1>10
  <2>2. TKCalls'
    BY <1>10 DEF TKCalls
  <2>3. TKRecord'
    BY <1>10 DEF TKCalls, TKRecord
  <2>4. TK!HourIsNotSkipped'
    BY <1>10 DEF TKCalls, TKRecord, TK!HourIsNotSkipped
  <2> QED BY <2>1, <2>2, <2>3, <2>4
<1> QED
  BY <1>1, <1>2, <1>3, <1>4, <1>5, <1>6, <1>7, <1>8, <1>9, <1>10 DEF TK!Next

\* An hour the watchdog has looked at is never skipped, and the object is without an
\* alarm only while somebody is to arm it.
THEOREM HourIsNotSkippedHolds == TK!Spec => []HourIsNotSkipped
<1>1. TKSound => HourIsNotSkipped
  BY DEF TKSound, HourIsNotSkipped
<1> QED
  BY <1>1, TKInit, TKStep, PTL DEF TK!Spec

-----------------------------------------------------------------------------
(* The reminders: C5Reminder.  Two positions share no deal, so a deal has   *)
(* one owner; whatever was told or waits was seen, and what was seen and is *)
(* not forgotten was told or waits, once.                                   *)

\* Positions and the deals they are made of.
CRPlaces ==
    /\ position \in [Positions -> CR!Position \cup {Nothing}]
    /\ report \in [Deals -> 0 .. 2] /\ login \in AccountLogins
    /\ \A p \in CR!There : CR!Opening(p) \in position[p].more
    /\ \A p, q \in CR!There : p # q => position[p].more \cap position[q].more = {}

Told(h) == {d \in Deals : \E l \in AccountLogins \cup {Nothing} : <<d, l>> \in h.told}
Queue(h) == {h.queue[i] : i \in 1 .. Len(h.queue)}
Seen(h) == {h.seen[i] : i \in 1 .. Len(h.seen)}

\* What the helper remembers, whatever the account.
CRMemory(h) ==
    /\ h \in CR!Helper /\ Len(h.seen) <= MaxSeen
    /\ Told(h) \cup Queue(h) \subseteq Seen(h) \cup h.forgot
    /\ Seen(h) \subseteq Told(h) \cup Queue(h)
    /\ Queue(h) \cap Told(h) \subseteq h.forgot
    /\ \A i, j \in 1 .. Len(h.queue) :
           i # j /\ h.queue[i] = h.queue[j] => h.queue[i] \in h.forgot

\* The deal was made on the account.
MadeOn(d, l) == \E p \in CR!There : position[p].own = l /\ d \in position[p].more

\* What it remembers is of its account.
CRAccount(h) ==
    /\ \A d \in Queue(h) : MadeOn(d, h.bound) \/ d \in h.astray
    /\ \A t \in h.told : t[2] = Nothing \/ MadeOn(t[1], t[2]) \/ t[1] \in h.astray

\* And nothing of its account is missing.
CRComplete(h) ==
    \A p \in CR!There :
        (position[p].recent /\ report[CR!Opening(p)] = 0 /\ position[p].own = h.bound)
            => CR!Opening(p) \in h.astray \cup Told(h) \cup Queue(h)

CRHelper == helper # Nothing => CRMemory(helper) /\ CRAccount(helper) /\ CRComplete(helper)

CRSound == CRPlaces /\ CRHelper

\* What some number has, a least one has.
LEMMA LeastNatural ==
    ASSUME NEW T, T \subseteq Nat, T # {}
    PROVE  \E n \in T : \A m \in T : n <= m
<1> DEFINE R == OpToRel(<, Nat)
<1>1. IsWellFoundedOn(R, Nat)
  BY NatLessThanWellFounded
<1>2. \E x \in T : \A y \in T : ~ (<<y, x>> \in R)
  <2> HIDE DEF R
  <2> QED BY <1>1, WFMin
<1>3. \A x, y \in Nat : <<x, y>> \in R <=> x < y
  BY DEF OpToRel
<1> HIDE DEF R
<1>4. PICK n \in T : \A m \in T : ~ (<<m, n>> \in R)
  BY <1>2
<1>5. ASSUME NEW m \in T PROVE n <= m
  <2>1. m \in Nat /\ n \in Nat
    OBVIOUS
  <2>2. <<m, n>> \notin R
    BY <1>4
  <2>3. ~ (m < n)
    BY <2>1, <2>2, <1>3
  <2> QED BY <2>1, <2>3
<1> QED BY <1>4, <1>5

\* A set that has 0 and, with a number, the next one has them all.
LEMMA AllNaturals ==
    ASSUME NEW S, 0 \in S, \A n \in Nat : n \in S => n + 1 \in S
    PROVE  Nat \subseteq S
<1> SUFFICES ASSUME Nat \ S # {} PROVE FALSE
  OBVIOUS
<1>1. PICK n \in Nat \ S : \A m \in Nat \ S : n <= m
  BY LeastNatural
<1>2. n # 0 /\ n - 1 \in Nat
  OBVIOUS
<1>3. n - 1 \in S
  BY <1>1, <1>2
<1>4. (n - 1) + 1 = n
  OBVIOUS
<1> QED BY <1>2, <1>3, <1>4, <1>1

\* An enumeration names every element.
LEMMA NamesAll ==
    ASSUME NEW S, IsFiniteSet(S), NEW s \in CR!SetToSeqs(S)
    PROVE  /\ s \in Seq(S) /\ Cardinality(S) \in Nat /\ Len(s) = Cardinality(S)
           /\ \A x \in S : \E i \in 1 .. Len(s) : s[i] = x
<1>1. Cardinality(S) \in Nat
  BY FS_CardinalityType
<1>0. /\ s \in [1 .. Cardinality(S) -> S]
      /\ \A i, j \in 1 .. Cardinality(S) : i # j => s[i] # s[j]
  BY Zenon DEF CR!SetToSeqs, CR!Cardinality, Cardinality
<1> DEFINE D == 1 .. Cardinality(S)
<1>2. s \in [D -> S] /\ \A i, j \in D : i # j => s[i] # s[j]
  BY <1>0
<1>3. s \in Injection(D, S)
  BY <1>2 DEF Injection, IsInjective
<1>4. IsFiniteSet(D) /\ Cardinality(D) = Cardinality(S)
  <2>1. 1 \in Int /\ Cardinality(S) \in Int
    BY <1>1
  <2>2. IsFiniteSet(1 .. Cardinality(S))
    BY <2>1, FS_Interval
  <2>3. Cardinality(1 .. Cardinality(S)) =
            IF 1 > Cardinality(S) THEN 0 ELSE Cardinality(S) - 1 + 1
    BY <2>1, FS_Interval
  <2>4. Cardinality(D) = Cardinality(S)
    <3> DEFINE n == Cardinality(S)
               m == Cardinality(D)
    <3>1. m = IF 1 > n THEN 0 ELSE n - 1 + 1
      BY <2>3
    <3>2. n \in Nat
      BY <1>1
    <3> HIDE DEF n, m
    <3>3. m = n
      BY <3>1, <3>2
    <3> QED BY <3>3 DEF n, m
  <2> QED BY <2>2, <2>4
<1>5. s \in Surjection(D, S)
  <2> HIDE DEF D
  <2> QED BY <1>3, <1>4, FS_Injection
<1>6. \A x \in S : \E i \in D : s[i] = x
  BY <1>5 DEF Surjection
<1>7. s \in Seq(S) /\ Len(s) = Cardinality(S)
  BY <1>1, <1>2
<1> QED BY <1>1, <1>6, <1>7

\* One deal more, or none: what was there stays, and the deal was told or waits.
LEMMA QueueReminderDoes ==
    ASSUME NEW h, CRMemory(h), NEW d \in Deals, NEW g, g = CR!NC5QueueReminder(h, d)
    PROVE  /\ CRMemory(g)
           /\ g.bound = h.bound /\ g.told = h.told /\ g.astray = h.astray
           /\ Queue(h) \subseteq Queue(g) /\ Queue(g) \subseteq Queue(h) \cup {d}
           /\ d \in Told(g) \cup Queue(g)
<1> USE ReminderAssumption
<1>0. /\ h \in CR!Helper /\ Len(h.seen) <= MaxSeen
      /\ h.queue \in Seq(Deals) /\ h.seen \in Seq(Deals) /\ h.forgot \subseteq Deals
      /\ h.told \subseteq Deals \X (AccountLogins \cup {Nothing}) /\ h.astray \subseteq Deals
      /\ h.bound \in AccountLogins
  BY DEF CRMemory, CR!Helper
<1>1. CASE CR!Contains(h.seen, d)
  <2>1. g = h
    BY <1>1 DEF CR!NC5QueueReminder
  <2>2. d \in Seen(h)
    BY <1>1 DEF CR!Contains, Seen
  <2>3. d \in Told(h) \cup Queue(h)
    BY <2>2 DEF CRMemory
  <2> QED BY <2>1, <2>3
<1>2. CASE ~ CR!Contains(h.seen, d)
  <2> DEFINE old == IF Len(h.seen) < MaxSeen THEN h.seen ELSE Tail(h.seen)
             lost == IF Len(h.seen) < MaxSeen THEN {} ELSE {Head(h.seen)}
  <2>1. /\ g = [h EXCEPT !.seen = Append(old, d), !.forgot = h.forgot \cup lost,
                         !.queue = Append(h.queue, d)]
    BY <1>2 DEF CR!NC5QueueReminder, CR!NC5RememberDeal
  <2>2. g = [bound |-> h.bound, queue |-> Append(h.queue, d), seen |-> Append(old, d),
             told |-> h.told, forgot |-> h.forgot \cup lost, astray |-> h.astray]
    BY <2>1, <1>0 DEF CR!Helper
  <2>3. d \notin Seen(h)
    BY <1>2 DEF CR!Contains, Seen
  <2>4. old \in Seq(Deals) /\ Len(old) < MaxSeen /\ lost \subseteq Deals
    BY <1>0
  <2>5. Seen(h) \subseteq {old[i] : i \in 1 .. Len(old)} \cup lost
    <3>1. CASE Len(h.seen) < MaxSeen
      BY <3>1 DEF Seen
    <3>2. CASE ~ (Len(h.seen) < MaxSeen)
      <4>1. SUFFICES ASSUME NEW i \in 1 .. Len(h.seen)
                     PROVE  h.seen[i] \in {old[j] : j \in 1 .. Len(old)} \cup lost
        BY DEF Seen
      <4>2. CASE i = 1
        BY <4>2, <3>2, <1>0
      <4>3. CASE i # 1
        <5>1. i - 1 \in 1 .. Len(old) /\ old[i - 1] = h.seen[i]
          BY <4>3, <3>2, <1>0
        <5> QED BY <5>1
      <4> QED BY <4>2, <4>3
    <3> QED BY <3>1, <3>2
  <2>6. {old[i] : i \in 1 .. Len(old)} \subseteq Seen(h)
    <3>1. CASE Len(h.seen) < MaxSeen
      BY <3>1 DEF Seen
    <3>2. CASE ~ (Len(h.seen) < MaxSeen)
      <4>1. SUFFICES ASSUME NEW i \in 1 .. Len(old) PROVE old[i] \in Seen(h)
        OBVIOUS
      <4>2. i + 1 \in 1 .. Len(h.seen) /\ h.seen[i + 1] = old[i]
        BY <3>2, <1>0
      <4> QED BY <4>2 DEF Seen
    <3> QED BY <3>1, <3>2
  <2>7. /\ g.bound = h.bound /\ g.told = h.told /\ g.astray = h.astray
        /\ g.queue = Append(h.queue, d) /\ g.seen = Append(old, d)
        /\ g.forgot = h.forgot \cup lost
    BY <2>2
  <2>8. Seen(g) = {old[i] : i \in 1 .. Len(old)} \cup {d}
    <3> HIDE DEF old
    <3>1. Len(g.seen) = Len(old) + 1 /\ \A i \in 1 .. Len(old) : g.seen[i] = old[i]
      BY <2>4, <2>7
    <3>2. g.seen[Len(old) + 1] = d /\ Len(old) \in Nat
      BY <2>4, <2>7
    <3>3. \A i \in 1 .. Len(old) : i \in 1 .. Len(g.seen)
      BY <3>1, <3>2
    <3>4. Len(old) + 1 \in 1 .. Len(g.seen)
      BY <3>1, <3>2
    <3>5. \A i \in 1 .. Len(g.seen) : i \in 1 .. Len(old) \/ i = Len(old) + 1
      BY <3>1, <3>2
    <3> QED BY <3>1, <3>2, <3>3, <3>4, <3>5 DEF Seen
  <2>9. /\ Len(g.queue) = Len(h.queue) + 1 /\ Len(h.queue) \in Nat
        /\ \A i \in 1 .. Len(h.queue) : g.queue[i] = h.queue[i]
        /\ g.queue[Len(h.queue) + 1] = d
    BY <2>7, <1>0
  <2>10. Queue(g) = Queue(h) \cup {d}
    <3>1. \A i \in 1 .. Len(h.queue) : i \in 1 .. Len(g.queue)
      BY <2>9
    <3>2. Len(h.queue) + 1 \in 1 .. Len(g.queue)
      BY <2>9
    <3>3. \A i \in 1 .. Len(g.queue) : i \in 1 .. Len(h.queue) \/ i = Len(h.queue) + 1
      BY <2>9
    <3> QED BY <2>9, <3>1, <3>2, <3>3 DEF Queue
  <2>11. Told(g) = Told(h)
    BY <2>7 DEF Told
  <2>12. g \in CR!Helper /\ Len(g.seen) <= MaxSeen
    <3> HIDE DEF old, lost
    <3>1. Append(old, d) \in Seq(Deals) /\ Append(h.queue, d) \in Seq(Deals)
      BY <2>4, <1>0
    <3>2. Len(g.seen) = Len(old) + 1 /\ Len(old) \in Nat
      BY <2>7, <2>4
    <3> DEFINE q == Append(h.queue, d)
               e == Append(old, d)
               f == h.forgot \cup lost
    <3>4. q \in Seq(Deals) /\ e \in Seq(Deals) /\ f \in SUBSET Deals
      BY <3>1, <1>0, <2>4
    <3>5. g = [bound |-> h.bound, queue |-> q, seen |-> e, told |-> h.told,
               forgot |-> f, astray |-> h.astray]
      BY <2>2
    <3>3. g \in CR!Helper
      <4> HIDE DEF q, e, f
      <4> QED BY <3>4, <3>5, <1>0 DEF CR!Helper
    <3> QED BY <3>2, <3>3, <2>4
  <2>13. Told(g) \cup Queue(g) \subseteq Seen(g) \cup g.forgot
    <3> HIDE DEF old, lost
    <3> QED BY <2>5, <2>7, <2>8, <2>10, <2>11 DEF CRMemory
  <2>14. Seen(g) \subseteq Told(g) \cup Queue(g)
    <3> HIDE DEF old, lost
    <3> QED BY <2>6, <2>8, <2>10, <2>11 DEF CRMemory
  <2>15. Queue(g) \cap Told(g) \subseteq g.forgot
    <3> HIDE DEF old, lost
    <3> QED BY <2>3, <2>7, <2>10, <2>11 DEF CRMemory
  <2>16. ASSUME NEW i \in 1 .. Len(g.queue), NEW j \in 1 .. Len(g.queue),
                i # j, g.queue[i] = g.queue[j]
         PROVE  g.queue[i] \in g.forgot
    <3> HIDE DEF old, lost
    <3>1. CASE i \in 1 .. Len(h.queue) /\ j \in 1 .. Len(h.queue)
      <4>1. h.queue[i] = h.queue[j]
        BY <3>1, <2>9, <2>16
      <4>2. h.queue[i] \in h.forgot
        BY <4>1, <3>1, <2>16 DEF CRMemory
      <4> QED BY <4>2, <3>1, <2>7, <2>9
    <3>2. CASE i \in 1 .. Len(h.queue) /\ j \notin 1 .. Len(h.queue)
      <4>1. g.queue[i] = d /\ h.queue[i] = d
        BY <3>2, <2>9, <2>16
      <4>2. d \in Queue(h)
        BY <4>1, <3>2 DEF Queue
      <4>3. d \in h.forgot
        BY <4>2, <2>3 DEF CRMemory
      <4> QED BY <4>1, <4>3, <2>7
    <3>3. CASE i \notin 1 .. Len(h.queue) /\ j \in 1 .. Len(h.queue)
      <4>1. g.queue[i] = d /\ h.queue[j] = d
        BY <3>3, <2>9, <2>16
      <4>2. d \in Queue(h)
        BY <4>1, <3>3 DEF Queue
      <4>3. d \in h.forgot
        BY <4>2, <2>3 DEF CRMemory
      <4> QED BY <4>1, <4>3, <2>7
    <3>4. CASE i \notin 1 .. Len(h.queue) /\ j \notin 1 .. Len(h.queue)
      BY <3>4, <2>9, <2>16
    <3> QED BY <3>1, <3>2, <3>3, <3>4
  <2>17. CRMemory(g)
    BY <2>12, <2>13, <2>14, <2>15, <2>16 DEF CRMemory
  <2> QED BY <2>7, <2>10, <2>17
<1> QED BY <1>1, <1>2

\* The step from one deal to the next, and what the recursion computes.
Then(f, s, k) == CR!NC5QueueReminder(f[k - 1], s[k])

LEMMA QueuedEquation ==
    ASSUME NEW h, NEW s, Len(s) \in Nat
    PROVE  \E q : /\ CR!Queued(h, s) = q[Len(s)] /\ q[0] = h
                  /\ \A k \in 1 .. Len(s) : q[k] = Then(q, s, k)
<1> DEFINE Rec(f, n) == [k \in 0 .. n |-> IF k = 0 THEN h
                                          ELSE CR!NC5QueueReminder(f[k - 1], s[k])]
           Some == {n \in Nat : \E f : f = Rec(f, n)}
<1>1. 0 \in Some
  <2> DEFINE f == [k \in 0 .. 0 |-> h]
  <2>1. f = Rec(f, 0)
    <3>1. \A k \in 0 .. 0 : k = 0
      OBVIOUS
    <3> QED BY <3>1
  <2> HIDE DEF Rec, f
  <2> QED BY <2>1
<1>2. ASSUME NEW n \in Nat, n \in Some PROVE n + 1 \in Some
  <2>1. PICK f : f = Rec(f, n)
    BY <1>2
  <2> DEFINE g == [k \in 0 .. (n + 1) |-> IF k = n + 1 THEN Then(f, s, n + 1) ELSE f[k]]
  <2>2. ASSUME NEW k \in 0 .. (n + 1)
        PROVE  g[k] = IF k = 0 THEN h ELSE CR!NC5QueueReminder(g[k - 1], s[k])
    <3>1. CASE k = n + 1
      <4>1. n \in 0 .. (n + 1) /\ n # n + 1 /\ k # 0 /\ k - 1 = n /\ (n + 1) - 1 = n
        BY <3>1
      <4>2. g[n] = f[n]
        BY <4>1
      <4>3. g[k] = Then(f, s, k)
        BY <3>1
      <4>4. g[k] = CR!NC5QueueReminder(f[n], s[k])
        BY <4>1, <4>3 DEF Then
      <4> QED BY <4>1, <4>2, <4>4
    <3>2. CASE k # n + 1 /\ k # 0
      <4>1. k \in 0 .. n /\ k - 1 \in 0 .. (n + 1) /\ k - 1 # n + 1
        BY <3>2
      <4>2. g[k] = f[k] /\ g[k - 1] = f[k - 1]
        BY <3>2, <4>1
      <4>3. f[k] = CR!NC5QueueReminder(f[k - 1], s[k])
        BY <2>1, <4>1, <3>2
      <4> QED BY <3>2, <4>2, <4>3
    <3>3. CASE k = 0
      <4>1. 0 \in 0 .. n /\ 0 # n + 1
        OBVIOUS
      <4>2. f[0] = h
        BY <2>1, <4>1
      <4> QED BY <3>3, <4>1, <4>2
    <3> QED BY <3>1, <3>2, <3>3
  <2>3. g = [k \in 0 .. (n + 1) |-> g[k]]
    OBVIOUS
  <2>4. g = Rec(g, n + 1)
    <3> HIDE DEF g
    <3> QED BY <2>2, <2>3
  <2>5. n + 1 \in Nat
    OBVIOUS
  <2> HIDE DEF g, Rec
  <2> QED BY <2>4, <2>5
<1>3. PICK f : f = Rec(f, Len(s))
  <2> HIDE DEF Some
  <2>1. Len(s) \in Some
    BY <1>1, <1>2, AllNaturals
  <2> QED BY <2>1 DEF Some
<1> DEFINE q == CHOOSE f1 : f1 = [n \in 0 .. Len(s) |->
                                  IF n = 0 THEN h ELSE CR!NC5QueueReminder(f1[n - 1], s[n])]
<1>4. q = [n \in 0 .. Len(s) |-> IF n = 0 THEN h ELSE CR!NC5QueueReminder(q[n - 1], s[n])]
  BY <1>3
<1>5. CR!Queued(h, s) = q[Len(s)]
  BY DEF CR!Queued
<1> HIDE DEF q
<1>6. q[0] = h /\ \A k \in 1 .. Len(s) : q[k] = Then(q, s, k)
  BY <1>4 DEF Then
<1> QED BY <1>5, <1>6

LEMMA QueuedDoes ==
    ASSUME NEW h, CRMemory(h), NEW s \in Seq(Deals), NEW g, g = CR!Queued(h, s)
    PROVE  /\ CRMemory(g)
           /\ g.bound = h.bound /\ g.told = h.told /\ g.astray = h.astray
           /\ Queue(g) \subseteq Queue(h) \cup {s[i] : i \in 1 .. Len(s)}
           /\ \A i \in 1 .. Len(s) : s[i] \in Told(g) \cup Queue(g)
<1>0. Len(s) \in Nat /\ \A i \in 1 .. Len(s) : s[i] \in Deals
  OBVIOUS
<1>1. PICK q : /\ CR!Queued(h, s) = q[Len(s)] /\ q[0] = h
               /\ \A k \in 1 .. Len(s) : q[k] = Then(q, s, k)
  BY <1>0, QueuedEquation
<1> DEFINE Right(n) ==
      /\ CRMemory(q[n])
      /\ q[n].bound = h.bound /\ q[n].told = h.told /\ q[n].astray = h.astray
      /\ Queue(q[n]) \subseteq Queue(h) \cup {s[i] : i \in 1 .. Len(s)}
      /\ \A i \in 1 .. n : s[i] \in Told(q[n]) \cup Queue(q[n])
           N == {n \in Nat : n <= Len(s) => Right(n)}
<1>2. 0 \in N
  BY <1>1
<1>3. ASSUME NEW n \in Nat, n \in N PROVE n + 1 \in N
  <2> SUFFICES ASSUME n + 1 <= Len(s) PROVE Right(n + 1)
    OBVIOUS
  <2>1. n + 1 \in 1 .. Len(s) /\ (n + 1) - 1 = n /\ n <= Len(s)
    BY <1>0
  <2>2. Right(n)
    BY <2>1, <1>3
  <2> DEFINE d == s[n + 1]
  <2>3. q[n + 1] = CR!NC5QueueReminder(q[n], d) /\ d \in Deals
    BY <1>0, <1>1, <2>1 DEF Then
  <2>4. /\ CRMemory(q[n + 1])
        /\ q[n + 1].bound = q[n].bound /\ q[n + 1].told = q[n].told
        /\ q[n + 1].astray = q[n].astray
        /\ Queue(q[n]) \subseteq Queue(q[n + 1]) /\ Queue(q[n + 1]) \subseteq Queue(q[n]) \cup {d}
        /\ d \in Told(q[n + 1]) \cup Queue(q[n + 1])
    <3>1. CRMemory(q[n])
      BY <2>2
    <3> HIDE DEF d, Right, N
    <3> QED BY <3>1, <2>3, QueueReminderDoes
  <2>5. Told(q[n + 1]) = Told(q[n])
    BY <2>4 DEF Told
  <2>6. \A i \in 1 .. (n + 1) : i \in 1 .. n \/ i = n + 1
    OBVIOUS
  <2> QED BY <2>1, <2>2, <2>4, <2>5, <2>6
<1>4. Right(Len(s))
  <2> HIDE DEF Right
  <2>1. \A n \in Nat : n \in N => n + 1 \in N
    BY <1>3
  <2>2. Len(s) \in N
    <3> HIDE DEF N
    <3> QED BY <1>0, <1>2, <2>1, AllNaturals
  <2> QED BY <2>2, <1>0
<1> QED BY <1>1, <1>4

\* What is told is the head of the queue, to one profile.
LEMMA EmitDoes ==
    ASSUME NEW h, CRMemory(h), NEW k \in 0 .. Len(h.queue),
           NEW to \in AccountLogins \cup {Nothing}, NEW g, g = CR!NC5EmitReminder(h, k, to)
    PROVE  /\ CRMemory(g)
           /\ g.bound = h.bound /\ g.astray = h.astray
           /\ Queue(g) \subseteq Queue(h)
           /\ \A t \in g.told : t \in h.told \/ (t[1] \in Queue(h) /\ t[2] = to)
           /\ Told(g) \cup Queue(g) = Told(h) \cup Queue(h)
<1>0. /\ h \in CR!Helper /\ Len(h.seen) <= MaxSeen
      /\ h.queue \in Seq(Deals) /\ h.seen \in Seq(Deals) /\ h.forgot \subseteq Deals
      /\ h.told \subseteq Deals \X (AccountLogins \cup {Nothing}) /\ h.astray \subseteq Deals
      /\ h.bound \in AccountLogins /\ Len(h.queue) \in Nat
  BY DEF CRMemory, CR!Helper
<1> DEFINE out == {h.queue[i] : i \in 1 .. k}
           rest == SubSeq(h.queue, k + 1, Len(h.queue))
<1>1. CR!ToSet(SubSeq(h.queue, 1, k)) = out
  <2>1. /\ SubSeq(h.queue, 1, k) \in Seq(Deals) /\ Len(SubSeq(h.queue, 1, k)) = k
        /\ \A i \in 1 .. k : SubSeq(h.queue, 1, k)[i] = h.queue[i]
    BY <1>0
  <2>2. DOMAIN SubSeq(h.queue, 1, k) = 1 .. k
    BY <2>1
  <2> QED BY <2>1, <2>2 DEF CR!ToSet
<1>2. /\ rest \in Seq(Deals) /\ Len(rest) = Len(h.queue) - k
      /\ \A i \in 1 .. Len(rest) : rest[i] = h.queue[k + i]
  BY <1>0
<1>3. g = [bound |-> h.bound, queue |-> rest, seen |-> h.seen,
           told |-> h.told \cup (out \X {to}), forgot |-> h.forgot, astray |-> h.astray]
  <2> HIDE DEF out, rest
  <2>1. g = [h EXCEPT !.queue = rest, !.told = h.told \cup (out \X {to})]
    BY <1>1 DEF CR!NC5EmitReminder, rest
  <2> QED BY <2>1, <1>0 DEF CR!Helper
<1>4. out \subseteq Queue(h) /\ out \subseteq Deals
  BY <1>0 DEF Queue
<1> HIDE DEF out
<1>5. Told(g) = Told(h) \cup out
  <2>1. g.told = h.told \cup (out \X {to})
    BY <1>3
  <2> QED BY <1>4, <2>1 DEF Told
<1>6. \A i \in 1 .. Len(rest) : k + i \in 1 .. Len(h.queue) /\ rest[i] = h.queue[k + i]
  BY <1>0, <1>2
<1>7. g.queue = rest
  BY <1>3
<1> HIDE DEF rest
<1>8. Queue(g) \subseteq Queue(h)
  BY <1>6, <1>7 DEF Queue
<1>9. Queue(h) \subseteq out \cup Queue(g)
  <2> SUFFICES ASSUME NEW i \in 1 .. Len(h.queue) PROVE h.queue[i] \in out \cup Queue(g)
    BY DEF Queue
  <2>1. CASE i <= k
    BY <2>1 DEF out
  <2>2. CASE ~ (i <= k)
    <3>1. i - k \in 1 .. Len(rest) /\ k + (i - k) = i
      BY <2>2, <1>0, <1>2
    <3>2. rest[i - k] = h.queue[i]
      BY <3>1, <1>6
    <3> QED BY <3>1, <3>2, <1>7 DEF Queue
  <2> QED BY <2>1, <2>2
<1>10. Told(g) \cup Queue(g) = Told(h) \cup Queue(h)
  BY <1>4, <1>5, <1>8, <1>9
<1>11. g \in CR!Helper /\ g.seen = h.seen /\ g.forgot = h.forgot
  <2>1. h.told \cup (out \X {to}) \subseteq Deals \X (AccountLogins \cup {Nothing})
    BY <1>0, <1>4
  <2> QED BY <1>0, <1>2, <1>3, <2>1 DEF CR!Helper
<1>12. Queue(g) \cap out \subseteq h.forgot
  <2> SUFFICES ASSUME NEW i \in 1 .. Len(rest), NEW j \in 1 .. k, rest[i] = h.queue[j]
               PROVE  rest[i] \in h.forgot
    BY <1>7 DEF Queue, out
  <2>1. k + i # j /\ j \in 1 .. Len(h.queue) /\ k + i \in 1 .. Len(h.queue)
    BY <1>0, <1>6
  <2>2. h.queue[k + i] = h.queue[j]
    BY <1>6
  <2> QED BY <2>1, <2>2, <1>6 DEF CRMemory
<1>13. Queue(g) \cap Told(g) \subseteq g.forgot
  BY <1>5, <1>8, <1>11, <1>12 DEF CRMemory
<1>14. \A i, j \in 1 .. Len(g.queue) :
          i # j /\ g.queue[i] = g.queue[j] => g.queue[i] \in g.forgot
  <2> SUFFICES ASSUME NEW i \in 1 .. Len(rest), NEW j \in 1 .. Len(rest), i # j,
                      rest[i] = rest[j]
               PROVE  rest[i] \in h.forgot
    BY <1>7, <1>11
  <2>1. k + i # k + j /\ k + i \in 1 .. Len(h.queue) /\ k + j \in 1 .. Len(h.queue)
    BY <1>0, <1>6
  <2>2. h.queue[k + i] = h.queue[k + j]
    BY <1>6
  <2> QED BY <2>1, <2>2, <1>6 DEF CRMemory
<1>15. CRMemory(g)
  <2>1. Seen(g) = Seen(h) /\ Len(g.seen) <= MaxSeen
    BY <1>11, <1>0 DEF Seen
  <2> QED BY <2>1, <1>10, <1>11, <1>13, <1>14 DEF CRMemory
<1>16. \A t \in g.told : t \in h.told \/ (t[1] \in Queue(h) /\ t[2] = to)
  BY <1>3, <1>4
<1>17. g.bound = h.bound /\ g.astray = h.astray
  BY <1>3
<1> QED BY <1>8, <1>10, <1>15, <1>16, <1>17

\* What an open position is, field by field.
LEMMA PlaceTyped ==
    ASSUME CRPlaces, NEW p \in CR!There
    PROVE  /\ p \in Positions /\ position[p] # Nothing /\ position[p] \in CR!Position
           /\ position[p].own \in AccountLogins /\ position[p].more \subseteq Deals
           /\ CR!Opening(p) \in Deals
  BY DEF CRPlaces, CR!There, CR!Position

LEMMA CRInit == CR!Init => CRSound
<1> SUFFICES ASSUME CR!Init PROVE CRSound
  OBVIOUS
<1>1. CR!There = {}
  BY DEF CR!Init, CR!There
<1>2. CRPlaces
  BY <1>1, ReminderAssumption DEF CR!Init, CRPlaces
<1>3. CRHelper
  BY DEF CR!Init, CRHelper
<1> QED BY <1>2, <1>3 DEF CRSound

\* The queue made anew for the account the terminal is on.
LEMMA RefreshDoes ==
    ASSUME CRPlaces, NEW g \in CR!NC5QueueRecentOpenPositions(CR!Bound(login, <<>>))
    PROVE  CRMemory(g) /\ CRAccount(g) /\ CRComplete(g) /\ g.bound = login
<1> DEFINE recent == {p \in CR!There : position[p].own = login /\ position[p].recent}
           S == {CR!Opening(p) : p \in recent}
           h == CR!Bound(login, <<>>)
<1>1. PICK s \in CR!SetToSeqs(S) : g = CR!Queued(h, s)
  BY DEF CR!NC5QueueRecentOpenPositions
<1>2. S \subseteq Deals
  BY PlaceTyped
<1>3. IsFiniteSet(S)
  BY <1>2, ReminderAssumption, FS_Subset
<1>4. s \in Seq(S) /\ \A x \in S : \E i \in 1 .. Len(s) : s[i] = x
  <2> HIDE DEF S
  <2> QED BY <1>3, NamesAll
<1>5. s \in Seq(Deals) /\ \A i \in 1 .. Len(s) : s[i] \in S
  <2> HIDE DEF S
  <2> QED BY <1>2, <1>4
<1>6. /\ h = [bound |-> login, queue |-> <<>>, seen |-> <<>>, told |-> {},
              forgot |-> {}, astray |-> {}]
  BY DEF CR!Bound
<1>7. CRMemory(h) /\ Told(h) = {} /\ Queue(h) = {} /\ h.told = {} /\ h.astray = {}
  <2>1. h \in CR!Helper
    <3>1. login \in AccountLogins /\ <<>> \in Seq(Deals)
      BY DEF CRPlaces
    <3> HIDE DEF h
    <3> QED BY <3>1, <1>6 DEF CR!Helper
  <2>2. Len(h.seen) = 0 /\ Len(h.queue) = 0 /\ h.told = {} /\ h.astray = {}
    BY <1>6
  <2> HIDE DEF h
  <2>3. Told(h) = {} /\ Queue(h) = {} /\ Seen(h) = {}
    BY <2>2 DEF Told, Queue, Seen
  <2> QED BY <2>1, <2>2, <2>3, ReminderAssumption DEF CRMemory
<1>8. /\ CRMemory(g) /\ g.bound = login /\ g.told = {} /\ g.astray = {}
      /\ Queue(g) \subseteq S
      /\ \A i \in 1 .. Len(s) : s[i] \in Told(g) \cup Queue(g)
  <2>1. h.bound = login
    BY <1>6
  <2> HIDE DEF h, S
  <2> QED BY <1>1, <1>5, <1>7, <2>1, QueuedDoes
<1>9. CRAccount(g)
  <2>1. ASSUME NEW x \in S PROVE MadeOn(x, login)
    BY DEF MadeOn, CRPlaces
  <2> HIDE DEF S
  <2> QED BY <1>8, <2>1 DEF CRAccount
<1>10. CRComplete(g)
  <2> SUFFICES ASSUME NEW p \in CR!There, position[p].recent, position[p].own = g.bound
               PROVE  CR!Opening(p) \in Told(g) \cup Queue(g)
    BY DEF CRComplete
  <2>1. CR!Opening(p) \in S
    BY <1>8
  <2> HIDE DEF S
  <2> QED BY <1>4, <1>8, <2>1
<1> QED BY <1>8, <1>9, <1>10

-----------------------------------------------------------------------------
\* Deals are added to a position, none is taken away.
CRGrows ==
    \A q \in CR!There :
        q \in CR!There' /\ position'[q].own = position[q].own
            /\ position[q].more \subseteq position'[q].more

LEMMA MadeOnStays ==
    ASSUME CRGrows, NEW d, NEW l, MadeOn(d, l)
    PROVE  MadeOn(d, l)'
  BY DEF MadeOn, CRGrows

\* A step of the broker is nothing to the helper until it is reported.
LEMMA BrokerStep ==
    ASSUME CRGrows, CRHelper, helper' = helper,
           \A q \in CR!There' :
               position'[q].recent /\ report'[CR!Opening(q)'] = 0 =>
                   /\ q \in CR!There /\ position[q].recent
                   /\ CR!Opening(q)' = CR!Opening(q) /\ report[CR!Opening(q)] = 0
    PROVE  CRHelper'
<1> SUFFICES ASSUME helper # Nothing
             PROVE  CRMemory(helper') /\ CRAccount(helper)' /\ CRComplete(helper)'
  BY DEF CRHelper
<1>1. CRMemory(helper) /\ CRAccount(helper) /\ CRComplete(helper)
  BY DEF CRHelper
<1>2. CRAccount(helper)'
  BY <1>1, MadeOnStays DEF CRAccount
<1>3. CRComplete(helper)'
  <2> SUFFICES ASSUME NEW q \in CR!There', position'[q].recent, report'[CR!Opening(q)'] = 0,
                      position'[q].own = helper.bound
               PROVE  CR!Opening(q)' \in helper.astray \cup Told(helper) \cup Queue(helper)
    BY DEF CRComplete
  <2>1. /\ q \in CR!There /\ position[q].recent
        /\ CR!Opening(q)' = CR!Opening(q) /\ report[CR!Opening(q)] = 0
    OBVIOUS
  <2>2. position[q].own = helper.bound
    BY <2>1 DEF CRGrows
  <2> QED BY <1>1, <2>1, <2>2 DEF CRComplete
<1> QED BY <1>1, <1>2, <1>3

\* A new deal is in no position yet, and its reports are still to come.
LEMMA NewDealDoes ==
    ASSUME CRPlaces, NEW d \in Deals, CR!NewDeal(d)
    PROVE  /\ \A p \in CR!There : d \notin position[p].more
           /\ report' \in [Deals -> 0 .. 2] /\ report'[d] # 0
           /\ \A e \in Deals : e # d => report'[e] = report[e]
<1>1. \A p \in CR!There : d \notin position[p].more
  <2> SUFFICES ASSUME NEW p \in CR!There, d \in position[p].more PROVE FALSE
    OBVIOUS
  <2>1. d \in UNION {position[q].more : q \in CR!There}
    OBVIOUS
  <2>2. d < d
    BY <2>1 DEF CR!NewDeal
  <2> QED BY <2>2, ReminderAssumption
<1>2. PICK n \in 1 .. 2 : report' = [report EXCEPT ![d] = n]
  BY DEF CR!NewDeal
<1> QED BY <1>1, <1>2 DEF CRPlaces

LEMMA OpenStep ==
    ASSUME CRSound, NEW p \in Positions, NEW d \in Deals, CR!Open(p, d)
    PROVE  CRSound'
<1> USE ReminderAssumption
<1>0. CRPlaces /\ CRHelper /\ helper' = helper /\ login' = login
  BY DEF CRSound, CR!Open
<1> DEFINE new == [own |-> login, first |-> d, turn |-> Nothing, more |-> {d},
                   open |-> TRUE, recent |-> TRUE]
<1>1. /\ \A q \in CR!There : d \notin position[q].more
      /\ report' \in [Deals -> 0 .. 2] /\ report'[d] # 0
      /\ \A e \in Deals : e # d => report'[e] = report[e]
  BY <1>0, NewDealDoes DEF CR!Open
<1>2. p \notin CR!There
  BY DEF CR!Open, CR!There
<1>3. new \in CR!Position
  BY <1>0 DEF CR!Position, CRPlaces
<1>4. new # Nothing
  <2> HIDE DEF new
  <2> QED BY <1>3
<1>5. position' = [position EXCEPT ![p] = new]
  BY DEF CR!Open
<1>6. /\ position' \in [Positions -> CR!Position \cup {Nothing}] /\ position'[p] = new
      /\ \A q \in Positions : q # p => position'[q] = position[q]
  <2> HIDE DEF new
  <2> QED BY <1>0, <1>3, <1>5 DEF CRPlaces
<1>7. CR!There' = CR!There \cup {p}
  <2> HIDE DEF new
  <2> QED BY <1>4, <1>6 DEF CR!There
<1>8. /\ \A q \in CR!There : position'[q] = position[q] /\ CR!Opening(q)' = CR!Opening(q)
      /\ CR!Opening(p)' = d
  <2>1. \A q \in CR!There : q \in Positions /\ q # p
    BY <1>2 DEF CR!There
  <2>2. \A q \in CR!There : position'[q] = position[q]
    BY <1>6, <2>1
  <2>3. CR!Opening(p)' = d
    BY <1>6 DEF CR!Opening
  <2> QED BY <2>2, <2>3 DEF CR!Opening
<1>9. position'[p].more = {d} /\ position'[p].own = login
  BY <1>6
<1> HIDE DEF new
<1>10. CRPlaces'
  <2>1. \A q \in CR!There' : CR!Opening(q)' \in position'[q].more
    BY <1>0, <1>7, <1>8, <1>9 DEF CRPlaces
  <2>2. \A q, r \in CR!There' : q # r => position'[q].more \cap position'[r].more = {}
    BY <1>0, <1>1, <1>7, <1>8, <1>9 DEF CRPlaces
  <2>3. login' \in AccountLogins
    BY <1>0 DEF CRPlaces
  <2> QED BY <1>1, <1>6, <2>1, <2>2, <2>3 DEF CRPlaces
<1>11. CRGrows
  BY <1>7, <1>8 DEF CRGrows
<1>12. ASSUME NEW q \in CR!There', position'[q].recent, report'[CR!Opening(q)'] = 0
       PROVE  /\ q \in CR!There /\ position[q].recent
              /\ CR!Opening(q)' = CR!Opening(q) /\ report[CR!Opening(q)] = 0
  <2>1. q # p
    BY <1>1, <1>8, <1>12
  <2>2. q \in CR!There
    BY <2>1, <1>7
  <2>3. CR!Opening(q) \in position[q].more /\ CR!Opening(q) \in Deals
    BY <2>2, <1>0, PlaceTyped DEF CRPlaces
  <2>4. CR!Opening(q) # d
    BY <2>2, <2>3, <1>1
  <2> QED BY <1>1, <1>8, <1>12, <2>2, <2>3, <2>4
<1>13. CRHelper'
  BY <1>0, <1>11, <1>12, BrokerStep
<1> QED BY <1>10, <1>13 DEF CRSound

LEMMA ExtendStep ==
    ASSUME CRSound, NEW p \in Positions, NEW d \in Deals, NEW turns \in BOOLEAN,
           CR!Extend(p, d, turns)
    PROVE  CRSound'
<1> USE ReminderAssumption
<1>0. CRPlaces /\ CRHelper /\ helper' = helper /\ login' = login /\ p \in CR!There
  BY DEF CRSound, CR!Extend
<1>1. /\ \A q \in CR!There : d \notin position[q].more
      /\ report' \in [Deals -> 0 .. 2] /\ report'[d] # 0
      /\ \A e \in Deals : e # d => report'[e] = report[e]
  BY <1>0, NewDealDoes DEF CR!Extend
<1> DEFINE turn2 == IF turns THEN d ELSE position[p].turn
           recent2 == position[p].recent \/ turns
           new == [position[p] EXCEPT !.more = position[p].more \cup {d}, !.turn = turn2,
                                      !.recent = recent2]
<1>2. position' = [position EXCEPT ![p] = new]
  BY DEF CR!Extend
<1>3. recent2 \in BOOLEAN
  BY Zenon
<1>4. turn2 \in Deals \cup {Nothing}
  BY <1>0, PlaceTyped DEF CR!Position
<1>5. position[p] \in CR!Position
  BY <1>0, PlaceTyped
<1>6. /\ new \in CR!Position /\ new.own = position[p].own /\ new.first = position[p].first
      /\ new.more = position[p].more \cup {d} /\ new.turn = turn2 /\ new.recent = recent2
  <2> HIDE DEF turn2, recent2
  <2> QED BY <1>3, <1>4, <1>5 DEF CR!Position
<1>7. new # Nothing
  <2> HIDE DEF new
  <2> QED BY <1>6
<1>8. /\ position' \in [Positions -> CR!Position \cup {Nothing}] /\ position'[p] = new
      /\ \A q \in Positions : q # p => position'[q] = position[q]
  <2> HIDE DEF new
  <2> QED BY <1>0, <1>2, <1>6 DEF CRPlaces
<1>9. CR!There' = CR!There
  <2> HIDE DEF new
  <2> QED BY <1>0, <1>7, <1>8 DEF CR!There
<1>10. \A q \in CR!There : q # p => position'[q] = position[q] /\ CR!Opening(q)' = CR!Opening(q)
  <2>1. \A q \in CR!There : q # p => position'[q] = position[q]
    BY <1>8 DEF CR!There
  <2> QED BY <2>1 DEF CR!Opening
<1>11. CR!Opening(p)' = IF turns THEN d ELSE CR!Opening(p)
  <2>1. d # Nothing
    OBVIOUS
  <2>2. position'[p].turn = turn2 /\ position'[p].first = position[p].first
    <3> HIDE DEF new, turn2
    <3> QED BY <1>6, <1>8
  <2> HIDE DEF new
  <2> QED BY <2>1, <2>2 DEF CR!Opening
<1>12. /\ position'[p].more = position[p].more \cup {d} /\ position'[p].own = position[p].own
       /\ position'[p].recent = recent2
  <2> HIDE DEF new, recent2
  <2> QED BY <1>6, <1>8
<1> HIDE DEF new, turn2
<1>13. CRPlaces'
  <2>1. \A q \in CR!There' : CR!Opening(q)' \in position'[q].more
    BY <1>0, <1>9, <1>10, <1>11, <1>12 DEF CRPlaces
  <2>2. \A q, r \in CR!There' : q # r => position'[q].more \cap position'[r].more = {}
    BY <1>0, <1>1, <1>9, <1>10, <1>12 DEF CRPlaces
  <2>3. login' \in AccountLogins
    BY <1>0 DEF CRPlaces
  <2> QED BY <1>1, <1>8, <2>1, <2>2, <2>3 DEF CRPlaces
<1>14. CRGrows
  BY <1>0, <1>9, <1>10, <1>12 DEF CRGrows
<1>15. ASSUME NEW q \in CR!There', position'[q].recent, report'[CR!Opening(q)'] = 0
       PROVE  /\ q \in CR!There /\ position[q].recent
              /\ CR!Opening(q)' = CR!Opening(q) /\ report[CR!Opening(q)] = 0
  <2>1. q \in CR!There
    BY <1>9
  <2>2. CR!Opening(q) \in position[q].more /\ CR!Opening(q) \in Deals /\ CR!Opening(q) # d
    <3>1. CR!Opening(q) \in position[q].more
      BY <2>1, <1>0 DEF CRPlaces
    <3>2. CR!Opening(q) \in Deals
      BY <2>1, <1>0, PlaceTyped
    <3> QED BY <3>1, <3>2, <2>1, <1>1
  <2>3. CASE q # p
    BY <2>1, <2>2, <2>3, <1>1, <1>10, <1>15
  <2>4. CASE q = p
    <3>1. ~ turns
      BY <2>4, <1>1, <1>11, <1>15
    <3>2. CR!Opening(q)' = CR!Opening(q)
      BY <3>1, <2>4, <1>11
    <3>3. report[CR!Opening(q)] = 0
      BY <3>2, <2>2, <1>1, <1>15
    <3>4. position[q].recent
      BY <3>1, <2>4, <1>12, <1>15
    <3> QED BY <2>1, <3>2, <3>3, <3>4
  <2> QED BY <2>3, <2>4
<1>16. CRHelper'
  BY <1>0, <1>14, <1>15, BrokerStep
<1> QED BY <1>13, <1>16 DEF CRSound

\* A position that is closed, or no longer recent.
LEMMA CalmsStep ==
    ASSUME CRSound, NEW p \in Positions, CR!Close(p) \/ CR!Age(p)
    PROVE  CRSound'
<1>0. /\ CRPlaces /\ CRHelper /\ helper' = helper /\ login' = login /\ report' = report
      /\ p \in CR!There
  BY DEF CRSound, CR!Close, CR!Age
<1>1. position[p] \in CR!Position
  BY <1>0, PlaceTyped
<1>2. PICK o \in BOOLEAN :
          position' = [position EXCEPT ![p] = [position[p] EXCEPT !.open = o, !.recent = FALSE]]
  <2>1. CASE CR!Close(p)
    <3>1. position' = [position EXCEPT ![p] = [position[p] EXCEPT !.open = FALSE, !.recent = FALSE]]
      BY <2>1 DEF CR!Close
    <3> QED BY <3>1
  <2>2. CASE CR!Age(p)
    <3>1. position' = [position EXCEPT ![p] = [position[p] EXCEPT !.recent = FALSE]]
      BY <2>2 DEF CR!Age
    <3>2. /\ position[p].open \in BOOLEAN
          /\ [position[p] EXCEPT !.open = position[p].open, !.recent = FALSE]
                = [position[p] EXCEPT !.recent = FALSE]
      BY <1>1 DEF CR!Position
    <3> QED BY <3>1, <3>2
  <2> QED BY <2>1, <2>2
<1> DEFINE new == [position[p] EXCEPT !.open = o, !.recent = FALSE]
<1>3. /\ new \in CR!Position /\ new.own = position[p].own /\ new.first = position[p].first
      /\ new.more = position[p].more /\ new.turn = position[p].turn /\ ~ new.recent
  BY <1>1 DEF CR!Position
<1> HIDE DEF new
<1>4. /\ position' \in [Positions -> CR!Position \cup {Nothing}] /\ position'[p] = new
      /\ \A q \in Positions : q # p => position'[q] = position[q]
  BY <1>0, <1>2, <1>3 DEF CRPlaces, new
<1>5. CR!There' = CR!There
  BY <1>0, <1>3, <1>4, ReminderAssumption DEF CR!There
<1>6. \A q \in CR!There : CR!Opening(q)' = CR!Opening(q) /\ position'[q].own = position[q].own
                          /\ position'[q].more = position[q].more
  <2>1. \A q \in CR!There : q \in Positions
    BY DEF CR!There
  <2> QED BY <2>1, <1>3, <1>4 DEF CR!Opening
<1>7. CRPlaces'
  BY <1>0, <1>4, <1>5, <1>6 DEF CRPlaces
<1>8. CRGrows
  BY <1>5, <1>6 DEF CRGrows
<1>9. ASSUME NEW q \in CR!There', position'[q].recent, report'[CR!Opening(q)'] = 0
      PROVE  /\ q \in CR!There /\ position[q].recent
             /\ CR!Opening(q)' = CR!Opening(q) /\ report[CR!Opening(q)] = 0
  <2>1. q # p /\ q \in CR!There /\ q \in Positions
    BY <1>3, <1>4, <1>5, <1>9 DEF CR!There
  <2> QED BY <2>1, <1>0, <1>4, <1>6, <1>9
<1>10. CRHelper'
  BY <1>0, <1>8, <1>9, BrokerStep
<1> QED BY <1>7, <1>10 DEF CRSound

\* Nothing of the terminal's positions moves.
LEMMA PlacesStay ==
    ASSUME position' = position
    PROVE  /\ CR!There' = CR!There /\ \A q \in CR!There : CR!Opening(q)' = CR!Opening(q)
           /\ \A d, l : MadeOn(d, l)' <=> MadeOn(d, l)
<1>1. CR!There' = CR!There
  BY DEF CR!There
<1>2. \A q \in CR!There : CR!Opening(q)' = CR!Opening(q)
  BY DEF CR!Opening
<1>3. ASSUME NEW d, NEW l PROVE MadeOn(d, l)' <=> MadeOn(d, l)
  BY <1>1 DEF MadeOn
<1> QED BY <1>1, <1>2, <1>3

\* With the positions as they were and no report less, what holds of the helper's new
\* memory before the step holds after it.
LEMMA HelperStep ==
    ASSUME CRPlaces, position' = position, report' = report, login' = login,
           CRMemory(helper'), CRAccount(helper'), CRComplete(helper')
    PROVE  CRSound'
<1>1. CRPlaces'
  BY PlacesStay DEF CRPlaces
<1>2. CRMemory(helper)'
  OBVIOUS
<1>3. CRAccount(helper)'
  BY PlacesStay DEF CRAccount
<1>4. CRComplete(helper)'
  BY PlacesStay DEF CRComplete
<1> QED BY <1>1, <1>2, <1>3, <1>4 DEF CRSound, CRHelper

LEMMA OnInitStep == CRSound /\ CR!OnInit => CRSound'
<1> SUFFICES ASSUME CRSound, CR!OnInit PROVE CRSound'
  OBVIOUS
<1>1. CRPlaces /\ position' = position /\ report' = report /\ login' = login
  BY DEF CRSound, CR!OnInit
<1>2. helper' \in CR!NC5QueueRecentOpenPositions(CR!Bound(login, <<>>))
  BY DEF CR!OnInit, CR!NC5RefreshAccountIdentity
<1> QED BY <1>1, <1>2, RefreshDoes, HelperStep

LEMMA OnDeinitStep == CRSound /\ CR!OnDeinit => CRSound'
<1> SUFFICES ASSUME CRSound, CR!OnDeinit PROVE CRSound'
  OBVIOUS
<1>1. CRPlaces /\ position' = position /\ login' = login /\ helper' = Nothing
  BY DEF CRSound, CR!OnDeinit
<1>2. report' \in [Deals -> 0 .. 2]
  BY <1>1 DEF CR!OnDeinit, CRPlaces
<1>3. CRPlaces'
  BY <1>1, <1>2, PlacesStay DEF CRPlaces
<1> QED BY <1>1, <1>3 DEF CRSound, CRHelper

LEMMA OnTimerStep == CRSound /\ CR!OnTimer => CRSound'
<1> SUFFICES ASSUME CRSound, CR!OnTimer PROVE CRSound'
  OBVIOUS
<1>0. /\ CRPlaces /\ CRHelper /\ helper # Nothing
      /\ position' = position /\ report' = report /\ login' = login
  BY DEF CRSound, CR!OnTimer
<1>1. PICK h \in CR!NC5RefreshAccountIdentity(helper, FALSE), fresh \in SUBSET AccountLogins :
          helper' \in CR!NC5FlushReminders(h, fresh)
  BY DEF CR!OnTimer
<1>2. CRMemory(h) /\ CRAccount(h) /\ CRComplete(h) /\ h.bound = login
  <2>1. CASE helper.bound = login
    <3>1. h = helper
      BY <2>1, <1>1 DEF CR!NC5RefreshAccountIdentity
    <3> QED BY <2>1, <3>1, <1>0 DEF CRHelper
  <2>2. CASE helper.bound # login
    <3>1. h \in CR!NC5QueueRecentOpenPositions(CR!Bound(login, <<>>))
      BY <2>2, <1>1 DEF CR!NC5RefreshAccountIdentity
    <3> QED BY <3>1, <1>0, RefreshDoes
  <2> QED BY <2>1, <2>2
<1> DEFINE to == CR!NC5LocalForwardIdentity(fresh)
<1>3. to \in {login, Nothing} /\ login \in AccountLogins
  BY <1>0 DEF CR!NC5LocalForwardIdentity, CRPlaces
<1>4. PICK k \in CR!Written(h, to) : helper' = CR!NC5EmitReminder(h, k, to)
  BY <1>1 DEF CR!NC5FlushReminders
<1>5. Len(h.queue) \in Nat
  BY <1>2 DEF CRMemory, CR!Helper
<1>6. k \in 0 .. Len(h.queue)
  BY <1>4, <1>5 DEF CR!Written
<1> HIDE DEF to
<1>7. to \in AccountLogins \cup {Nothing}
  BY <1>3
<1>8. /\ CRMemory(helper') /\ helper'.bound = h.bound /\ helper'.astray = h.astray
      /\ Queue(helper') \subseteq Queue(h)
      /\ \A t \in helper'.told : t \in h.told \/ (t[1] \in Queue(h) /\ t[2] = to)
      /\ Told(helper') \cup Queue(helper') = Told(h) \cup Queue(h)
  BY <1>2, <1>4, <1>6, <1>7, EmitDoes
<1>9. CRAccount(helper')
  <2>1. \A d \in Queue(h) : MadeOn(d, login) \/ d \in h.astray
    BY <1>2 DEF CRAccount
  <2>2. \A d \in Queue(helper') : MadeOn(d, helper'.bound) \/ d \in helper'.astray
    BY <1>2, <1>8, <2>1
  <2>3. ASSUME NEW t \in helper'.told
        PROVE  t[2] = Nothing \/ MadeOn(t[1], t[2]) \/ t[1] \in helper'.astray
    <3>1. CASE t \in h.told
      BY <3>1, <1>2, <1>8 DEF CRAccount
    <3>2. CASE t[1] \in Queue(h) /\ t[2] = to
      BY <3>2, <1>3, <1>8, <2>1
    <3> QED BY <1>8, <3>1, <3>2
  <2> QED BY <2>2, <2>3 DEF CRAccount
<1>10. CRComplete(helper')
  <2> SUFFICES ASSUME NEW p \in CR!There, position[p].recent, report[CR!Opening(p)] = 0,
                      position[p].own = helper'.bound
               PROVE  CR!Opening(p) \in helper'.astray \cup Told(helper') \cup Queue(helper')
    BY DEF CRComplete
  <2>1. CR!Opening(p) \in h.astray \cup Told(h) \cup Queue(h)
    BY <1>2, <1>8 DEF CRComplete
  <2> QED BY <2>1, <1>8
<1> QED BY <1>0, <1>8, <1>9, <1>10, HelperStep

LEMMA OnTradeTransactionStep ==
    ASSUME CRSound, NEW d \in Deals, CR!OnTradeTransaction(d)
    PROVE  CRSound'
<1>0. /\ CRPlaces /\ CRHelper /\ position' = position /\ login' = login
      /\ report' = [report EXCEPT ![d] = report[d] - 1] /\ report[d] > 0
  BY DEF CRSound, CR!OnTradeTransaction
<1>1. CRPlaces'
  <2>1. report' \in [Deals -> 0 .. 2]
    BY <1>0 DEF CRPlaces
  <2> QED BY <2>1, <1>0, PlacesStay DEF CRPlaces
<1>2. CASE helper = Nothing
  <2>1. helper' = Nothing
    BY <1>2 DEF CR!OnTradeTransaction
  <2> QED BY <2>1, <1>1 DEF CRSound, CRHelper
<1>3. CASE helper # Nothing
  <2> DEFINE h == CR!NC5QueueOpeningDeal(helper, d)
  <2>0. CRMemory(helper) /\ CRAccount(helper) /\ CRComplete(helper)
    BY <1>0, <1>3 DEF CRHelper
  <2>1. helper' = IF h.bound = login THEN h ELSE [h EXCEPT !.astray = h.astray \cup {d}]
    BY <1>3 DEF CR!OnTradeTransaction
  <2>2. \/ /\ h = CR!NC5QueueReminder(helper, d)
           /\ MadeOn(d, login)
        \/ /\ h = helper
           /\ \A p \in CR!There : position[p].own = login => CR!Opening(p) # d
    <3>1. CASE \E p \in CR!There : position[p].own = login /\ CR!Opening(p) = d
      BY <3>1, <1>0 DEF CR!NC5QueueOpeningDeal, MadeOn, CRPlaces
    <3>2. CASE ~ \E p \in CR!There : position[p].own = login /\ CR!Opening(p) = d
      BY <3>2 DEF CR!NC5QueueOpeningDeal
    <3> QED BY <3>1, <3>2
  <2> HIDE DEF h
  <2>3. /\ CRMemory(h) /\ h.bound = helper.bound /\ h.told = helper.told
        /\ h.astray = helper.astray /\ Queue(helper) \subseteq Queue(h)
        /\ Queue(h) \subseteq Queue(helper) \cup {d}
        /\ h # helper => MadeOn(d, login) /\ d \in Queue(h) \cup Told(h)
        /\ h = helper => \/ \A p \in CR!There : position[p].own = login => CR!Opening(p) # d
                         \/ d \in Queue(h) \cup Told(h)
    BY <2>0, <2>2, QueueReminderDoes
  <2>4. /\ helper'.bound = h.bound /\ helper'.told = h.told /\ helper'.queue = h.queue
        /\ helper'.seen = h.seen /\ helper'.forgot = h.forgot
        /\ helper'.astray = IF h.bound = login THEN h.astray ELSE h.astray \cup {d}
        /\ helper' \in CR!Helper
    <3>1. h \in CR!Helper
      BY <2>3 DEF CRMemory
    <3> QED BY <2>1, <3>1 DEF CR!Helper
  <2>5. Told(helper') = Told(h) /\ Queue(helper') = Queue(h) /\ Seen(helper') = Seen(h)
    BY <2>4 DEF Told, Queue, Seen
  <2>6. CRMemory(helper')
    BY <2>3, <2>4, <2>5 DEF CRMemory
  <2>7. CRAccount(helper')
    <3>1. ASSUME NEW e \in Queue(helper') PROVE MadeOn(e, helper'.bound) \/ e \in helper'.astray
      <4>1. CASE e \in Queue(helper)
        BY <4>1, <2>0, <2>3, <2>4 DEF CRAccount
      <4>2. CASE e \notin Queue(helper)
        <5>1. e = d /\ h # helper
          BY <4>2, <2>3, <2>5
        <5> QED BY <5>1, <2>3, <2>4
      <4> QED BY <4>1, <4>2
    <3>2. ASSUME NEW t \in helper'.told
          PROVE  t[2] = Nothing \/ MadeOn(t[1], t[2]) \/ t[1] \in helper'.astray
      BY <2>0, <2>3, <2>4 DEF CRAccount
    <3> QED BY <3>1, <3>2 DEF CRAccount
  <2>8. CRAccount(helper)'
    BY <2>7, <1>0, PlacesStay DEF CRAccount
  <2>9. Told(h) = Told(helper)
    BY <2>3 DEF Told
  <2>10. CRComplete(helper)'
    <3> SUFFICES ASSUME NEW p \in CR!There, position[p].recent, report'[CR!Opening(p)] = 0,
                        position[p].own = helper'.bound
                 PROVE  CR!Opening(p) \in helper'.astray \cup Told(helper') \cup Queue(helper')
      BY <1>0, PlacesStay DEF CRComplete
    <3>1. CASE CR!Opening(p) # d
      <4>1. report[CR!Opening(p)] = 0
        BY <3>1, <1>0, PlaceTyped DEF CRPlaces
      <4>2. CR!Opening(p) \in helper.astray \cup Told(helper) \cup Queue(helper)
        BY <4>1, <2>0, <2>3, <2>4 DEF CRComplete
      <4> QED BY <4>2, <2>3, <2>4, <2>5, <2>9
    <3>2. CASE CR!Opening(p) = d
      <4>1. CASE h.bound = login
        BY <4>1, <3>2, <2>3, <2>4, <2>5
      <4>2. CASE h.bound # login
        BY <4>2, <3>2, <2>4
      <4> QED BY <4>1, <4>2
    <3> QED BY <3>1, <3>2
  <2> QED BY <1>1, <2>6, <2>8, <2>10 DEF CRSound, CRHelper
<1> QED BY <1>2, <1>3

LEMMA CRStep == CRSound /\ [CR!Next]_CR!vars => CRSound'
<1> SUFFICES ASSUME CRSound, [CR!Next]_CR!vars PROVE CRSound'
  OBVIOUS
<1>1. ASSUME NEW l \in AccountLogins, CR!SwitchAccount(l) PROVE CRSound'
  <2>1. /\ CRPlaces /\ CRHelper /\ position' = position /\ report' = report
        /\ helper' = helper /\ login' \in AccountLogins
    BY <1>1 DEF CRSound, CR!SwitchAccount
  <2>2. CRPlaces'
    BY <2>1, PlacesStay DEF CRPlaces
  <2>3. CRHelper'
    BY <2>1, PlacesStay DEF CRHelper, CRAccount, CRComplete
  <2> QED BY <2>2, <2>3 DEF CRSound
<1>2. CASE UNCHANGED CR!vars
  <2>1. /\ CRPlaces /\ CRHelper /\ position' = position /\ report' = report
        /\ helper' = helper /\ login' = login
    BY <1>2 DEF CRSound, CR!vars
  <2>2. CRPlaces'
    BY <2>1, PlacesStay DEF CRPlaces
  <2>3. CRHelper'
    BY <2>1, PlacesStay DEF CRHelper, CRAccount, CRComplete
  <2> QED BY <2>2, <2>3 DEF CRSound
<1> QED
  BY <1>1, <1>2, OpenStep, ExtendStep, CalmsStep, OnInitStep, OnDeinitStep, OnTimerStep,
     OnTradeTransactionStep DEF CR!Next

\* What the invariant says of the reminders.
LEMMA CRRight == CRSound => RemindersAreRight
<1> SUFFICES ASSUME CRSound, helper # Nothing PROVE CR!RemindersAreRight
  BY DEF RemindersAreRight, CR!RemindersAreRight
<1>0. /\ CRPlaces /\ CRMemory(helper) /\ CRAccount(helper) /\ CRComplete(helper)
      /\ helper \in CR!Helper /\ helper.told \subseteq Deals \X (AccountLogins \cup {Nothing})
      /\ helper.queue \in Seq(Deals) /\ Len(helper.queue) \in Nat
  BY DEF CRSound, CRHelper, CRMemory, CR!Helper
<1>1. ASSUME NEW d, NEW l \in AccountLogins, MadeOn(d, l) PROVE CR!Own(d) = l
  <2> DEFINE Of(m) == \E p \in CR!There : position[p].own = m /\ d \in position[p].more
  <2>1. Of(l)
    BY <1>1 DEF MadeOn
  <2>2. \A m \in AccountLogins : Of(m) => m = l
    BY <1>0, <2>1 DEF CRPlaces
  <2>3. CR!Own(d) = CHOOSE m \in AccountLogins : Of(m)
    BY DEF CR!Own
  <2> HIDE DEF Of
  <2> QED BY <2>1, <2>2, <2>3
<1>2. \A t \in helper.told : t[2] \in {CR!Own(t[1]), Nothing} \/ t[1] \in helper.astray
  BY <1>0, <1>1 DEF CRAccount
<1>3. \A d \in Deals :
        (\E l \in AccountLogins \cup {Nothing} : <<d, l>> \in helper.told) <=> d \in Told(helper)
  BY DEF Told
<1>4. \A d : CR!Contains(helper.queue, d) <=> d \in Queue(helper)
  BY DEF CR!Contains, Queue
<1>5. \A p \in CR!There :
         (/\ position[p].recent /\ report[CR!Opening(p)] = 0
          /\ position[p].own = login /\ login = helper.bound
          /\ CR!Opening(p) \notin helper.astray)
             => \/ \E l \in AccountLogins \cup {Nothing} : <<CR!Opening(p), l>> \in helper.told
                \/ CR!Contains(helper.queue, CR!Opening(p))
  BY <1>0, <1>3, <1>4, PlaceTyped DEF CRComplete
<1>6. \A d \in Deals \ helper.forgot :
         CR!Contains(helper.queue, d) =>
            ~ \E l \in AccountLogins \cup {Nothing} : <<d, l>> \in helper.told
  BY <1>0, <1>3, <1>4 DEF CRMemory
<1>7. CR!IsInjective(helper.queue) \/ CR!ToSet(helper.queue) \cap helper.forgot # {}
  <2>1. DOMAIN helper.queue = 1 .. Len(helper.queue)
    BY <1>0
  <2> QED BY <1>0, <2>1 DEF CR!IsInjective, CR!ToSet, CRMemory
<1> QED BY <1>2, <1>5, <1>6, <1>7 DEF CR!RemindersAreRight

\* Every opening that was reported is told or waits, under its own account, and once.
THEOREM RemindersAreRightHolds == CR!Spec => []RemindersAreRight
  BY CRInit, CRStep, CRRight, PTL DEF CR!Spec
-----------------------------------------------------------------------------
(* The episodes: NeoTechEngine.  Deal by deal, the one open episode of a    *)
(* position is that position, and there is none of a position that is shut. *)

CEDeal == [pos : Positions, sym : Symbols, side : {1, -1},
           entry : {"IN", "OUT", "OUT_BY", "INOUT"}, vol : Nat \ {0}, price : Int,
           profit : Int, order : Int, ticket : Int, at : Int]
CEEpisode == [pos : Positions, sym : Symbols, dir : {1, -1}, first : Int, offset : Int,
              close : Int, open : BOOLEAN, ticket : Int, order : Int, vol : Nat,
              price : Int, cost : Int, per : Int, profit : Int, adverse : BOOLEAN]
CEHeld == [sym : Symbols \cup {"none"}, dir : {1, 0, -1}, vol : Nat]

\* Episode k is an open one of position p.
OpenOf(es, p) == {k \in DOMAIN es : es[k].open /\ es[k].pos = p}

\* What is open of a position is h, or nothing.
Match(es, p, h) ==
    IF h.vol > 0
    THEN \E k \in OpenOf(es, p) : /\ es[k].sym = h.sym /\ es[k].dir = h.dir /\ es[k].vol = h.vol
                                  /\ OpenOf(es, p) = {k}
    ELSE OpenOf(es, p) = {}

\* The deals lg and the positions hd.
Books(lg, hd) ==
    /\ lg \in Seq(CEDeal) /\ hd \in [Positions -> CEHeld]
    /\ \A p \in Positions : hd[p].vol > 0 =>
           /\ hd[p].sym \in Symbols /\ hd[p].dir \in {1, -1}
           /\ \E i \in DOMAIN lg : lg[i].pos = p
    /\ CE!EpisodesOf(lg) \in Seq(CEEpisode)
    /\ \A p \in Positions : Match(CE!EpisodesOf(lg), p, hd[p])

CESound == clock \in Nat /\ Books(log, held)

-----------------------------------------------------------------------------
(* The recursion over the deals *)

Next2(f, s, k) == CE!TakeDeal(f[k - 1], s[k])

LEMMA EpisodesEquation ==
    ASSUME NEW s, Len(s) \in Nat
    PROVE  \E q : /\ CE!EpisodesOf(s) = q[Len(s)] /\ q[0] = <<>>
                  /\ \A k \in 1 .. Len(s) : q[k] = Next2(q, s, k)
<1> DEFINE Rec(f, n) == [k \in 0 .. n |-> IF k = 0 THEN <<>>
                                          ELSE CE!TakeDeal(f[k - 1], s[k])]
           Some == {n \in Nat : \E f : f = Rec(f, n)}
<1>1. 0 \in Some
  <2> DEFINE f == [k \in 0 .. 0 |-> <<>>]
  <2>1. f = Rec(f, 0)
    <3>1. \A k \in 0 .. 0 : k = 0
      OBVIOUS
    <3> QED BY <3>1
  <2> HIDE DEF Rec, f
  <2> QED BY <2>1
<1>2. ASSUME NEW n \in Nat, n \in Some PROVE n + 1 \in Some
  <2>1. PICK f : f = Rec(f, n)
    BY <1>2
  <2> DEFINE g == [k \in 0 .. (n + 1) |-> IF k = n + 1 THEN Next2(f, s, n + 1) ELSE f[k]]
  <2>2. ASSUME NEW k \in 0 .. (n + 1)
        PROVE  g[k] = IF k = 0 THEN <<>> ELSE CE!TakeDeal(g[k - 1], s[k])
    <3>1. CASE k = n + 1
      <4>1. n \in 0 .. (n + 1) /\ n # n + 1 /\ k # 0 /\ k - 1 = n /\ (n + 1) - 1 = n
        BY <3>1
      <4>2. g[n] = f[n]
        BY <4>1
      <4>3. g[k] = Next2(f, s, k)
        BY <3>1
      <4>4. g[k] = CE!TakeDeal(f[n], s[k])
        BY <4>1, <4>3 DEF Next2
      <4> QED BY <4>1, <4>2, <4>4
    <3>2. CASE k # n + 1 /\ k # 0
      <4>1. k \in 0 .. n /\ k - 1 \in 0 .. (n + 1) /\ k - 1 # n + 1
        BY <3>2
      <4>2. g[k] = f[k] /\ g[k - 1] = f[k - 1]
        BY <3>2, <4>1
      <4>3. f[k] = CE!TakeDeal(f[k - 1], s[k])
        BY <2>1, <4>1, <3>2
      <4> QED BY <3>2, <4>2, <4>3
    <3>3. CASE k = 0
      <4>1. 0 \in 0 .. n /\ 0 # n + 1
        OBVIOUS
      <4>2. f[0] = <<>>
        BY <2>1, <4>1
      <4> QED BY <3>3, <4>1, <4>2
    <3> QED BY <3>1, <3>2, <3>3
  <2>3. g = [k \in 0 .. (n + 1) |-> g[k]]
    OBVIOUS
  <2>4. g = Rec(g, n + 1)
    <3> HIDE DEF g
    <3> QED BY <2>2, <2>3
  <2>5. n + 1 \in Nat
    OBVIOUS
  <2> HIDE DEF g, Rec
  <2> QED BY <2>4, <2>5
<1>3. PICK f : f = Rec(f, Len(s))
  <2> HIDE DEF Some
  <2>1. Len(s) \in Some
    BY <1>1, <1>2, AllNaturals
  <2> QED BY <2>1 DEF Some
<1> DEFINE q == CHOOSE f1 : f1 = [n \in 0 .. Len(s) |->
                                  IF n = 0 THEN <<>> ELSE CE!TakeDeal(f1[n - 1], s[n])]
<1>4. q = [n \in 0 .. Len(s) |-> IF n = 0 THEN <<>> ELSE CE!TakeDeal(q[n - 1], s[n])]
  BY <1>3
<1>5. CE!EpisodesOf(s) = q[Len(s)]
  BY DEF CE!EpisodesOf
<1> HIDE DEF q
<1>6. q[0] = <<>> /\ \A k \in 1 .. Len(s) : q[k] = Next2(q, s, k)
  BY <1>4 DEF Next2
<1> QED BY <1>5, <1>6

\* No deal, no episode.
LEMMA EpisodesOfNone == CE!EpisodesOf(<<>>) = <<>>
<1>1. Len(<<>>) = 0
  OBVIOUS
<1> QED BY <1>1, EpisodesEquation

\* One deal more is one step more.
LEMMA EpisodesOfMore ==
    ASSUME NEW S, NEW l \in Seq(S), NEW d \in S
    PROVE  CE!EpisodesOf(Append(l, d)) = CE!TakeDeal(CE!EpisodesOf(l), d)
<1> DEFINE m == Append(l, d)
<1>1. /\ m \in Seq(S) /\ Len(m) = Len(l) + 1 /\ Len(l) \in Nat /\ Len(m) \in Nat
      /\ m[Len(m)] = d /\ \A k \in 1 .. Len(l) : m[k] = l[k]
  OBVIOUS
<1> HIDE DEF m
<1>2. PICK f : /\ CE!EpisodesOf(l) = f[Len(l)] /\ f[0] = <<>>
               /\ \A k \in 1 .. Len(l) : f[k] = Next2(f, l, k)
  BY <1>1, EpisodesEquation
<1>3. PICK g : /\ CE!EpisodesOf(m) = g[Len(m)] /\ g[0] = <<>>
               /\ \A k \in 1 .. Len(m) : g[k] = Next2(g, m, k)
  BY <1>1, EpisodesEquation
<1> DEFINE N == {n \in Nat : n <= Len(l) => g[n] = f[n]}
<1>4. 0 \in N
  BY <1>2, <1>3
<1>5. ASSUME NEW n \in Nat, n \in N PROVE n + 1 \in N
  <2> SUFFICES ASSUME n + 1 <= Len(l) PROVE g[n + 1] = f[n + 1]
    OBVIOUS
  <2>1. n + 1 \in 1 .. Len(l) /\ n + 1 \in 1 .. Len(m) /\ (n + 1) - 1 = n /\ n <= Len(l)
    BY <1>1
  <2>2. g[n + 1] = CE!TakeDeal(g[n], m[n + 1]) /\ f[n + 1] = CE!TakeDeal(f[n], l[n + 1])
    BY <2>1, <1>2, <1>3 DEF Next2
  <2> QED BY <2>1, <2>2, <1>1, <1>5
<1>6. g[Len(l)] = f[Len(l)]
  <2>1. Len(l) \in N
    <3>1. \A n \in Nat : n \in N => n + 1 \in N
      BY <1>5
    <3> HIDE DEF N
    <3> QED BY <1>1, <1>4, <3>1, AllNaturals
  <2> QED BY <2>1
<1>7. g[Len(m)] = CE!TakeDeal(g[Len(l)], d)
  <2>1. Len(m) \in 1 .. Len(m) /\ Len(m) - 1 = Len(l)
    BY <1>1
  <2> QED BY <2>1, <1>1, <1>3 DEF Next2
<1> QED BY <1>2, <1>3, <1>6, <1>7 DEF m

-----------------------------------------------------------------------------
(* One deal *)

\* Of an episode that is made, and of one that is closed, perhaps in part.
Made(e, d, vol) ==
    /\ e \in CEEpisode /\ e.pos = d.pos /\ e.sym = d.sym /\ e.dir = d.side
    /\ e.vol = vol /\ e.open
Shortened(f, e, vol) ==
    /\ f \in CEEpisode /\ f.pos = e.pos /\ f.sym = e.sym /\ f.dir = e.dir
    /\ vol <= e.vol => f.vol = e.vol - vol
    /\ vol < e.vol => f.open
    /\ vol >= e.vol => ~ f.open

\* The episodes that are made and changed are episodes.
LEMMA EpisodeTyped ==
    ASSUME NEW d \in CEDeal, NEW vol \in Nat, NEW profit \in Int
    PROVE  Made(CE!Episode(d, vol, profit), d, vol)
<1>1. CE!Offset(d.at) \in Int /\ CE!Utc(d.at) \in Int
  BY DEF CE!Offset, CE!Utc, CEDeal
<1> QED BY <1>1 DEF CE!Episode, CEDeal, CEEpisode, Made

LEMMA AddEntryTyped ==
    ASSUME NEW d \in CEDeal, NEW e \in CEEpisode, NEW f, f = CE!AddEntry(e, d)
    PROVE  /\ f \in CEEpisode /\ f.pos = e.pos /\ f.sym = e.sym /\ f.dir = e.dir
           /\ f.vol = e.vol + d.vol /\ f.open = e.open
<1> DEFINE worse == IF e.dir > 0 THEN d.price * e.per < e.cost ELSE d.price * e.per > e.cost
           adverse == e.adverse \/ (worse /\ d.order # e.order)
           cost == e.cost * e.vol + d.price * d.vol * e.per
           per == e.per * (e.vol + d.vol)
<1>1. f = [e EXCEPT !.cost = cost, !.per = per, !.vol = e.vol + d.vol,
                    !.profit = e.profit + d.profit, !.adverse = adverse]
  BY DEF CE!AddEntry
<1>2. adverse \in BOOLEAN
  BY Zenon
<1>3. /\ e.cost \in Int /\ e.vol \in Nat /\ e.per \in Int /\ d.price \in Int
      /\ d.vol \in Nat /\ e.profit \in Int /\ d.profit \in Int
  BY DEF CEDeal, CEEpisode
<1>4. cost \in Int /\ per \in Int
  <2> DEFINE a == e.cost * e.vol
             b == d.price * d.vol
  <2>1. a \in Int /\ b \in Int
    BY <1>3
  <2> HIDE DEF a, b
  <2>2. b * e.per \in Int
    BY <1>3, <2>1
  <2>3. a + b * e.per \in Int
    BY <2>1, <2>2
  <2>4. e.vol + d.vol \in Int
    BY <1>3
  <2>5. per \in Int
    BY <1>3, <2>4
  <2> QED BY <2>3, <2>5 DEF a, b
<1> HIDE DEF adverse, cost, per
<1>5. e.vol + d.vol \in Nat /\ e.profit + d.profit \in Int
  BY <1>3
<1> QED BY ZenonT(60), <1>1, <1>2, <1>4, <1>5 DEF CEEpisode

LEMMA CloseEpisodeTyped ==
    ASSUME NEW d \in CEDeal, NEW e \in CEEpisode, NEW vol \in Nat
    PROVE  Shortened(CE!CloseEpisode(e, d, vol), e, vol)
<1> DEFINE f == CE!CloseEpisode(e, d, vol)
           rest == IF e.vol > vol THEN e.vol - vol ELSE 0
           shut == IF rest = 0 THEN CE!Utc(d.at) ELSE e.close
           open == rest > 0
<1>1. f = [e EXCEPT !.vol = rest, !.profit = e.profit + d.profit, !.open = open, !.close = shut]
  BY DEF CE!CloseEpisode
<1>2. open \in BOOLEAN
  <2>1. CASE rest > 0
    <3>1. open = TRUE
      BY <2>1
    <3> QED BY <3>1
  <2>2. CASE ~ (rest > 0)
    <3>1. open = FALSE
      BY <2>2
    <3> QED BY <3>1
  <2> QED BY <2>1, <2>2
<1>3. CE!Utc(d.at) \in Int
  BY DEF CE!Offset, CE!Utc, CEDeal
<1>4. rest \in Nat /\ shut \in Int /\ e.profit + d.profit \in Int /\ e.vol \in Nat
  BY <1>3 DEF CEDeal, CEEpisode
<1>5. /\ vol <= e.vol => rest = e.vol - vol
      /\ vol < e.vol => open
      /\ vol >= e.vol => ~ open
  BY <1>4
<1> HIDE DEF f, rest, shut, open
<1>6. f \in CEEpisode /\ f.vol = rest /\ f.open = open /\ f.pos = e.pos /\ f.sym = e.sym
      /\ f.dir = e.dir
  BY <1>1, <1>2, <1>4 DEF CEEpisode
<1>7. Shortened(f, e, vol)
  BY <1>5, <1>6 DEF Shortened
<1> QED BY <1>7 DEF f

\* An episode more.
LEMMA Appended ==
    ASSUME NEW es \in Seq(CEEpisode), NEW e \in CEEpisode, e.open, NEW g, g = Append(es, e)
    PROVE  /\ g \in Seq(CEEpisode)
           /\ OpenOf(es, e.pos) = {} => Match(g, e.pos, [sym |-> e.sym, dir |-> e.dir, vol |-> e.vol])
                                        \/ e.vol = 0
           /\ \A p, h : p # e.pos /\ Match(es, p, h) => Match(g, p, h)
<1>1. /\ g \in Seq(CEEpisode) /\ DOMAIN g = 1 .. (Len(es) + 1) /\ DOMAIN es = 1 .. Len(es)
      /\ Len(es) \in Nat /\ g[Len(es) + 1] = e /\ \A k \in 1 .. Len(es) : g[k] = es[k]
  OBVIOUS
<1>2. ASSUME NEW k \in DOMAIN g PROVE k \in DOMAIN es \/ k = Len(es) + 1
  BY <1>1
<1>3. DOMAIN es \subseteq DOMAIN g /\ Len(es) + 1 \in DOMAIN g /\ Len(es) + 1 \notin DOMAIN es
  BY <1>1
<1>4. OpenOf(g, e.pos) = OpenOf(es, e.pos) \cup {Len(es) + 1}
  BY <1>1, <1>2, <1>3 DEF OpenOf
<1>5. \A p : p # e.pos => OpenOf(g, p) = OpenOf(es, p)
  BY <1>1, <1>2, <1>3 DEF OpenOf
<1>6. OpenOf(es, e.pos) = {} => Match(g, e.pos, [sym |-> e.sym, dir |-> e.dir, vol |-> e.vol])
                                \/ e.vol = 0
  <2>1. e.vol \in Nat
    BY DEF CEEpisode
  <2> QED BY <1>1, <1>4, <2>1 DEF Match
<1>7. ASSUME NEW p, NEW h, p # e.pos, Match(es, p, h) PROVE Match(g, p, h)
  <2>1. OpenOf(g, p) = OpenOf(es, p)
    BY <1>5, <1>7
  <2>2. \A k \in OpenOf(es, p) : g[k] = es[k]
    BY <1>1 DEF OpenOf
  <2> QED BY <2>1, <2>2, <1>7 DEF Match
<1> QED BY <1>1, <1>6, <1>7

\* An episode changed: the only open one of its position.
LEMMA Replaced ==
    ASSUME NEW es \in Seq(CEEpisode), NEW k \in DOMAIN es, NEW e \in CEEpisode,
           OpenOf(es, e.pos) = {k}, NEW g, g = [es EXCEPT ![k] = e]
    PROVE  /\ g \in Seq(CEEpisode) /\ g[k] = e
           /\ ~ e.open => OpenOf(g, e.pos) = {}
           /\ e.open /\ e.vol > 0 => Match(g, e.pos, [sym |-> e.sym, dir |-> e.dir, vol |-> e.vol])
           /\ \A p, h : p # e.pos /\ Match(es, p, h) => Match(g, p, h)
<1>0. es[k].pos = e.pos
  BY DEF OpenOf
<1>1. /\ g \in Seq(CEEpisode) /\ DOMAIN g = DOMAIN es /\ g[k] = e
      /\ \A m \in DOMAIN es : m # k => g[m] = es[m]
  OBVIOUS
<1>2. ~ e.open => OpenOf(g, e.pos) = {}
  BY <1>1 DEF OpenOf
<1>3. e.open => OpenOf(g, e.pos) = {k}
  BY <1>1 DEF OpenOf
<1>4. e.open /\ e.vol > 0 => Match(g, e.pos, [sym |-> e.sym, dir |-> e.dir, vol |-> e.vol])
  BY <1>1, <1>3 DEF Match
<1>5. ASSUME NEW p, NEW h, p # e.pos, Match(es, p, h) PROVE Match(g, p, h)
  <2>1. OpenOf(g, p) = OpenOf(es, p)
    BY <1>0, <1>1, <1>5 DEF OpenOf
  <2>2. \A m \in OpenOf(es, p) : g[m] = es[m]
    BY <1>0, <1>1, <1>5 DEF OpenOf
  <2> QED BY <2>1, <2>2, <1>5 DEF Match
<1> QED BY <1>1, <1>2, <1>4, <1>5

\* The open episode a deal finds.
LEMMA CurrentDoes ==
    ASSUME NEW es \in Seq(CEEpisode), NEW d \in CEDeal
    PROVE  /\ OpenOf(es, d.pos) = {} => CE!Current(es, d) = 0
           /\ \A k \in DOMAIN es : OpenOf(es, d.pos) = {k} /\ es[k].sym = d.sym =>
                  CE!Current(es, d) = k /\ k > 0
<1> DEFINE S == {k \in DOMAIN es : es[k].open /\ es[k].pos = d.pos /\ es[k].sym = d.sym}
<1>1. CE!Current(es, d) = IF S = {} THEN 0 ELSE CHOOSE k \in S : \A m \in S : m <= k
  BY DEF CE!Current
<1>2. OpenOf(es, d.pos) = {} => S = {}
  BY DEF OpenOf
<1>3. ASSUME NEW k \in DOMAIN es, OpenOf(es, d.pos) = {k}, es[k].sym = d.sym
      PROVE  CE!Current(es, d) = k /\ k > 0
  <2>1. S = {k}
    BY <1>3 DEF OpenOf
  <2>2. k \in Nat /\ k > 0
    OBVIOUS
  <2> HIDE DEF S
  <2> QED BY <1>1, <2>1, <2>2
<1> QED BY <1>1, <1>2, <1>3

Shut == [sym |-> "none", dir |-> 0, vol |-> 0]

\* A position's first deal.
LEMMA TakeOpens ==
    ASSUME NEW es \in Seq(CEEpisode), NEW d \in CEDeal, d.entry = "IN", OpenOf(es, d.pos) = {},
           NEW g, g = CE!TakeDeal(es, d)
    PROVE  /\ g \in Seq(CEEpisode)
           /\ Match(g, d.pos, [sym |-> d.sym, dir |-> d.side, vol |-> d.vol])
           /\ \A p, h : p # d.pos /\ Match(es, p, h) => Match(g, p, h)
<1> DEFINE e == CE!Episode(d, d.vol, d.profit)
<1>0. d.vol \in Nat /\ d.vol > 0 /\ d.profit \in Int
  BY DEF CEDeal
<1>1. g = Append(es, e)
  <2>1. CE!Current(es, d) = 0
    BY CurrentDoes
  <2> QED BY <2>1 DEF CE!TakeDeal
<1>2. /\ e \in CEEpisode /\ e.pos = d.pos /\ e.sym = d.sym /\ e.dir = d.side
      /\ e.vol = d.vol /\ e.open
  BY <1>0, EpisodeTyped DEF Made
<1> HIDE DEF e
<1>3. /\ g \in Seq(CEEpisode)
      /\ OpenOf(es, e.pos) = {} => Match(g, e.pos, [sym |-> e.sym, dir |-> e.dir, vol |-> e.vol])
                                   \/ e.vol = 0
      /\ \A p, h : p # e.pos /\ Match(es, p, h) => Match(g, p, h)
  BY <1>1, <1>2, Appended
<1> QED BY <1>0, <1>2, <1>3

\* A further entry.
LEMMA TakeAdds ==
    ASSUME NEW es \in Seq(CEEpisode), NEW d \in CEDeal, d.entry = "IN",
           NEW h, Match(es, d.pos, h), h.vol > 0, h.sym = d.sym, h.vol \in Nat,
           NEW g, g = CE!TakeDeal(es, d)
    PROVE  /\ g \in Seq(CEEpisode)
           /\ Match(g, d.pos, [sym |-> h.sym, dir |-> h.dir, vol |-> h.vol + d.vol])
           /\ \A p, i : p # d.pos /\ Match(es, p, i) => Match(g, p, i)
<1>0. d.vol \in Nat /\ d.vol > 0
  BY DEF CEDeal
<1>1. PICK k \in OpenOf(es, d.pos) :
          /\ es[k].sym = h.sym /\ es[k].dir = h.dir /\ es[k].vol = h.vol
          /\ OpenOf(es, d.pos) = {k}
  BY DEF Match
<1>2. k \in DOMAIN es /\ es[k].open /\ es[k].pos = d.pos /\ es[k] \in CEEpisode
  BY <1>1 DEF OpenOf
<1> DEFINE e == CE!AddEntry(es[k], d)
<1>3. g = [es EXCEPT ![k] = e]
  <2>1. CE!Current(es, d) = k /\ k > 0 /\ k # 0
    BY <1>1, <1>2, CurrentDoes
  <2> QED BY <2>1 DEF CE!TakeDeal
<1>4. /\ e \in CEEpisode /\ e.pos = d.pos /\ e.sym = h.sym /\ e.dir = h.dir
      /\ e.vol = h.vol + d.vol /\ e.open
  BY <1>1, <1>2, AddEntryTyped
<1> HIDE DEF e
<1>5. e.vol > 0 /\ OpenOf(es, e.pos) = {k}
  BY <1>0, <1>1, <1>4
<1>6. /\ g \in Seq(CEEpisode) /\ g[k] = e
      /\ ~ e.open => OpenOf(g, e.pos) = {}
      /\ e.open /\ e.vol > 0 => Match(g, e.pos, [sym |-> e.sym, dir |-> e.dir, vol |-> e.vol])
      /\ \A p, i : p # e.pos /\ Match(es, p, i) => Match(g, p, i)
  <2>1. k \in DOMAIN es /\ e \in CEEpisode /\ OpenOf(es, e.pos) = {k} /\ g = [es EXCEPT ![k] = e]
    BY <1>2, <1>3, <1>4, <1>5
  <2> QED BY <2>1, Replaced
<1> QED BY <1>4, <1>5, <1>6

\* A deal that closes all or a part.
LEMMA TakeCloses ==
    ASSUME NEW es \in Seq(CEEpisode), NEW d \in CEDeal, d.entry \in {"OUT", "OUT_BY"},
           NEW h, Match(es, d.pos, h), h.vol > 0, h.sym = d.sym, h.vol \in Nat, d.vol <= h.vol,
           NEW g, g = CE!TakeDeal(es, d)
    PROVE  /\ g \in Seq(CEEpisode)
           /\ d.vol = h.vol => Match(g, d.pos, Shut)
           /\ d.vol < h.vol => Match(g, d.pos, [sym |-> h.sym, dir |-> h.dir, vol |-> h.vol - d.vol])
           /\ \A p, i : p # d.pos /\ Match(es, p, i) => Match(g, p, i)
<1>0. d.vol \in Nat /\ d.vol > 0
  BY DEF CEDeal
<1>1. PICK k \in OpenOf(es, d.pos) :
          /\ es[k].sym = h.sym /\ es[k].dir = h.dir /\ es[k].vol = h.vol
          /\ OpenOf(es, d.pos) = {k}
  BY DEF Match
<1>2. k \in DOMAIN es /\ es[k].open /\ es[k].pos = d.pos /\ es[k] \in CEEpisode
  BY <1>1 DEF OpenOf
<1> DEFINE e == CE!CloseEpisode(es[k], d, d.vol)
<1>3. g = [es EXCEPT ![k] = e]
  <2>1. CE!Current(es, d) = k /\ k > 0 /\ k # 0
    BY <1>1, <1>2, CurrentDoes
  <2> QED BY <2>1 DEF CE!TakeDeal
<1>4. /\ e \in CEEpisode /\ e.pos = d.pos /\ e.sym = h.sym /\ e.dir = h.dir
      /\ e.vol = h.vol - d.vol /\ (d.vol < h.vol => e.open) /\ (d.vol = h.vol => ~ e.open)
  <2>1. Shortened(e, es[k], d.vol)
    BY <1>0, <1>2, CloseEpisodeTyped
  <2> HIDE DEF e
  <2> QED BY <2>1, <1>0, <1>1, <1>2 DEF Shortened
<1> HIDE DEF e
<1>8. OpenOf(es, e.pos) = {k}
  BY <1>1, <1>4
<1>5. /\ g \in Seq(CEEpisode) /\ g[k] = e
      /\ ~ e.open => OpenOf(g, e.pos) = {}
      /\ e.open /\ e.vol > 0 => Match(g, e.pos, [sym |-> e.sym, dir |-> e.dir, vol |-> e.vol])
      /\ \A p, i : p # e.pos /\ Match(es, p, i) => Match(g, p, i)
  BY <1>2, <1>3, <1>4, <1>8, Replaced
<1>6. d.vol = h.vol => Match(g, d.pos, Shut)
  BY <1>4, <1>5 DEF Match, Shut
<1>7. d.vol < h.vol => Match(g, d.pos, [sym |-> h.sym, dir |-> h.dir, vol |-> h.vol - d.vol])
  BY <1>0, <1>4, <1>5
<1> QED BY <1>4, <1>5, <1>6, <1>7

\* A deal of one more than the position's volume turns it around.
LEMMA TakeTurns ==
    ASSUME NEW es \in Seq(CEEpisode), NEW d \in CEDeal, d.entry = "INOUT",
           NEW h, Match(es, d.pos, h), h.vol > 0, h.sym = d.sym, h.vol \in Nat,
           d.vol = h.vol + 1, NEW g, g = CE!TakeDeal(es, d)
    PROVE  /\ g \in Seq(CEEpisode)
           /\ Match(g, d.pos, [sym |-> h.sym, dir |-> d.side, vol |-> 1])
           /\ \A p, i : p # d.pos /\ Match(es, p, i) => Match(g, p, i)
<1>1. PICK k \in OpenOf(es, d.pos) :
          /\ es[k].sym = h.sym /\ es[k].dir = h.dir /\ es[k].vol = h.vol
          /\ OpenOf(es, d.pos) = {k}
  BY DEF Match
<1>2. k \in DOMAIN es /\ es[k].open /\ es[k].pos = d.pos /\ es[k] \in CEEpisode
  BY <1>1 DEF OpenOf
<1> DEFINE e == CE!CloseEpisode(es[k], d, h.vol)
           closed == [es EXCEPT ![k] = e]
           n == CE!Episode(d, 1, 0)
<1>3. g = Append(closed, n)
  <2>1. CE!Current(es, d) = k /\ k > 0 /\ k # 0
    BY <1>1, <1>2, CurrentDoes
  <2>2. g = CE!TurnAround(es, d)
    BY <2>1 DEF CE!TakeDeal
  <2>3. d.vol > h.vol /\ d.vol - h.vol = 1
    OBVIOUS
  <2> QED BY <2>1, <2>2, <2>3, <1>1 DEF CE!TurnAround
<1>4. e \in CEEpisode /\ e.pos = d.pos /\ ~ e.open
  <2>1. Shortened(e, es[k], h.vol)
    BY <1>2, CloseEpisodeTyped
  <2> HIDE DEF e
  <2> QED BY <2>1, <1>1, <1>2 DEF Shortened
<1>5. /\ n \in CEEpisode /\ n.pos = d.pos /\ n.sym = d.sym /\ n.dir = d.side
      /\ n.vol = 1 /\ n.open
  <2>1. Made(n, d, 1)
    BY EpisodeTyped
  <2> QED BY <2>1 DEF Made
<1> HIDE DEF e, n
<1>8. OpenOf(es, e.pos) = {k}
  BY <1>1, <1>4
<1>6. /\ closed \in Seq(CEEpisode) /\ OpenOf(closed, d.pos) = {}
      /\ \A p, i : p # d.pos /\ Match(es, p, i) => Match(closed, p, i)
  <2>1. /\ closed \in Seq(CEEpisode) /\ (~ e.open => OpenOf(closed, e.pos) = {})
        /\ \A p, i : p # e.pos /\ Match(es, p, i) => Match(closed, p, i)
    <3>1. closed = [es EXCEPT ![k] = e]
      OBVIOUS
    <3> HIDE DEF closed
    <3> QED BY <3>1, <1>2, <1>4, <1>8, Replaced
  <2> QED BY <2>1, <1>4
<1> HIDE DEF closed
<1>7. /\ g \in Seq(CEEpisode)
      /\ OpenOf(closed, n.pos) = {} => Match(g, n.pos, [sym |-> n.sym, dir |-> n.dir, vol |-> n.vol])
                                      \/ n.vol = 0
      /\ \A p, i : p # n.pos /\ Match(closed, p, i) => Match(g, p, i)
  BY <1>3, <1>5, <1>6, Appended
<1> QED BY <1>5, <1>6, <1>7
-----------------------------------------------------------------------------
(* One event *)

\* One deal more, and its position is h.
LEMMA OneDeal ==
    ASSUME NEW lg, NEW hd, Books(lg, hd), NEW d \in CEDeal,
           NEW h \in CEHeld, h.vol > 0 => h.sym \in Symbols /\ h.dir \in {1, -1},
           NEW es, es = CE!EpisodesOf(lg), NEW g, g = CE!TakeDeal(es, d),
           g \in Seq(CEEpisode), Match(g, d.pos, h),
           \A p, i : p # d.pos /\ Match(es, p, i) => Match(g, p, i)
    PROVE  Books(Append(lg, d), [hd EXCEPT ![d.pos] = h])
<1> DEFINE l == Append(lg, d)
           b == [hd EXCEPT ![d.pos] = h]
<1>0. lg \in Seq(CEDeal) /\ hd \in [Positions -> CEHeld] /\ d.pos \in Positions
  BY DEF Books, CEDeal
<1>1. /\ l \in Seq(CEDeal) /\ Len(lg) \in Nat /\ DOMAIN lg = 1 .. Len(lg)
      /\ DOMAIN l = 1 .. (Len(lg) + 1) /\ l[Len(lg) + 1] = d
      /\ \A k \in DOMAIN lg : l[k] = lg[k]
  BY <1>0
<1>2. b \in [Positions -> CEHeld] /\ b[d.pos] = h /\ \A p \in Positions : p # d.pos => b[p] = hd[p]
  BY <1>0
<1>3. CE!EpisodesOf(l) = g
  BY <1>0, EpisodesOfMore
<1> HIDE DEF l, b
<1>4. ASSUME NEW p \in Positions, b[p].vol > 0
      PROVE  /\ b[p].sym \in Symbols /\ b[p].dir \in {1, -1}
             /\ \E i \in DOMAIN l : l[i].pos = p
  <2>1. CASE p = d.pos
    <3>1. Len(lg) + 1 \in DOMAIN l
      BY <1>1
    <3> QED BY <2>1, <3>1, <1>1, <1>2, <1>4
  <2>2. CASE p # d.pos
    <3>1. b[p] = hd[p]
      BY <2>2, <1>2
    <3>2. /\ hd[p].sym \in Symbols /\ hd[p].dir \in {1, -1}
          /\ \E i \in DOMAIN lg : lg[i].pos = p
      BY <3>1, <1>4 DEF Books
    <3>3. \A i \in DOMAIN lg : i \in DOMAIN l
      BY <1>1
    <3> QED BY <3>1, <3>2, <3>3, <1>1
  <2> QED BY <2>1, <2>2
<1>5. ASSUME NEW p \in Positions PROVE Match(g, p, b[p])
  <2>1. Match(es, p, hd[p])
    BY DEF Books
  <2>2. CASE p = d.pos
    BY <2>2, <1>2
  <2>3. CASE p # d.pos
    BY <2>1, <2>3, <1>2
  <2> QED BY <2>2, <2>3
<1>6. Books(l, b)
  BY <1>1, <1>2, <1>3, <1>4, <1>5 DEF Books
<1> QED BY <1>6 DEF l, b

\* The position before the deal.
LEMMA PositionIs ==
    ASSUME NEW lg, NEW hd, Books(lg, hd), NEW p \in Positions, hd[p].vol > 0
    PROVE  /\ hd[p] \in CEHeld /\ hd[p].sym \in Symbols /\ hd[p].dir \in {1, -1}
           /\ -hd[p].dir \in {1, -1} /\ hd[p].vol \in Nat
           /\ Len(lg) \in Nat /\ lg[Len(lg)] \in CEDeal
           /\ CE!EpisodesOf(lg) \in Seq(CEEpisode)
           /\ Match(CE!EpisodesOf(lg), p, hd[p])
<1>1. /\ hd[p] \in CEHeld /\ hd[p].sym \in Symbols /\ hd[p].dir \in {1, -1}
      /\ lg \in Seq(CEDeal) /\ \E i \in DOMAIN lg : lg[i].pos = p
  BY DEF Books
<1>2. -hd[p].dir \in {1, -1} /\ hd[p].vol \in Nat
  BY <1>1 DEF CEHeld
<1>3. Len(lg) \in Nat /\ lg[Len(lg)] \in CEDeal
  BY <1>1
<1> QED BY <1>1, <1>2, <1>3 DEF Books

\* The broker's clock.
LEMMA ServerTyped == ASSUME clock \in Nat PROVE CE!Server \in Int
BY EngineAssumption DEF CE!Server

LEMMA OpenPositionKeeps ==
    ASSUME CESound, NEW p \in Positions, NEW s \in Symbols, NEW side \in {1, -1},
           NEW price \in Prices, CE!OpenPosition(p, s, side, price)
    PROVE  CESound'
<1> DEFINE d == [pos |-> p, sym |-> s, side |-> side, entry |-> "IN", vol |-> 2,
                 price |-> price, profit |-> 0, order |-> Len(log) + 1,
                 ticket |-> FirstTicket + Len(log) + 1, at |-> CE!Server]
           h == [sym |-> s, dir |-> side, vol |-> 2]
           es == CE!EpisodesOf(log)
           g == CE!TakeDeal(es, d)
<1>0. Books(log, held) /\ clock \in Nat /\ log \in Seq(CEDeal) /\ es \in Seq(CEEpisode)
  BY DEF CESound, Books
<1>1. /\ log' = Append(log, d) /\ held' = [held EXCEPT ![p] = h] /\ clock' = clock
      /\ CE!Free(p, s)
  BY DEF CE!OpenPosition
<1>2. d \in CEDeal
  <2>1. Len(log) + 1 \in Int /\ FirstTicket + Len(log) + 1 \in Int /\ price \in Int
    BY <1>0, EngineAssumption
  <2>2. CE!Server \in Int
    BY <1>0, ServerTyped
  <2> QED BY <2>1, <2>2 DEF CEDeal
<1>3. OpenOf(es, p) = {}
  <2>1. ~ (held[p].vol > 0)
    <3>1. \A i \in DOMAIN log : log[i].pos # p
      BY <1>1, EngineAssumption DEF CE!Free, CE!Used
    <3> QED BY <3>1, <1>0 DEF Books
  <2> QED BY <2>1, <1>0 DEF Books, Match
<1>4. h \in CEHeld /\ h.sym \in Symbols /\ h.dir \in {1, -1}
  BY DEF CEHeld
<1>d. d.pos = p /\ d.entry = "IN" /\ h = [sym |-> d.sym, dir |-> d.side, vol |-> d.vol]
  OBVIOUS
<1> HIDE DEF d, h
<1>5. /\ g \in Seq(CEEpisode) /\ Match(g, d.pos, h)
      /\ \A q, i : q # d.pos /\ Match(es, q, i) => Match(g, q, i)
  <2> HIDE DEF es, g
  <2>1. g = CE!TakeDeal(es, d) /\ OpenOf(es, d.pos) = {}
    BY <1>d, <1>3 DEF g
  <2>2. /\ g \in Seq(CEEpisode)
        /\ Match(g, d.pos, [sym |-> d.sym, dir |-> d.side, vol |-> d.vol])
        /\ \A q, i : q # d.pos /\ Match(es, q, i) => Match(g, q, i)
    BY <2>1, <1>0, <1>2, <1>d, TakeOpens
  <2> QED BY <2>2, <1>d
<1>6. Books(Append(log, d), [held EXCEPT ![d.pos] = h])
  <2> HIDE DEF es, g
  <2>1. es = CE!EpisodesOf(log) /\ g = CE!TakeDeal(es, d)
    BY DEF es, g
  <2> QED BY <2>1, <1>0, <1>2, <1>4, <1>5, OneDeal
<1> QED BY <1>0, <1>1, <1>6, <1>d DEF CESound

\* What the three kinds of later deals do to a position.
LEMMA BooksAdd ==
    ASSUME NEW lg, NEW hd, Books(lg, hd), NEW d \in CEDeal, hd[d.pos].vol > 0,
           d.sym = hd[d.pos].sym, d.entry = "IN"
    PROVE  Books(Append(lg, d), [hd EXCEPT ![d.pos] = [hd[d.pos] EXCEPT !.vol = @ + d.vol]])
<1> DEFINE c == hd[d.pos]
           h == [sym |-> c.sym, dir |-> c.dir, vol |-> c.vol + d.vol]
           es == CE!EpisodesOf(lg)
           g == CE!TakeDeal(es, d)
<1>0. d.pos \in Positions /\ d.vol \in Nat /\ d.vol > 0
  BY DEF CEDeal
<1>1. /\ c \in CEHeld /\ c.sym \in Symbols /\ c.dir \in {1, -1} /\ c.vol \in Nat
      /\ es \in Seq(CEEpisode) /\ Match(es, d.pos, c) /\ c.vol > 0 /\ c.sym = d.sym
  BY <1>0, PositionIs
<1>2. h \in CEHeld /\ h.sym \in Symbols /\ h.dir \in {1, -1}
  BY <1>0, <1>1 DEF CEHeld
<1>3. h = [c EXCEPT !.vol = @ + d.vol]
  BY <1>1 DEF CEHeld
<1> HIDE DEF c, es
<1>4. /\ g \in Seq(CEEpisode) /\ Match(g, d.pos, h)
      /\ \A p, i : p # d.pos /\ Match(es, p, i) => Match(g, p, i)
  <2>1. g = CE!TakeDeal(es, d)
    OBVIOUS
  <2> HIDE DEF g
  <2> QED BY <2>1, <1>1, TakeAdds
<1> HIDE DEF h
<1>5. Books(Append(lg, d), [hd EXCEPT ![d.pos] = h])
  <2>1. es = CE!EpisodesOf(lg) /\ g = CE!TakeDeal(es, d)
    BY DEF es
  <2> HIDE DEF g
  <2> QED BY <2>1, <1>2, <1>4, OneDeal
<1> QED BY <1>3, <1>5 DEF c

Lessened(h, vol) == IF vol = h.vol THEN Shut ELSE [h EXCEPT !.vol = @ - vol]

LEMMA BooksClose ==
    ASSUME NEW lg, NEW hd, Books(lg, hd), NEW d \in CEDeal, hd[d.pos].vol > 0,
           d.sym = hd[d.pos].sym, d.entry \in {"OUT", "OUT_BY"}, d.vol <= hd[d.pos].vol
    PROVE  Books(Append(lg, d), [hd EXCEPT ![d.pos] = Lessened(hd[d.pos], d.vol)])
<1> DEFINE c == hd[d.pos]
           h == IF d.vol = c.vol THEN Shut ELSE [c EXCEPT !.vol = @ - d.vol]
           es == CE!EpisodesOf(lg)
           g == CE!TakeDeal(es, d)
<1>0. d.pos \in Positions /\ d.vol \in Nat /\ d.vol > 0
  BY DEF CEDeal
<1>1. /\ c \in CEHeld /\ c.sym \in Symbols /\ c.dir \in {1, -1} /\ c.vol \in Nat
      /\ es \in Seq(CEEpisode) /\ Match(es, d.pos, c) /\ c.vol > 0 /\ c.sym = d.sym
      /\ d.vol <= c.vol
  BY <1>0, PositionIs
<1>2. /\ h \in CEHeld /\ (h.vol > 0 => h.sym \in Symbols /\ h.dir \in {1, -1})
      /\ d.vol # c.vol => h = [sym |-> c.sym, dir |-> c.dir, vol |-> c.vol - d.vol]
      /\ d.vol = c.vol => h = Shut
  <2>1. CASE d.vol = c.vol
    <3>1. Shut \in CEHeld /\ Shut.vol = 0
      BY DEF CEHeld, Shut
    <3> QED BY <2>1, <3>1
  <2>2. CASE d.vol # c.vol
    <3>1. h = [c EXCEPT !.vol = @ - d.vol] /\ c.vol - d.vol \in Nat
      BY <2>2, <1>0, <1>1
    <3> QED BY <2>2, <3>1, <1>1 DEF CEHeld
  <2> QED BY <2>1, <2>2
<1> HIDE DEF c, es, h
<1>4. /\ g \in Seq(CEEpisode) /\ Match(g, d.pos, h)
      /\ \A p, i : p # d.pos /\ Match(es, p, i) => Match(g, p, i)
  <2>1. g = CE!TakeDeal(es, d)
    OBVIOUS
  <2> HIDE DEF g
  <2>2. /\ g \in Seq(CEEpisode)
        /\ d.vol = c.vol => Match(g, d.pos, Shut)
        /\ d.vol < c.vol => Match(g, d.pos, [sym |-> c.sym, dir |-> c.dir, vol |-> c.vol - d.vol])
        /\ \A p, i : p # d.pos /\ Match(es, p, i) => Match(g, p, i)
    BY <2>1, <1>1, TakeCloses
  <2>3. d.vol = c.vol \/ d.vol < c.vol
    BY <1>0, <1>1
  <2>4. Match(g, d.pos, h)
    BY <2>2, <2>3, <1>2
  <2> QED BY <2>2, <2>4
<1>5. Books(Append(lg, d), [hd EXCEPT ![d.pos] = h])
  <2>1. es = CE!EpisodesOf(lg) /\ g = CE!TakeDeal(es, d)
    BY DEF es
  <2> HIDE DEF g
  <2> QED BY <2>1, <1>2, <1>4, OneDeal
<1> QED BY <1>5 DEF h, c, Lessened

LEMMA BooksTurn ==
    ASSUME NEW lg, NEW hd, Books(lg, hd), NEW d \in CEDeal, hd[d.pos].vol > 0,
           d.sym = hd[d.pos].sym, d.entry = "INOUT", d.vol = hd[d.pos].vol + 1,
           d.side = -hd[d.pos].dir
    PROVE  Books(Append(lg, d), [hd EXCEPT ![d.pos] = [hd[d.pos] EXCEPT !.dir = d.side, !.vol = 1]])
<1> DEFINE c == hd[d.pos]
           h == [sym |-> c.sym, dir |-> d.side, vol |-> 1]
           es == CE!EpisodesOf(lg)
           g == CE!TakeDeal(es, d)
<1>0. d.pos \in Positions
  BY DEF CEDeal
<1>1. /\ c \in CEHeld /\ c.sym \in Symbols /\ c.dir \in {1, -1} /\ c.vol \in Nat
      /\ es \in Seq(CEEpisode) /\ Match(es, d.pos, c) /\ c.vol > 0 /\ c.sym = d.sym
      /\ -c.dir \in {1, -1} /\ d.vol = c.vol + 1 /\ d.side = -c.dir
  BY <1>0, PositionIs
<1>2. h \in CEHeld /\ h.sym \in Symbols /\ h.dir \in {1, -1}
  BY <1>1 DEF CEHeld
<1>3. h = [c EXCEPT !.dir = d.side, !.vol = 1]
  <2> DEFINE f == [c EXCEPT !.dir = d.side]
  <2>1. f = [sym |-> c.sym, dir |-> d.side, vol |-> c.vol]
    BY <1>1 DEF CEHeld
  <2>2. [c EXCEPT !.dir = d.side, !.vol = 1] = [f EXCEPT !.vol = 1]
    BY <1>1 DEF CEHeld
  <2> HIDE DEF f, c
  <2> QED BY <2>1, <2>2
<1> HIDE DEF c, es
<1>4. /\ g \in Seq(CEEpisode) /\ Match(g, d.pos, h)
      /\ \A p, i : p # d.pos /\ Match(es, p, i) => Match(g, p, i)
  <2>1. g = CE!TakeDeal(es, d)
    OBVIOUS
  <2> HIDE DEF g
  <2> QED BY <2>1, <1>1, TakeTurns
<1> HIDE DEF h
<1>5. Books(Append(lg, d), [hd EXCEPT ![d.pos] = h])
  <2>1. es = CE!EpisodesOf(lg) /\ g = CE!TakeDeal(es, d)
    BY DEF es
  <2> HIDE DEF g
  <2> QED BY <2>1, <1>2, <1>4, OneDeal
<1> QED BY <1>3, <1>5 DEF c

\* A deal of a position that is held.
Filled(d, p, entry, side, vol) ==
    /\ d \in CEDeal /\ d.pos = p /\ d.sym = held[p].sym /\ d.side = side
    /\ d.entry = entry /\ d.vol = vol

LEMMA FillTyped ==
    ASSUME CESound, NEW p \in Positions, CE!IsHeld(p),
           NEW entry \in {"IN", "OUT", "OUT_BY", "INOUT"}, NEW side \in {1, -1},
           NEW vol \in Nat \ {0}, NEW price \in Int, NEW profit \in Int, NEW order \in Int
    PROVE  Filled(CE!Fill(p, entry, side, vol, price, profit, order), p, entry, side, vol)
<1>1. held[p].sym \in Symbols /\ Len(log) \in Nat
  BY PositionIs DEF CESound, CE!IsHeld
<1>2. FirstTicket + Len(log) + 1 \in Int
  BY <1>1, EngineAssumption
<1>3. CE!Server \in Int
  BY ServerTyped DEF CESound
<1> QED BY <1>1, <1>2, <1>3 DEF CE!Fill, CEDeal, Filled

LEMMA IncreaseKeeps ==
    ASSUME CESound, NEW p \in Positions, NEW price \in Prices, NEW same \in BOOLEAN,
           CE!Increase(p, price, same)
    PROVE  CESound'
<1> DEFINE order == IF same THEN log[Len(log)].order ELSE Len(log) + 1
           d == CE!Fill(p, "IN", held[p].dir, 1, price, 0, order)
           h == [held[p] EXCEPT !.vol = @ + d.vol]
<1>1. /\ CE!IsHeld(p) /\ held' = [held EXCEPT ![p].vol = @ + 1]
      /\ log' = Append(log, d) /\ clock' = clock
  BY DEF CE!Increase
<1>0. /\ clock \in Nat /\ Books(log, held) /\ held[p].vol > 0 /\ held[p].dir \in {1, -1}
      /\ Len(log) \in Nat /\ log[Len(log)] \in CEDeal /\ held \in [Positions -> CEHeld]
  BY <1>1, PositionIs DEF CESound, CE!IsHeld, Books
<1>2. order \in Int /\ price \in Int
  BY <1>0, EngineAssumption DEF CEDeal
<1> HIDE DEF order
<1>3. d \in CEDeal /\ d.pos = p /\ d.sym = held[p].sym /\ d.entry = "IN" /\ d.vol = 1
  <2>1. /\ "IN" \in {"IN", "OUT", "OUT_BY", "INOUT"} /\ held[p].dir \in {1, -1} /\ 1 \in Nat \ {0}
        /\ price \in Int /\ 0 \in Int /\ order \in Int
    BY <1>0, <1>2
  <2>2. Filled(CE!Fill(p, "IN", held[p].dir, 1, price, 0, order), p, "IN", held[p].dir, 1)
    BY <2>1, <1>1, FillTyped
  <2> QED BY <2>2 DEF Filled
<1> HIDE DEF d
<1>4. Books(Append(log, d), [held EXCEPT ![d.pos] = [held[d.pos] EXCEPT !.vol = @ + d.vol]])
  BY <1>0, <1>3, BooksAdd
<1>5. held' = [held EXCEPT ![d.pos] = [held[d.pos] EXCEPT !.vol = @ + d.vol]]
  BY <1>0, <1>1, <1>3 DEF CEHeld
<1> QED BY <1>0, <1>1, <1>4, <1>5 DEF CESound

LEMMA ReduceKeeps ==
    ASSUME CESound, NEW p \in Positions, NEW vol \in {1, held[p].vol}, NEW profit \in Profits,
           CE!Reduce(p, vol, profit)
    PROVE  CESound'
<1> DEFINE d == CE!Fill(p, "OUT", -held[p].dir, vol, 1, profit, Len(log) + 1)
<1>1. /\ CE!IsHeld(p) /\ vol <= held[p].vol /\ log' = Append(log, d) /\ clock' = clock
      /\ held' = IF vol = held[p].vol THEN [held EXCEPT ![p] = Shut]
                 ELSE [held EXCEPT ![p].vol = @ - vol]
  BY DEF CE!Reduce, CE!Flat, Shut
<1>0. /\ clock \in Nat /\ Books(log, held) /\ held[p].vol > 0 /\ -held[p].dir \in {1, -1}
      /\ Len(log) \in Nat /\ held[p].vol \in Nat
  BY <1>1, PositionIs DEF CESound, CE!IsHeld, Books
<1>2. vol \in Nat \ {0} /\ profit \in Int /\ Len(log) + 1 \in Int
  BY <1>0, EngineAssumption
<1>3. d \in CEDeal /\ d.pos = p /\ d.sym = held[p].sym /\ d.entry = "OUT" /\ d.vol = vol
  <2>1. /\ "OUT" \in {"IN", "OUT", "OUT_BY", "INOUT"} /\ -held[p].dir \in {1, -1} /\ vol \in Nat \ {0}
        /\ 1 \in Int /\ profit \in Int /\ Len(log) + 1 \in Int
    BY <1>0, <1>2
  <2>2. Filled(CE!Fill(p, "OUT", -held[p].dir, vol, 1, profit, Len(log) + 1), p, "OUT", -held[p].dir, vol)
    BY <2>1, <1>1, FillTyped
  <2> QED BY <2>2 DEF Filled
<1> HIDE DEF d
<1>4. Books(Append(log, d), [held EXCEPT ![d.pos] = Lessened(held[d.pos], d.vol)])
  BY <1>0, <1>1, <1>3, BooksClose
<1>5. held' = [held EXCEPT ![d.pos] = Lessened(held[d.pos], d.vol)]
  BY <1>1, <1>3 DEF Lessened
<1> QED BY <1>0, <1>1, <1>4, <1>5 DEF CESound

LEMMA ReversePositionKeeps ==
    ASSUME CESound, NEW p \in Positions, NEW profit \in Profits, CE!ReversePosition(p, profit)
    PROVE  CESound'
<1> DEFINE side == -held[p].dir
           d == CE!Fill(p, "INOUT", side, held[p].vol + 1, 1, profit, Len(log) + 1)
<1>1. /\ CE!IsHeld(p) /\ held' = [held EXCEPT ![p].dir = -@, ![p].vol = 1]
      /\ log' = Append(log, d) /\ clock' = clock
  BY DEF CE!ReversePosition
<1>0. /\ clock \in Nat /\ Books(log, held) /\ held[p].vol > 0 /\ side \in {1, -1}
      /\ Len(log) \in Nat /\ held[p].vol \in Nat
  BY <1>1, PositionIs DEF CESound, CE!IsHeld, Books
<1>2. held[p].vol + 1 \in Nat \ {0} /\ profit \in Int /\ Len(log) + 1 \in Int
  BY <1>0, EngineAssumption
<1>6. held' = [held EXCEPT ![p] = [held[p] EXCEPT !.dir = side, !.vol = 1]]
  BY <1>0, <1>1
<1> HIDE DEF side
<1>3. /\ d \in CEDeal /\ d.pos = p /\ d.sym = held[p].sym /\ d.entry = "INOUT"
      /\ d.vol = held[p].vol + 1 /\ d.side = side
  <2>1. /\ "INOUT" \in {"IN", "OUT", "OUT_BY", "INOUT"} /\ side \in {1, -1} /\ held[p].vol + 1 \in Nat \ {0}
        /\ 1 \in Int /\ profit \in Int /\ Len(log) + 1 \in Int
    BY <1>0, <1>2
  <2>2. Filled(CE!Fill(p, "INOUT", side, held[p].vol + 1, 1, profit, Len(log) + 1), p, "INOUT", side, held[p].vol + 1)
    BY <2>1, <1>1, FillTyped
  <2> QED BY <2>2 DEF Filled
<1> HIDE DEF d
<1>4. Books(Append(log, d), [held EXCEPT ![d.pos] = [held[d.pos] EXCEPT !.dir = d.side, !.vol = 1]])
  BY <1>0, <1>3, BooksTurn DEF side
<1>5. held' = [held EXCEPT ![d.pos] = [held[d.pos] EXCEPT !.dir = d.side, !.vol = 1]]
  BY <1>3, <1>6
<1> QED BY <1>0, <1>1, <1>4, <1>5 DEF CESound

LEMMA CloseByKeeps ==
    ASSUME CESound, NEW p \in Positions, NEW q \in Positions, NEW profit \in Profits,
           CE!CloseBy(p, q, profit)
    PROVE  CESound'
<1> DEFINE d == CE!Fill(p, "OUT_BY", -held[p].dir, held[p].vol, 1, profit, Len(log) + 1)
           f == CE!Fill(q, "OUT_BY", -held[q].dir, held[q].vol, 1, 0, Len(log) + 1)
           e == [f EXCEPT !.ticket = @ + 1]
           m == Append(log, d)
           b == [held EXCEPT ![p] = Shut]
<1>1. /\ CE!IsHeld(p) /\ CE!IsHeld(q) /\ p # q /\ clock' = clock
      /\ log' = log \o <<d, e>> /\ held' = [held EXCEPT ![p] = Shut, ![q] = Shut]
  BY DEF CE!CloseBy, CE!Flat, Shut
<1>0. /\ clock \in Nat /\ Books(log, held) /\ held[p].vol > 0 /\ -held[p].dir \in {1, -1}
      /\ held[q].vol > 0 /\ -held[q].dir \in {1, -1} /\ held[q].vol \in Nat
      /\ Len(log) \in Nat /\ held[p].vol \in Nat /\ log \in Seq(CEDeal)
      /\ held \in [Positions -> CEHeld]
  BY <1>1, PositionIs DEF CESound, CE!IsHeld, Books
<1>2. held[p].vol \in Nat \ {0} /\ held[q].vol \in Nat \ {0} /\ profit \in Int /\ Len(log) + 1 \in Int
  BY <1>0, EngineAssumption
<1>3. d \in CEDeal /\ d.pos = p /\ d.sym = held[p].sym /\ d.entry = "OUT_BY" /\ d.vol = held[p].vol
  BY <1>0, <1>1, <1>2, FillTyped DEF Filled
<1>4. f \in CEDeal /\ f.pos = q /\ f.sym = held[q].sym /\ f.entry = "OUT_BY" /\ f.vol = held[q].vol
  BY <1>0, <1>1, <1>2, FillTyped DEF Filled
<1> HIDE DEF d, f
<1>5. e \in CEDeal /\ e.pos = q /\ e.sym = held[q].sym /\ e.entry = "OUT_BY" /\ e.vol = held[q].vol
  BY <1>4 DEF CEDeal
<1> HIDE DEF e
<1>6. Books(m, b)
  <2>0. d.vol <= held[d.pos].vol /\ d.entry \in {"OUT", "OUT_BY"} /\ held[d.pos].vol > 0
    BY <1>0, <1>3
  <2>1. Books(Append(log, d), [held EXCEPT ![d.pos] = Lessened(held[d.pos], d.vol)])
    BY <2>0, <1>0, <1>3, BooksClose
  <2> QED BY <2>1, <1>3 DEF Lessened
<1>7. b[q] = held[q] /\ log \o <<d, e>> = Append(m, e)
  BY <1>0, <1>1, <1>3, <1>5
<1>8. held' = [b EXCEPT ![q] = Shut]
  BY <1>1, <1>0
<1> HIDE DEF m, b
<1>9. Books(Append(m, e), [b EXCEPT ![q] = Shut])
  <2>1. Books(Append(m, e), [b EXCEPT ![e.pos] = Lessened(b[e.pos], e.vol)])
    BY SMTT(60), <1>0, <1>5, <1>6, <1>7, BooksClose
  <2> QED BY <2>1, <1>5, <1>7 DEF Lessened
<1> QED BY <1>0, <1>1, <1>7, <1>8, <1>9 DEF CESound

LEMMA CEStep ==
    ASSUME CESound, [CE!Next]_(CE!vars) PROVE CESound'
<1>1. CASE UNCHANGED <<held, log, clock>>
  BY <1>1 DEF CESound
<1>2. CASE \E p \in Positions : \E s \in Symbols, side \in {1, -1}, price \in Prices :
              CE!OpenPosition(p, s, side, price)
  BY <1>2, OpenPositionKeeps
<1>3. CASE \E p \in Positions : \E price \in Prices, same \in BOOLEAN : CE!Increase(p, price, same)
  BY <1>3, IncreaseKeeps
<1>4. CASE \E p \in Positions : \E vol \in {1, held[p].vol}, profit \in Profits : CE!Reduce(p, vol, profit)
  BY <1>4, ReduceKeeps
<1>5. CASE \E p \in Positions : \E profit \in Profits : CE!ReversePosition(p, profit)
  BY <1>5, ReversePositionKeeps
<1>6. CASE \E p \in Positions : \E q \in Positions, profit \in Profits : CE!CloseBy(p, q, profit)
  BY <1>6, CloseByKeeps
<1>7. CASE \E f \in Flows : CE!MoveCash(f)
  BY <1>7, <1>1 DEF CE!MoveCash
<1>8. CASE \E loss \in Losses : CE!Sync(loss)
  BY <1>8, <1>1 DEF CE!Sync, CE!account
<1>9. CASE \E w \in Delays : CE!Wait(w)
  <2>1. held' = held /\ log' = log /\ clock' \in Nat
    BY <1>9, EngineAssumption DEF CE!Wait, CE!account, CESound
  <2> QED BY <2>1 DEF CESound
<1>10. CASE UNCHANGED CE!vars
  BY <1>10, <1>1 DEF CE!vars, CE!account
<1> QED BY <1>2, <1>3, <1>4, <1>5, <1>6, <1>7, <1>8, <1>9, <1>10 DEF CE!Next

LEMMA CEStart == CE!Init => CESound
<1> SUFFICES ASSUME CE!Init PROVE CESound
  OBVIOUS
<1>1. log = <<>> /\ held = [p \in Positions |-> Shut] /\ clock = Start
  BY DEF CE!Init, CE!Flat, Shut
<1>2. Shut \in CEHeld /\ ~ (Shut.vol > 0)
  BY DEF CEHeld, Shut
<1>3. CE!EpisodesOf(log) = <<>> /\ log \in Seq(CEDeal) /\ <<>> \in Seq(CEEpisode)
  BY <1>1, EpisodesOfNone
<1>4. \A p \in Positions : OpenOf(<<>>, p) = {}
  BY DEF OpenOf
<1>5. Books(log, held)
  BY <1>1, <1>2, <1>3, <1>4 DEF Books, Match
<1>6. clock \in Nat
  BY <1>1, EngineAssumption
<1> QED BY <1>5, <1>6 DEF CESound

-----------------------------------------------------------------------------
(* The engine's order *)

\* A deal that goes before another does not come after it.
LEMMA BeforeIsAsymmetric ==
    ASSUME log \in Seq(CEDeal), NEW i \in DOMAIN log, NEW j \in DOMAIN log, CE!Before(i, j)
    PROVE  ~ CE!Before(j, i)
<1>1. /\ log[i].ticket \in Int /\ log[j].ticket \in Int
      /\ CE!Utc(log[i].at) \in Int /\ CE!Utc(log[j].at) \in Int
  <2>1. log[i] \in CEDeal /\ log[j] \in CEDeal
    OBVIOUS
  <2>2. ASSUME NEW d \in CEDeal PROVE d.ticket \in Int /\ CE!Utc(d.at) \in Int
    <3>1. d.at \in Int /\ d.ticket \in Int
      BY DEF CEDeal
    <3> QED BY <3>1 DEF CE!Utc, CE!Offset
  <2> QED BY <2>1, <2>2
<1> QED BY <1>1 DEF CE!Before, CE!TextBefore

\* A history that is whole and in order is sorted as it is.
LEMMA SortedIsLog ==
    ASSUME log \in Seq(CEDeal), CE!Whole, CE!InOrder
    PROVE  CE!SortedDeals = log
<1> DEFINE n == Len(log)
           Earlier(i) == {j \in 1 .. n : CE!Before(j, i)}
<1>1. /\ n \in Nat /\ DOMAIN log = 1 .. n /\ log = [k \in 1 .. n |-> log[k]]
  OBVIOUS
<1>2. CE!SentDeals = 1 .. n
  BY <1>1 DEF CE!Whole
<1>3. CE!SortedDeals = [k \in 1 .. CE!Cardinality(1 .. n) |->
          log[CHOOSE i \in 1 .. n : CE!Cardinality(Earlier(i)) = k - 1]]
  BY <1>2 DEF CE!SortedDeals
<1>4. \A S : CE!Cardinality(S) = Cardinality(S)
  BY Zenon DEF CE!Cardinality, Cardinality
<1> HIDE DEF n
<1>5. ASSUME NEW i \in 1 .. n PROVE Earlier(i) = 1 .. (i - 1)
  <2>1. \A j, k \in 1 .. n : j < k => CE!Before(j, k)
    BY <1>2 DEF CE!InOrder
  <2>2. \A j, k \in 1 .. n : CE!Before(j, k) => ~ CE!Before(k, j)
    BY <1>1, BeforeIsAsymmetric
  <2>3. ASSUME NEW j \in 1 .. n PROVE CE!Before(j, i) <=> j < i
    <3>1. j < i \/ j = i \/ i < j
      BY <1>1
    <3> QED BY <3>1, <2>1, <2>2
  <2>4. \A j \in 1 .. (i - 1) : j \in 1 .. n /\ j < i
    BY <1>1
  <2>5. \A j \in 1 .. n : j < i => j \in 1 .. (i - 1)
    BY <1>1
  <2> QED BY <2>3, <2>4, <2>5
<1>6. ASSUME NEW i \in 1 .. n PROVE Cardinality(Earlier(i)) = i - 1
  <2>1. Cardinality(1 .. (i - 1)) = i - 1
    <3>1. i - 1 \in Nat /\ 1 \in Int /\ i - 1 \in Int
      BY <1>1
    <3>2. Cardinality(1 .. (i - 1)) = IF 1 > i - 1 THEN 0 ELSE (i - 1) - 1 + 1
      BY <3>1, FS_Interval
    <3> QED BY <3>1, <3>2
  <2> QED BY <2>1, <1>5
<1>7. Cardinality(1 .. n) = n
  <2>0. n \in Int /\ 1 \in Int
    BY <1>1
  <2>1. Cardinality(1 .. n) = IF 1 > n THEN 0 ELSE n - 1 + 1
    BY <2>0, FS_Interval
  <2> QED BY <2>1, <1>1
<1>8. ASSUME NEW k \in 1 .. n
      PROVE  (CHOOSE i \in 1 .. n : CE!Cardinality(Earlier(i)) = k - 1) = k
  <2> DEFINE P(i) == CE!Cardinality(Earlier(i)) = k - 1
  <2>1. \A i \in 1 .. n : P(i) <=> i = k
    <3>1. \A i \in 1 .. n : CE!Cardinality(Earlier(i)) = i - 1
      BY <1>4, <1>6
    <3> HIDE DEF Earlier
    <3> QED BY <3>1, <1>1
  <2> HIDE DEF P
  <2>2. (CHOOSE i \in 1 .. n : P(i)) = k
    BY <2>1
  <2> QED BY <2>2 DEF P
<1>9. CE!SortedDeals = [k \in 1 .. n |-> log[k]]
  <2> HIDE DEF Earlier
  <2> QED BY <1>3, <1>4, <1>7, <1>8
<1> QED BY <1>1, <1>9

\* What the invariant says of the episodes a snapshot is judged by.
LEMMA CESoundMatches == CESound => EpisodesMatchBroker
<1> SUFFICES ASSUME CESound, CE!Whole, CE!InOrder, NEW p \in Positions
             PROVE  LET es == CE!NormalizeEpisodes IN
                    {[sym |-> es[k].sym, dir |-> es[k].dir, vol |-> es[k].vol] :
                         k \in {m \in DOMAIN es : es[m].open /\ es[m].pos = p}}
                    = IF CE!IsHeld(p) THEN {held[p]} ELSE {}
  BY DEF EpisodesMatchBroker, CE!EpisodesMatchBroker
<1> DEFINE es == CE!EpisodesOf(log)
           what(k) == [sym |-> es[k].sym, dir |-> es[k].dir, vol |-> es[k].vol]
<1>1. CE!NormalizeEpisodes = es
  BY SortedIsLog DEF CESound, Books, CE!NormalizeEpisodes
<1>2. Match(es, p, held[p]) /\ held[p] \in CEHeld
  BY DEF CESound, Books
<1> HIDE DEF es
<1>3. {what(k) : k \in OpenOf(es, p)} = IF CE!IsHeld(p) THEN {held[p]} ELSE {}
  <2>1. CASE held[p].vol > 0
    <3>1. PICK k \in OpenOf(es, p) :
              /\ es[k].sym = held[p].sym /\ es[k].dir = held[p].dir /\ es[k].vol = held[p].vol
              /\ OpenOf(es, p) = {k}
      BY <2>1, <1>2 DEF Match
    <3>2. what(k) = held[p]
      BY <3>1, <1>2 DEF CEHeld
    <3> HIDE DEF what
    <3> QED BY <2>1, <3>1, <3>2 DEF CE!IsHeld
  <2>2. CASE ~ (held[p].vol > 0)
    BY <2>2, <1>2 DEF CE!IsHeld, Match
  <2> QED BY <2>1, <2>2
<1> QED BY <1>1, <1>3 DEF OpenOf

\* Whenever the history reaches the engine whole and in order, the open episodes are the
\* broker's positions, for any positions, symbols and volumes and any number of deals whose
\* tickets stay below 100.
THEOREM EpisodesMatchBrokerHolds == CE!Spec => []EpisodesMatchBroker
<1>1. CE!Init => CESound
  BY CEStart
<1>2. CESound /\ [CE!Next]_(CE!vars) => CESound'
  BY CEStep
<1>3. CESound => EpisodesMatchBroker
  BY CESoundMatches
<1> QED BY <1>1, <1>2, <1>3, PTL DEF CE!Spec

-----------------------------------------------------------------------------
(* Where an episode comes from.  The deals lg are numbered and dated in      *)
(* their order, none after now; an episode begins with the deal its ticket   *)
(* names, the first of its position or one that turned it around, and ends   *)
(* with a later one; and the profits of the episodes are those of the deals. *)

Arisen(lg, e) ==
    LET j == e.ticket - FirstTicket IN
    /\ j \in DOMAIN lg /\ lg[j].pos = e.pos /\ lg[j].sym = e.sym
    /\ lg[j].entry \in {"IN", "INOUT"}
    /\ e.first = CE!Utc(lg[j].at) /\ e.offset = CE!Offset(lg[j].at)
    /\ lg[j].entry = "IN" => \A i \in 1 .. j - 1 : lg[i].pos # lg[j].pos
    /\ ~ e.open => \E c \in DOMAIN lg : j <= c /\ e.close = CE!Utc(lg[c].at)

Numbered(lg, now) ==
    /\ \A i \in DOMAIN lg : lg[i].ticket = FirstTicket + i /\ lg[i].at <= now
    /\ \A i, j \in DOMAIN lg : i <= j => lg[i].at <= lg[j].at

Origin(lg, es) == \A k \in DOMAIN es : Arisen(lg, es[k])

\* A position has one symbol.
OneSymbol(lg) == \A i, j \in DOMAIN lg : lg[i].pos = lg[j].pos => lg[i].sym = lg[j].sym

\* What is the same of e and f: all that a deal after the first leaves alone.
Alike2(f, e) ==
    /\ f.ticket = e.ticket /\ f.first = e.first /\ f.offset = e.offset
    /\ f.pos = e.pos /\ f.sym = e.sym

\* The deal d finds a new position, or one that is open.
Fits(lg, es, d) ==
    \/ d.entry = "IN" /\ OpenOf(es, d.pos) = {} /\ \A i \in DOMAIN lg : lg[i].pos # d.pos
    \/ \E k \in DOMAIN es : OpenOf(es, d.pos) = {k} /\ es[k].sym = d.sym

\* What has begun stays so, whatever comes after it.
LEMMA BegunStays ==
    ASSUME NEW lg \in Seq(CEDeal), NEW d \in CEDeal, NEW e \in CEEpisode, Arisen(lg, e)
    PROVE  Arisen(Append(lg, d), e)
<1> DEFINE l == Append(lg, d)
           j == e.ticket - FirstTicket
<1>1. /\ Len(lg) \in Nat /\ DOMAIN lg = 1 .. Len(lg) /\ DOMAIN l = 1 .. (Len(lg) + 1)
      /\ \A k \in DOMAIN lg : l[k] = lg[k] /\ k \in DOMAIN l
  OBVIOUS
<1>2. j \in DOMAIN lg /\ \A i \in 1 .. j - 1 : i \in DOMAIN lg
  BY <1>1 DEF Arisen
<1> HIDE DEF l
<1>3. Arisen(l, e)
  BY <1>1, <1>2 DEF Arisen
<1> QED BY <1>3 DEF l

\* An episode that begins with the deal.
LEMMA BeginsNow ==
    ASSUME NEW lg \in Seq(CEDeal), NEW d \in CEDeal, d.ticket = FirstTicket + Len(lg) + 1,
           d.entry = "INOUT" \/ (d.entry = "IN" /\ \A i \in DOMAIN lg : lg[i].pos # d.pos),
           NEW vol \in Nat, NEW profit \in Int
    PROVE  Arisen(Append(lg, d), CE!Episode(d, vol, profit))
<1> DEFINE l == Append(lg, d)
           e == CE!Episode(d, vol, profit)
           j == e.ticket - FirstTicket
<1>1. /\ Len(lg) \in Nat /\ DOMAIN lg = 1 .. Len(lg) /\ DOMAIN l = 1 .. (Len(lg) + 1)
      /\ l[Len(lg) + 1] = d /\ \A k \in DOMAIN lg : l[k] = lg[k]
  OBVIOUS
<1>2. /\ e.ticket = d.ticket /\ e.pos = d.pos /\ e.sym = d.sym /\ e.open
      /\ e.first = CE!Utc(d.at) /\ e.offset = CE!Offset(d.at)
  BY DEF CE!Episode
<1> HIDE DEF l, e
<1>3. j = Len(lg) + 1
  BY <1>1, <1>2, EngineAssumption
<1>4. \A i \in 1 .. (Len(lg) + 1) - 1 : i \in DOMAIN lg
  BY <1>1
<1>5. Arisen(l, e)
  BY <1>1, <1>2, <1>3, <1>4 DEF Arisen
<1> QED BY <1>5 DEF l, e

LEMMA AddEntryBegun ==
    ASSUME NEW lg \in Seq(CEDeal), NEW d \in CEDeal, NEW e \in CEEpisode, Arisen(lg, e), e.open
    PROVE  Arisen(Append(lg, d), CE!AddEntry(e, d))
<1> DEFINE f == CE!AddEntry(e, d)
<1>1. Alike2(f, e) /\ f.open
  BY DEF CE!AddEntry, CEEpisode, Alike2
<1>2. Arisen(Append(lg, d), e)
  BY BegunStays
<1> HIDE DEF f
<1>3. Arisen(Append(lg, d), f)
  BY <1>1, <1>2 DEF Arisen, Alike2
<1> QED BY <1>3 DEF f

LEMMA CloseEpisodeBegun ==
    ASSUME NEW lg \in Seq(CEDeal), NEW d \in CEDeal, NEW e \in CEEpisode, Arisen(lg, e), e.open,
           NEW vol \in Nat
    PROVE  Arisen(Append(lg, d), CE!CloseEpisode(e, d, vol))
<1> DEFINE f == CE!CloseEpisode(e, d, vol)
           l == Append(lg, d)
           rest == IF e.vol > vol THEN e.vol - vol ELSE 0
<1>1. Alike2(f, e) /\ (rest > 0 => f.open) /\ (rest = 0 => f.close = CE!Utc(d.at))
  BY DEF CE!CloseEpisode, CEEpisode, Alike2
<1>2. rest \in Nat
  BY DEF CEEpisode
<1>3. Arisen(l, e)
  BY BegunStays
<1>4. /\ Len(lg) + 1 \in DOMAIN l /\ l[Len(lg) + 1] = d
      /\ \A j \in DOMAIN l : j <= Len(lg) + 1
  OBVIOUS
<1> HIDE DEF f, l, rest
<1>5. ~ f.open => f.close = CE!Utc(d.at)
  BY <1>1, <1>2
<1>6. Arisen(l, f)
  BY <1>1, <1>3, <1>4, <1>5 DEF Arisen, Alike2
<1> QED BY <1>6 DEF f, l

-----------------------------------------------------------------------------
(* Sums *)

Term(S, f, k) == IF k \in S THEN f[k] ELSE 0
Step2(q, S, f, k) == q[k - 1] + Term(S, f, k)

LEMMA SumEquation ==
    ASSUME NEW n \in Nat, NEW S, NEW f
    PROVE  \E q : /\ CE!SumOf(n, S, f) = q[n] /\ q[0] = 0 + Term(S, f, 0)
                  /\ \A k \in 1 .. n : q[k] = Step2(q, S, f, k)
<1> DEFINE Rec(g, m) == [k \in 0 .. m |-> (IF k = 0 THEN 0 ELSE g[k - 1]) + (IF k \in S THEN f[k] ELSE 0)]
           Some == {m \in Nat : \E g : g = Rec(g, m)}
<1>1. 0 \in Some
  <2> DEFINE g == [k \in 0 .. 0 |-> 0 + (IF k \in S THEN f[k] ELSE 0)]
  <2>1. g = Rec(g, 0)
    <3>1. \A k \in 0 .. 0 : k = 0
      OBVIOUS
    <3> QED BY <3>1
  <2> HIDE DEF Rec, g
  <2> QED BY <2>1
<1>2. ASSUME NEW m \in Nat, m \in Some PROVE m + 1 \in Some
  <2>1. PICK h : h = Rec(h, m)
    BY <1>2
  <2> DEFINE g == [k \in 0 .. (m + 1) |-> IF k = m + 1 THEN h[m] + (IF m + 1 \in S THEN f[m + 1] ELSE 0)
                                          ELSE h[k]]
  <2>2. ASSUME NEW k \in 0 .. (m + 1)
        PROVE  g[k] = (IF k = 0 THEN 0 ELSE g[k - 1]) + (IF k \in S THEN f[k] ELSE 0)
    <3>1. CASE k = m + 1
      <4>1. m \in 0 .. (m + 1) /\ m # m + 1 /\ k # 0 /\ k - 1 = m
        BY <3>1
      <4>2. g[m] = h[m]
        BY <4>1
      <4>3. g[k] = h[m] + (IF k \in S THEN f[k] ELSE 0)
        BY <3>1
      <4> QED BY <4>1, <4>2, <4>3
    <3>2. CASE k # m + 1 /\ k # 0
      <4>1. k \in 0 .. m /\ k - 1 \in 0 .. (m + 1) /\ k - 1 # m + 1
        BY <3>2
      <4>2. g[k] = h[k] /\ g[k - 1] = h[k - 1]
        BY <3>2, <4>1
      <4>3. h[k] = h[k - 1] + (IF k \in S THEN f[k] ELSE 0)
        BY <2>1, <4>1, <3>2
      <4> QED BY <3>2, <4>2, <4>3
    <3>3. CASE k = 0
      <4>1. 0 \in 0 .. m /\ 0 # m + 1
        OBVIOUS
      <4>2. h[0] = 0 + (IF 0 \in S THEN f[0] ELSE 0)
        BY <2>1, <4>1
      <4> QED BY <3>3, <4>1, <4>2
    <3> QED BY <3>1, <3>2, <3>3
  <2>3. g = [k \in 0 .. (m + 1) |-> g[k]]
    OBVIOUS
  <2>4. g = Rec(g, m + 1)
    <3> HIDE DEF g
    <3> QED BY <2>2, <2>3
  <2>5. m + 1 \in Nat
    OBVIOUS
  <2> HIDE DEF g, Rec
  <2> QED BY <2>4, <2>5
<1>3. PICK g : g = Rec(g, n)
  <2> HIDE DEF Some
  <2>1. n \in Some
    BY <1>1, <1>2, AllNaturals
  <2> QED BY <2>1 DEF Some
<1> DEFINE q == CHOOSE q1 : q1 = [k \in 0 .. n |-> (IF k = 0 THEN 0 ELSE q1[k - 1])
                                                   + (IF k \in S THEN f[k] ELSE 0)]
<1>4. q = [k \in 0 .. n |-> (IF k = 0 THEN 0 ELSE q[k - 1]) + (IF k \in S THEN f[k] ELSE 0)]
  BY <1>3
<1>5. CE!SumOf(n, S, f) = q[n]
  BY DEF CE!SumOf
<1> HIDE DEF q
<1>6. q[0] = 0 + Term(S, f, 0) /\ \A k \in 1 .. n : q[k] = Step2(q, S, f, k)
  BY <1>4 DEF Term, Step2
<1> QED BY <1>5, <1>6

\* One number more is one term more.
LEMMA SumMore ==
    ASSUME NEW S, NEW f
    PROVE  /\ CE!SumOf(0, S, f) = 0 + Term(S, f, 0)
           /\ \A n \in Nat : CE!SumOf(n + 1, S, f) = CE!SumOf(n, S, f) + Term(S, f, n + 1)
<1>1. CE!SumOf(0, S, f) = 0 + Term(S, f, 0)
  BY SumEquation
<1>2. ASSUME NEW n \in Nat
      PROVE  CE!SumOf(n + 1, S, f) = CE!SumOf(n, S, f) + Term(S, f, n + 1)
  <2>1. PICK g : /\ CE!SumOf(n, S, f) = g[n] /\ g[0] = 0 + Term(S, f, 0)
                 /\ \A k \in 1 .. n : g[k] = Step2(g, S, f, k)
    BY SumEquation
  <2>2. PICK h : /\ CE!SumOf(n + 1, S, f) = h[n + 1] /\ h[0] = 0 + Term(S, f, 0)
                 /\ \A k \in 1 .. (n + 1) : h[k] = Step2(h, S, f, k)
    <3>1. n + 1 \in Nat
      OBVIOUS
    <3> QED BY <3>1, SumEquation
  <2> DEFINE N == {k \in Nat : k <= n => h[k] = g[k]}
  <2>3. 0 \in N
    BY <2>1, <2>2
  <2>4. ASSUME NEW k \in Nat, k \in N PROVE k + 1 \in N
    <3> SUFFICES ASSUME k + 1 <= n PROVE h[k + 1] = g[k + 1]
      OBVIOUS
    <3>1. k + 1 \in 1 .. n /\ k + 1 \in 1 .. (n + 1) /\ (k + 1) - 1 = k /\ k <= n
      OBVIOUS
    <3>2. g[k + 1] = g[k] + Term(S, f, k + 1) /\ h[k + 1] = h[k] + Term(S, f, k + 1)
      BY <3>1, <2>1, <2>2 DEF Step2
    <3> QED BY <3>1, <3>2, <2>4
  <2>5. h[n] = g[n]
    <3>1. n \in N
      <4> HIDE DEF N
      <4> QED BY <2>3, <2>4, AllNaturals
    <3> QED BY <3>1
  <2>6. n + 1 \in 1 .. (n + 1) /\ (n + 1) - 1 = n
    OBVIOUS
  <2>7. h[n + 1] = h[n] + Term(S, f, n + 1)
    BY <2>2, <2>6 DEF Step2
  <2> QED BY <2>1, <2>2, <2>5, <2>7
<1> QED BY <1>1, <1>2

\* The terms of f over S are numbers, up to n.
Numbers2(n, S, f) == \A k \in 0 .. n : Term(S, f, k) \in Int

LEMMA SumTyped ==
    ASSUME NEW n \in Nat, NEW S, NEW f, Numbers2(n, S, f)
    PROVE  CE!SumOf(n, S, f) \in Int
<1> DEFINE N == {k \in Nat : k <= n => CE!SumOf(k, S, f) \in Int}
<1>1. 0 \in N
  <2>1. Term(S, f, 0) \in Int
    BY DEF Numbers2
  <2> QED BY <2>1, SumMore
<1>2. ASSUME NEW k \in Nat, k \in N PROVE k + 1 \in N
  <2> SUFFICES ASSUME k + 1 <= n PROVE CE!SumOf(k + 1, S, f) \in Int
    OBVIOUS
  <2>1. Term(S, f, k + 1) \in Int
    BY DEF Numbers2
  <2>2. CE!SumOf(k, S, f) \in Int
    BY <1>2
  <2>3. CE!SumOf(k + 1, S, f) = CE!SumOf(k, S, f) + Term(S, f, k + 1)
    BY SumMore
  <2> QED BY <2>1, <2>2, <2>3
<1>3. n \in N
  <2> HIDE DEF N
  <2> QED BY <1>1, <1>2, AllNaturals
<1> QED BY <1>3

\* Sums add up when their terms do.
LEMMA SumsAdd ==
    ASSUME NEW n \in Nat, NEW S, NEW f, NEW T, NEW g, NEW U, NEW h,
           Numbers2(n, S, f), Numbers2(n, T, g),
           \A k \in 0 .. n : Term(U, h, k) = Term(S, f, k) + Term(T, g, k)
    PROVE  CE!SumOf(n, U, h) = CE!SumOf(n, S, f) + CE!SumOf(n, T, g)
<1> DEFINE N == {k \in Nat : k <= n => CE!SumOf(k, U, h) = CE!SumOf(k, S, f) + CE!SumOf(k, T, g)}
<1>1. 0 \in N
  <2>1. Term(S, f, 0) \in Int /\ Term(T, g, 0) \in Int /\ Term(U, h, 0) = Term(S, f, 0) + Term(T, g, 0)
    BY DEF Numbers2
  <2>2. /\ CE!SumOf(0, S, f) = 0 + Term(S, f, 0) /\ CE!SumOf(0, T, g) = 0 + Term(T, g, 0)
        /\ CE!SumOf(0, U, h) = 0 + Term(U, h, 0)
    BY SumMore
  <2> QED BY <2>1, <2>2
<1>2. ASSUME NEW k \in Nat, k \in N PROVE k + 1 \in N
  <2> SUFFICES ASSUME k + 1 <= n
               PROVE  CE!SumOf(k + 1, U, h) = CE!SumOf(k + 1, S, f) + CE!SumOf(k + 1, T, g)
    OBVIOUS
  <2>1. /\ Term(S, f, k + 1) \in Int /\ Term(T, g, k + 1) \in Int
        /\ Term(U, h, k + 1) = Term(S, f, k + 1) + Term(T, g, k + 1)
    BY DEF Numbers2
  <2>2. /\ CE!SumOf(k + 1, S, f) = CE!SumOf(k, S, f) + Term(S, f, k + 1)
        /\ CE!SumOf(k + 1, T, g) = CE!SumOf(k, T, g) + Term(T, g, k + 1)
        /\ CE!SumOf(k + 1, U, h) = CE!SumOf(k, U, h) + Term(U, h, k + 1)
    BY SumMore
  <2>3. CE!SumOf(k, U, h) = CE!SumOf(k, S, f) + CE!SumOf(k, T, g)
    BY <1>2
  <2>4. CE!SumOf(k, S, f) \in Int /\ CE!SumOf(k, T, g) \in Int
    <3>1. Numbers2(k, S, f) /\ Numbers2(k, T, g)
      BY DEF Numbers2
    <3> QED BY <3>1, SumTyped
  <2> QED BY <2>1, <2>2, <2>3, <2>4
<1>3. n \in N
  <2> HIDE DEF N
  <2> QED BY <1>1, <1>2, AllNaturals
<1> QED BY <1>3

\* Sums of the same terms are the same.
LEMMA SumsAgree ==
    ASSUME NEW n \in Nat, NEW S, NEW f, NEW T, NEW g,
           \A k \in 0 .. n : Term(S, f, k) = Term(T, g, k)
    PROVE  CE!SumOf(n, S, f) = CE!SumOf(n, T, g)
<1> DEFINE N == {k \in Nat : k <= n => CE!SumOf(k, S, f) = CE!SumOf(k, T, g)}
<1>1. 0 \in N
  <2>1. Term(S, f, 0) = Term(T, g, 0)
    OBVIOUS
  <2> QED BY <2>1, SumMore
<1>2. ASSUME NEW k \in Nat, k \in N PROVE k + 1 \in N
  <2> SUFFICES ASSUME k + 1 <= n PROVE CE!SumOf(k + 1, S, f) = CE!SumOf(k + 1, T, g)
    OBVIOUS
  <2>1. Term(S, f, k + 1) = Term(T, g, k + 1) /\ CE!SumOf(k, S, f) = CE!SumOf(k, T, g)
    BY <1>2
  <2>2. /\ CE!SumOf(k + 1, S, f) = CE!SumOf(k, S, f) + Term(S, f, k + 1)
        /\ CE!SumOf(k + 1, T, g) = CE!SumOf(k, T, g) + Term(T, g, k + 1)
    BY SumMore
  <2> QED BY <2>1, <2>2
<1>3. n \in N
  <2> HIDE DEF N
  <2> QED BY <1>1, <1>2, AllNaturals
<1> QED BY <1>3

\* A number that is twice itself is none.
LEMMA TwiceItself == ASSUME NEW x \in Int, x = x + x PROVE x = 0
  OBVIOUS

\* A sum without terms.
LEMMA SumOfNone ==
    ASSUME NEW n \in Nat, NEW S, NEW f, \A k \in 0 .. n : Term(S, f, k) = 0
    PROVE  CE!SumOf(n, S, f) = 0
<1>1. Numbers2(n, S, f) /\ \A k \in 0 .. n : Term(S, f, k) = Term(S, f, k) + Term(S, f, k)
  BY DEF Numbers2
<1>2. CE!SumOf(n, S, f) = CE!SumOf(n, S, f) + CE!SumOf(n, S, f)
  BY <1>1, SumsAdd
<1>3. CE!SumOf(n, S, f) \in Int
  BY <1>1, SumTyped
<1> DEFINE sum == CE!SumOf(n, S, f)
<1>4. sum \in Int /\ sum = sum + sum
  BY <1>2, <1>3
<1> HIDE DEF sum
<1>5. sum = 0
  BY <1>4, TwiceItself
<1> QED BY <1>5 DEF sum

\* A sum of one term.
LEMMA SumOfOne ==
    ASSUME NEW n \in Nat, NEW S, NEW f, NEW m \in 0 .. n, Term(S, f, m) \in Int,
           \A k \in 0 .. n : k # m => Term(S, f, k) = 0
    PROVE  CE!SumOf(n, S, f) = Term(S, f, m)
<1> DEFINE N == {k \in Nat : k <= n => CE!SumOf(k, S, f) = IF k < m THEN 0 ELSE Term(S, f, m)}
<1>1. 0 \in N
  <2>1. m > 0 => Term(S, f, 0) = 0
    OBVIOUS
  <2>2. CE!SumOf(0, S, f) = 0 + Term(S, f, 0)
    BY SumMore
  <2>3. CASE m > 0
    BY <2>1, <2>2, <2>3
  <2>4. CASE m = 0
    BY <2>2, <2>4
  <2> QED BY <2>3, <2>4
<1>2. ASSUME NEW k \in Nat, k \in N PROVE k + 1 \in N
  <2> SUFFICES ASSUME k + 1 <= n
               PROVE  CE!SumOf(k + 1, S, f) = IF k + 1 < m THEN 0 ELSE Term(S, f, m)
    OBVIOUS
  <2>1. CE!SumOf(k, S, f) = IF k < m THEN 0 ELSE Term(S, f, m)
    BY <1>2
  <2>2. CE!SumOf(k + 1, S, f) = CE!SumOf(k, S, f) + Term(S, f, k + 1)
    BY SumMore
  <2>3. CASE k + 1 = m
    BY <2>1, <2>2, <2>3
  <2>4. CASE k + 1 # m
    <3>1. Term(S, f, k + 1) = 0
      BY <2>4
    <3> QED BY <2>1, <2>2, <2>4, <3>1
  <2> QED BY <2>3, <2>4
<1>3. n \in N
  <2> HIDE DEF N
  <2> QED BY <1>1, <1>2, AllNaturals
<1> QED BY <1>3

\* The profit of all the deals, or of all the episodes, of s.
Total(s) == CE!SumOf(Len(s), DOMAIN s, CE!ProfitOf(s))
Earning(R) == \A r \in R : r.profit \in Int

LEMMA Earners == Earning(CEDeal) /\ Earning(CEEpisode)
BY DEF Earning, CEDeal, CEEpisode

\* The terms of a total.
LEMMA ProfitTerms ==
    ASSUME NEW R, Earning(R), NEW s \in Seq(R), NEW k \in Nat
    PROVE  /\ k \in 1 .. Len(s) => Term(DOMAIN s, CE!ProfitOf(s), k) = s[k].profit /\ s[k].profit \in Int
           /\ k \notin 1 .. Len(s) => Term(DOMAIN s, CE!ProfitOf(s), k) = 0
           /\ Term(DOMAIN s, CE!ProfitOf(s), k) \in Int
<1>1. DOMAIN s = 1 .. Len(s) /\ \A i \in 1 .. Len(s) : s[i] \in R
  OBVIOUS
<1>2. k \in 1 .. Len(s) => s[k].profit \in Int
  BY <1>1 DEF Earning
<1>3. k \in 1 .. Len(s) => CE!ProfitOf(s)[k] = s[k].profit
  BY <1>1 DEF CE!ProfitOf
<1> QED BY <1>1, <1>2, <1>3 DEF Term

LEMMA TotalTyped ==
    ASSUME NEW R, Earning(R), NEW s \in Seq(R)
    PROVE  Total(s) \in Int
<1>1. Len(s) \in Nat /\ Numbers2(Len(s), DOMAIN s, CE!ProfitOf(s))
  BY ProfitTerms DEF Numbers2
<1> QED BY <1>1, SumTyped DEF Total

LEMMA TotalOfNone == Total(<<>>) = 0
<1>1. Len(<<>>) = 0 /\ DOMAIN <<>> = {}
  OBVIOUS
<1>2. Term(DOMAIN <<>>, CE!ProfitOf(<<>>), 0) = 0
  BY <1>1 DEF Term
<1>3. CE!SumOf(0, DOMAIN <<>>, CE!ProfitOf(<<>>)) = 0 + Term(DOMAIN <<>>, CE!ProfitOf(<<>>), 0)
  BY SumMore
<1> QED BY <1>1, <1>2, <1>3 DEF Total

LEMMA TotalOfMore ==
    ASSUME NEW R, Earning(R), NEW s \in Seq(R), NEW r \in R
    PROVE  Total(Append(s, r)) = Total(s) + r.profit
<1> DEFINE t == Append(s, r)
           n == Len(s)
<1>1. t \in Seq(R) /\ n \in Nat /\ Len(t) = n + 1 /\ t[n + 1] = r /\ \A k \in 1 .. n : t[k] = s[k]
  OBVIOUS
<1> HIDE DEF t
<1>2. CE!SumOf(n + 1, DOMAIN t, CE!ProfitOf(t))
      = CE!SumOf(n, DOMAIN t, CE!ProfitOf(t)) + Term(DOMAIN t, CE!ProfitOf(t), n + 1)
  BY <1>1, SumMore
<1>3. Term(DOMAIN t, CE!ProfitOf(t), n + 1) = r.profit
  <2>1. n + 1 \in Nat /\ n + 1 \in 1 .. Len(t)
    BY <1>1
  <2> QED BY <2>1, <1>1, ProfitTerms
<1>4. CE!SumOf(n, DOMAIN t, CE!ProfitOf(t)) = CE!SumOf(n, DOMAIN s, CE!ProfitOf(s))
  <2>1. ASSUME NEW k \in 0 .. n
        PROVE  Term(DOMAIN t, CE!ProfitOf(t), k) = Term(DOMAIN s, CE!ProfitOf(s), k)
    <3>1. CASE k = 0
      <4>1. k \in Nat /\ k \notin 1 .. Len(s) /\ k \notin 1 .. Len(t)
        BY <3>1
      <4> QED BY <4>1, <1>1, ProfitTerms
    <3>2. CASE k # 0
      <4>1. k \in Nat /\ k \in 1 .. Len(s) /\ k \in 1 .. Len(t)
        BY <3>2, <1>1
      <4>2. /\ Term(DOMAIN t, CE!ProfitOf(t), k) = t[k].profit
            /\ Term(DOMAIN s, CE!ProfitOf(s), k) = s[k].profit
        BY <4>1, <1>1, ProfitTerms
      <4> QED BY <4>1, <4>2, <1>1
    <3> QED BY <3>1, <3>2
  <2> QED BY <2>1, <1>1, SumsAgree
<1> QED BY <1>1, <1>2, <1>3, <1>4 DEF Total, t

LEMMA TotalOfChanged ==
    ASSUME NEW R, Earning(R), NEW s \in Seq(R), NEW k \in DOMAIN s, NEW r \in R, NEW gain \in Int,
           r.profit = s[k].profit + gain
    PROVE  Total([s EXCEPT ![k] = r]) = Total(s) + gain
<1> DEFINE t == [s EXCEPT ![k] = r]
           n == Len(s)
           g == [i \in {k} |-> gain]
<1>1. /\ t \in Seq(R) /\ n \in Nat /\ Len(t) = n /\ t[k] = r /\ k \in 1 .. n
      /\ \A i \in 1 .. n : i # k => t[i] = s[i]
  OBVIOUS
<1> HIDE DEF t
<1>2. Term({k}, g, k) = gain /\ \A i : i # k => Term({k}, g, i) = 0
  BY DEF Term
<1>3. \A i \in 0 .. n : Term(DOMAIN t, CE!ProfitOf(t), i)
                        = Term(DOMAIN s, CE!ProfitOf(s), i) + Term({k}, g, i)
  <2> TAKE i \in 0 .. n
  <2> HIDE DEF g
  <2>0. i \in Nat
    OBVIOUS
  <2>1. CASE i = 0
    <3>1. i \notin 1 .. Len(s) /\ i \notin 1 .. Len(t) /\ i # k
      BY <2>1, <1>1
    <3>2. Term(DOMAIN t, CE!ProfitOf(t), i) = 0 /\ Term(DOMAIN s, CE!ProfitOf(s), i) = 0
      BY <2>0, <3>1, <1>1, ProfitTerms
    <3>3. Term({k}, g, i) = 0
      BY <3>1, <1>2
    <3> QED BY <3>2, <3>3
  <2>2. CASE i # 0
    <3>1. i \in 1 .. Len(s) /\ i \in 1 .. Len(t)
      BY <2>2, <1>1
    <3>2. /\ Term(DOMAIN t, CE!ProfitOf(t), i) = t[i].profit
          /\ Term(DOMAIN s, CE!ProfitOf(s), i) = s[i].profit /\ s[i].profit \in Int
      BY <2>0, <3>1, <1>1, ProfitTerms
    <3>3. CASE i = k
      BY <3>2, <3>3, <1>1, <1>2
    <3>4. CASE i # k
      <4>1. t[i] = s[i] /\ Term({k}, g, i) = 0
        BY <3>1, <3>4, <1>1, <1>2
      <4> QED BY <3>2, <4>1
    <3> QED BY <3>3, <3>4
  <2> QED BY <2>1, <2>2
<1>4. Numbers2(n, DOMAIN s, CE!ProfitOf(s)) /\ Numbers2(n, {k}, g)
  <2> HIDE DEF g
  <2>1. ASSUME NEW i \in 0 .. n
        PROVE  Term(DOMAIN s, CE!ProfitOf(s), i) \in Int /\ Term({k}, g, i) \in Int
    <3>1. i \in Nat
      OBVIOUS
    <3>2. Term(DOMAIN s, CE!ProfitOf(s), i) \in Int
      BY <3>1, ProfitTerms
    <3>3. Term({k}, g, i) = gain \/ Term({k}, g, i) = 0
      BY <1>2
    <3>4. Term({k}, g, i) \in Int
      BY <3>3
    <3> QED BY <3>2, <3>4
  <2> QED BY <2>1 DEF Numbers2
<1>5. CE!SumOf(n, {k}, g) = gain
  <2> HIDE DEF g
  <2>1. k \in 0 .. n /\ Term({k}, g, k) = gain /\ \A i \in 0 .. n : i # k => Term({k}, g, i) = 0
    <3>1. k \in 0 .. n
      BY <1>1
    <3> QED BY <3>1, <1>2
  <2>2. CE!SumOf(n, {k}, g) = Term({k}, g, k)
    BY <2>1, <1>1, SumOfOne
  <2> QED BY <2>1, <2>2
<1> HIDE DEF g
<1> HIDE DEF n
<1>6. CE!SumOf(n, DOMAIN t, CE!ProfitOf(t))
      = CE!SumOf(n, DOMAIN s, CE!ProfitOf(s)) + CE!SumOf(n, {k}, g)
  <2> DEFINE S == DOMAIN s
             U == DOMAIN t
             f == CE!ProfitOf(s)
             h == CE!ProfitOf(t)
             K == {k}
  <2>1. n \in Nat
    BY <1>1
  <2>2. Numbers2(n, S, f) /\ Numbers2(n, K, g)
    BY <1>4
  <2>3. \A i \in 0 .. n : Term(U, h, i) = Term(S, f, i) + Term(K, g, i)
    BY <1>3
  <2> HIDE DEF S, U, f, h, K
  <2>4. CE!SumOf(n, U, h) = CE!SumOf(n, S, f) + CE!SumOf(n, K, g)
    BY <2>1, <2>2, <2>3, SumsAdd
  <2> QED BY <2>4 DEF S, U, f, h, K
<1> QED BY <1>1, <1>5, <1>6 DEF Total, t

-----------------------------------------------------------------------------
(* One deal more, and where the episodes come from *)

LEMMA OriginStays ==
    ASSUME NEW lg \in Seq(CEDeal), NEW d \in CEDeal, NEW es \in Seq(CEEpisode), Origin(lg, es)
    PROVE  Origin(Append(lg, d), es)
<1> SUFFICES ASSUME NEW k \in DOMAIN es PROVE Arisen(Append(lg, d), es[k])
  BY DEF Origin
<1>1. es[k] \in CEEpisode /\ Arisen(lg, es[k])
  BY DEF Origin
<1> QED BY <1>1, BegunStays

LEMMA OriginAppended ==
    ASSUME NEW l, NEW es \in Seq(CEEpisode), Origin(l, es), NEW e, Arisen(l, e)
    PROVE  Origin(l, Append(es, e))
<1> DEFINE g == Append(es, e)
<1>1. /\ DOMAIN g = 1 .. (Len(es) + 1) /\ DOMAIN es = 1 .. Len(es) /\ Len(es) \in Nat
      /\ g[Len(es) + 1] = e /\ \A k \in 1 .. Len(es) : g[k] = es[k]
  OBVIOUS
<1> HIDE DEF g
<1>2. ASSUME NEW k \in DOMAIN g PROVE k \in DOMAIN es \/ k = Len(es) + 1
  BY <1>1
<1>3. \A k \in DOMAIN g : Arisen(l, g[k])
  BY <1>1, <1>2 DEF Origin
<1> QED BY <1>3 DEF Origin, g

LEMMA OriginReplaced ==
    ASSUME NEW l, NEW es \in Seq(CEEpisode), Origin(l, es), NEW k \in DOMAIN es, NEW e, Arisen(l, e)
    PROVE  Origin(l, [es EXCEPT ![k] = e])
BY DEF Origin

\* What a deal does to the profit of its episode.
LEMMA ProfitsAdd ==
    ASSUME NEW d \in CEDeal, NEW e \in CEEpisode, NEW vol
    PROVE  /\ CE!AddEntry(e, d).profit = e.profit + d.profit
           /\ CE!CloseEpisode(e, d, vol).profit = e.profit + d.profit
           /\ d.profit \in Int
BY DEF CE!AddEntry, CE!CloseEpisode, CEEpisode, CEDeal

\* The episodes after a deal: where they come from, what they earn, how many there are.
Kept(lg, es, d, g) ==
    /\ Origin(Append(lg, d), g) /\ Total(g) = Total(es) + d.profit
    /\ Len(g) \in Nat /\ Len(g) > 0

LEMMA OpeningKept ==
    ASSUME NEW lg \in Seq(CEDeal), NEW es \in Seq(CEEpisode), NEW d \in CEDeal, Origin(lg, es),
           d.ticket = FirstTicket + Len(lg) + 1, d.entry = "IN", OpenOf(es, d.pos) = {},
           \A i \in DOMAIN lg : lg[i].pos # d.pos
    PROVE  Kept(lg, es, d, CE!TakeDeal(es, d))
<1> DEFINE e == CE!Episode(d, d.vol, d.profit)
<1>1. d.vol \in Nat /\ d.profit \in Int
  BY DEF CEDeal
<1>2. CE!TakeDeal(es, d) = Append(es, e)
  <2>1. CE!Current(es, d) = 0
    BY CurrentDoes
  <2> QED BY <2>1 DEF CE!TakeDeal
<1>3. e \in CEEpisode /\ e.profit = d.profit
  <2>1. Made(e, d, d.vol)
    BY <1>1, EpisodeTyped
  <2> QED BY <2>1 DEF Made, CE!Episode
<1>4. Arisen(Append(lg, d), e)
  BY <1>1, BeginsNow
<1> HIDE DEF e
<1>5. Origin(Append(lg, d), Append(es, e))
  BY <1>4, OriginStays, OriginAppended
<1>6. Total(Append(es, e)) = Total(es) + d.profit
  BY <1>3, Earners, TotalOfMore
<1>7. Len(Append(es, e)) = Len(es) + 1 /\ Len(es) \in Nat
  OBVIOUS
<1> QED BY <1>2, <1>5, <1>6, <1>7 DEF Kept

\* A change of the one open episode that begins no other.
LEMMA ChangeKept ==
    ASSUME NEW lg \in Seq(CEDeal), NEW es \in Seq(CEEpisode), NEW d \in CEDeal, Origin(lg, es),
           NEW k \in DOMAIN es, NEW f \in CEEpisode, Arisen(Append(lg, d), f),
           f.profit = es[k].profit + d.profit
    PROVE  Kept(lg, es, d, [es EXCEPT ![k] = f])
<1>1. Origin(Append(lg, d), [es EXCEPT ![k] = f])
  BY OriginStays, OriginReplaced
<1>2. d.profit \in Int
  BY DEF CEDeal
<1>3. Total([es EXCEPT ![k] = f]) = Total(es) + d.profit
  BY <1>2, Earners, TotalOfChanged
<1>4. Len([es EXCEPT ![k] = f]) = Len(es) /\ Len(es) \in Nat /\ Len(es) > 0
  OBVIOUS
<1> QED BY <1>1, <1>3, <1>4 DEF Kept

LEMMA LaterKept ==
    ASSUME NEW lg \in Seq(CEDeal), NEW es \in Seq(CEEpisode), NEW d \in CEDeal, Origin(lg, es),
           d.ticket = FirstTicket + Len(lg) + 1,
           NEW k \in DOMAIN es, OpenOf(es, d.pos) = {k}, es[k].sym = d.sym
    PROVE  Kept(lg, es, d, CE!TakeDeal(es, d))
<1>1. CE!Current(es, d) = k /\ k > 0 /\ k # 0
  BY CurrentDoes
<1>2. es[k] \in CEEpisode /\ es[k].open /\ Arisen(lg, es[k]) /\ es[k].vol \in Nat /\ d.vol \in Nat
  <2>1. k \in OpenOf(es, d.pos) /\ es[k] \in CEEpisode
    OBVIOUS
  <2>2. es[k].open
    BY <2>1 DEF OpenOf
  <2>3. es[k].vol \in Nat /\ d.vol \in Nat
    BY <2>1 DEF CEEpisode, CEDeal
  <2> QED BY <2>1, <2>2, <2>3 DEF Origin
<1>3. CASE d.entry = "IN"
  <2> DEFINE f == CE!AddEntry(es[k], d)
  <2>1. CE!TakeDeal(es, d) = [es EXCEPT ![k] = f]
    BY <1>1, <1>3 DEF CE!TakeDeal
  <2>2. f \in CEEpisode /\ f.profit = es[k].profit + d.profit
    BY <1>2, AddEntryTyped, ProfitsAdd
  <2>3. Arisen(Append(lg, d), f)
    BY <1>2, AddEntryBegun
  <2> HIDE DEF f
  <2>4. Kept(lg, es, d, [es EXCEPT ![k] = f])
    BY <2>2, <2>3, ChangeKept
  <2> QED BY <2>1, <2>4
<1>4. CASE d.entry = "INOUT"
  <2> DEFINE f == CE!CloseEpisode(es[k], d, es[k].vol)
             closed == [es EXCEPT ![k] = f]
             n == CE!Episode(d, d.vol - es[k].vol, 0)
  <2>1. CE!TakeDeal(es, d) = IF d.vol > es[k].vol THEN Append(closed, n) ELSE closed
    BY <1>1, <1>4 DEF CE!TakeDeal, CE!TurnAround
  <2>2. f \in CEEpisode /\ f.profit = es[k].profit + d.profit
    <3>1. Shortened(f, es[k], es[k].vol)
      BY <1>2, CloseEpisodeTyped
    <3> QED BY <3>1, <1>2, ProfitsAdd DEF Shortened
  <2>3. Arisen(Append(lg, d), f)
    BY <1>2, CloseEpisodeBegun
  <2> HIDE DEF f
  <2>4. Kept(lg, es, d, closed) /\ closed \in Seq(CEEpisode)
    BY <2>2, <2>3, ChangeKept
  <2> HIDE DEF closed
  <2>5. ASSUME d.vol > es[k].vol PROVE Kept(lg, es, d, Append(closed, n))
    <3>1. d.vol - es[k].vol \in Nat
      BY <1>2, <2>5
    <3>2. n \in CEEpisode /\ n.profit = 0
      <4>1. Made(n, d, d.vol - es[k].vol)
        BY <3>1, EpisodeTyped
      <4> QED BY <4>1 DEF Made, CE!Episode
    <3>3. Arisen(Append(lg, d), n)
      BY <1>4, <3>1, BeginsNow
    <3> HIDE DEF n
    <3>4. Origin(Append(lg, d), Append(closed, n))
      BY <2>4, <3>3, OriginAppended DEF Kept
    <3>5. Total(Append(closed, n)) = Total(closed) + 0 /\ Total(closed) \in Int
      BY <2>4, <3>2, Earners, TotalOfMore, TotalTyped
    <3>6. Len(Append(closed, n)) = Len(closed) + 1 /\ Len(closed) \in Nat
      BY <2>4
    <3> QED BY <2>4, <3>4, <3>5, <3>6 DEF Kept
  <2> QED BY <2>1, <2>4, <2>5
<1>5. CASE d.entry \in {"OUT", "OUT_BY"}
  <2> DEFINE f == CE!CloseEpisode(es[k], d, d.vol)
  <2>1. CE!TakeDeal(es, d) = [es EXCEPT ![k] = f]
    BY <1>1, <1>5 DEF CE!TakeDeal
  <2>2. f \in CEEpisode /\ f.profit = es[k].profit + d.profit
    <3>1. Shortened(f, es[k], d.vol)
      BY <1>2, CloseEpisodeTyped
    <3> QED BY <3>1, <1>2, ProfitsAdd DEF Shortened
  <2>3. Arisen(Append(lg, d), f)
    BY <1>2, CloseEpisodeBegun
  <2> HIDE DEF f
  <2>4. Kept(lg, es, d, [es EXCEPT ![k] = f])
    BY <2>2, <2>3, ChangeKept
  <2> QED BY <2>1, <2>4
<1> QED BY <1>3, <1>4, <1>5 DEF CEDeal

-----------------------------------------------------------------------------
(* The past of an account *)

CEFlow == [kind : {"DEPOSIT", "WITHDRAWAL", "CREDIT"}, amount : Int, at : Int]

\* Of the deals lg, now.
Past(lg, now) ==
    /\ Numbered(lg, now) /\ OneSymbol(lg) /\ Origin(lg, CE!EpisodesOf(lg))
    /\ Total(CE!EpisodesOf(lg)) = Total(lg)
    /\ Len(lg) > 0 => Len(CE!EpisodesOf(lg)) > 0

CEPast == clock <= MaxClock /\ cash \in Seq(CEFlow) /\ Past(log, CE!Server)

LEMMA NumberedGrows ==
    ASSUME NEW lg \in Seq(CEDeal), NEW now \in Int, Numbered(lg, now), NEW d \in CEDeal,
           d.ticket = FirstTicket + Len(lg) + 1, d.at = now
    PROVE  Numbered(Append(lg, d), now)
<1> DEFINE l == Append(lg, d)
           n == Len(lg) + 1
<1>1. /\ DOMAIN l = 1 .. n /\ DOMAIN lg = 1 .. Len(lg) /\ Len(lg) \in Nat /\ n \in Nat
      /\ l[n] = d /\ \A k \in DOMAIN lg : l[k] = lg[k]
  OBVIOUS
<1> HIDE DEF l
<1>2. ASSUME NEW i \in DOMAIN l PROVE l[i].ticket = FirstTicket + i /\ l[i].at <= now
  <2>1. CASE i = n
    BY <2>1, <1>1, EngineAssumption
  <2>2. CASE i # n
    <3>1. i \in DOMAIN lg
      BY <2>2, <1>1
    <3> QED BY <3>1, <1>1 DEF Numbered
  <2> QED BY <2>1, <2>2
<1>3. ASSUME NEW i \in DOMAIN l, NEW j \in DOMAIN l, i <= j PROVE l[i].at <= l[j].at
  <2>1. CASE j = n
    BY <2>1, <1>1, <1>2
  <2>2. CASE j # n
    <3>1. j \in DOMAIN lg /\ i \in DOMAIN lg
      BY <2>2, <1>1, <1>3
    <3> QED BY <3>1, <1>1, <1>3 DEF Numbered
  <2> QED BY <2>1, <2>2
<1>4. Numbered(l, now)
  BY <1>2, <1>3 DEF Numbered
<1> QED BY <1>4 DEF l

LEMMA OneSymbolStays ==
    ASSUME NEW lg \in Seq(CEDeal), NEW es \in Seq(CEEpisode), OneSymbol(lg), Origin(lg, es),
           NEW d \in CEDeal, Fits(lg, es, d)
    PROVE  OneSymbol(Append(lg, d))
<1> DEFINE l == Append(lg, d)
           n == Len(lg) + 1
<1>1. /\ DOMAIN l = 1 .. n /\ DOMAIN lg = 1 .. Len(lg) /\ Len(lg) \in Nat
      /\ l[n] = d /\ \A k \in DOMAIN lg : l[k] = lg[k]
  OBVIOUS
<1> HIDE DEF l
<1>2. ASSUME NEW i \in DOMAIN lg, lg[i].pos = d.pos PROVE lg[i].sym = d.sym
  <2>1. PICK k \in DOMAIN es : OpenOf(es, d.pos) = {k} /\ es[k].sym = d.sym
    BY <1>2 DEF Fits
  <2>2. es[k].pos = d.pos /\ Arisen(lg, es[k])
    BY <2>1 DEF OpenOf, Origin
  <2>3. PICK j \in DOMAIN lg : lg[j].pos = d.pos /\ lg[j].sym = d.sym
    BY <2>1, <2>2 DEF Arisen
  <2> QED BY <2>3, <1>2 DEF OneSymbol
<1>3. ASSUME NEW i \in DOMAIN l, NEW j \in DOMAIN l, l[i].pos = l[j].pos PROVE l[i].sym = l[j].sym
  <2>1. \A k \in DOMAIN l : k = n \/ k \in DOMAIN lg
    BY <1>1
  <2>2. CASE i = n /\ j = n
    BY <2>2
  <2>3. CASE i = n /\ j \in DOMAIN lg
    BY <2>3, <1>1, <1>2, <1>3
  <2>4. CASE i \in DOMAIN lg /\ j = n
    BY <2>4, <1>1, <1>2, <1>3
  <2>5. CASE i \in DOMAIN lg /\ j \in DOMAIN lg
    BY <2>5, <1>1, <1>3 DEF OneSymbol
  <2> QED BY <2>1, <2>2, <2>3, <2>4, <2>5
<1>4. OneSymbol(l)
  BY <1>3 DEF OneSymbol
<1> QED BY <1>4 DEF l

LEMMA PastGrows ==
    ASSUME NEW lg, NEW hd, Books(lg, hd), NEW now \in Int, Past(lg, now), NEW d \in CEDeal,
           d.ticket = FirstTicket + Len(lg) + 1, d.at = now, Fits(lg, CE!EpisodesOf(lg), d)
    PROVE  Past(Append(lg, d), now)
<1> DEFINE es == CE!EpisodesOf(lg)
           g == CE!TakeDeal(es, d)
           l == Append(lg, d)
<1>1. lg \in Seq(CEDeal) /\ es \in Seq(CEEpisode) /\ Numbered(lg, now) /\ Origin(lg, es)
  BY DEF Books, Past
<1>2. CE!EpisodesOf(l) = g
  BY <1>1, EpisodesOfMore
<1>3. Numbered(l, now)
  BY <1>1, NumberedGrows
<1>f. Fits(lg, es, d) /\ Total(es) = Total(lg) /\ OneSymbol(lg)
  BY DEF Past
<1> HIDE DEF es
<1>4. Kept(lg, es, d, g)
  <2>1. CASE d.entry = "IN" /\ OpenOf(es, d.pos) = {} /\ \A i \in DOMAIN lg : lg[i].pos # d.pos
    BY <2>1, <1>1, OpeningKept
  <2>2. CASE \E k \in DOMAIN es : OpenOf(es, d.pos) = {k} /\ es[k].sym = d.sym
    <3>1. PICK k \in DOMAIN es : OpenOf(es, d.pos) = {k} /\ es[k].sym = d.sym
      BY <2>2
    <3> QED BY <3>1, <1>1, LaterKept
  <2> QED BY <2>1, <2>2, <1>f DEF Fits
<1> HIDE DEF g
<1>5. Total(l) = Total(lg) + d.profit
  BY <1>1, Earners, TotalOfMore
<1>s. OneSymbol(l)
  BY <1>1, <1>f, OneSymbolStays
<1> HIDE DEF l
<1>6. Past(l, now)
  <2>1. Origin(l, g) /\ Total(g) = Total(es) + d.profit /\ Len(g) > 0
    BY <1>4 DEF Kept, l
  <2> QED BY <2>1, <1>2, <1>3, <1>5, <1>f, <1>s DEF Past
<1> QED BY <1>6 DEF l

\* A deal of a position that is held fits.
LEMMA HeldFits ==
    ASSUME NEW lg, NEW hd, Books(lg, hd), NEW d \in CEDeal, hd[d.pos].vol > 0,
           d.sym = hd[d.pos].sym
    PROVE  Fits(lg, CE!EpisodesOf(lg), d)
<1> DEFINE es == CE!EpisodesOf(lg)
<1>1. Match(es, d.pos, hd[d.pos])
  BY DEF Books, CEDeal
<1> HIDE DEF es
<1>2. PICK k \in OpenOf(es, d.pos) : es[k].sym = hd[d.pos].sym /\ OpenOf(es, d.pos) = {k}
  BY <1>1 DEF Match
<1>3. k \in DOMAIN es
  BY DEF OpenOf
<1>4. Fits(lg, es, d)
  BY <1>2, <1>3 DEF Fits
<1> QED BY <1>4 DEF es

\* The broker's clock runs on.
LEMMA ServerRuns ==
    ASSUME clock \in Nat, clock' \in Nat, clock <= clock'
    PROVE  CE!Server \in Int /\ CE!Server' \in Int /\ CE!Server <= CE!Server'
<1>1. BrokerFrom \in Nat
  BY EngineAssumption
<1>2. /\ BrokerFrom <= clock => CE!Server = clock + 12
      /\ ~ (BrokerFrom <= clock) => CE!Server = clock + 8
  BY DEF CE!Server
<1>3. /\ BrokerFrom <= clock' => CE!Server' = clock' + 12
      /\ ~ (BrokerFrom <= clock') => CE!Server' = clock' + 8
  BY DEF CE!Server
<1> QED BY <1>1, <1>2, <1>3

LEMMA FillDated ==
    ASSUME NEW p, NEW entry, NEW side, NEW vol, NEW price, NEW profit, NEW order,
           NEW d, d = CE!Fill(p, entry, side, vol, price, profit, order)
    PROVE  d.ticket = FirstTicket + Len(log) + 1 /\ d.at = CE!Server
BY DEF CE!Fill

\* One deal more of a position that is held.
LEMMA FilledPast ==
    ASSUME CESound, CEPast, NEW p \in Positions, CE!IsHeld(p), NEW d \in CEDeal, d.pos = p,
           d.sym = held[p].sym, d.ticket = FirstTicket + Len(log) + 1, d.at = CE!Server,
           log' = Append(log, d), clock' = clock, cash' = cash
    PROVE  CEPast'
<1>1. Books(log, held) /\ clock \in Nat /\ CE!Server \in Int /\ CE!Server' = CE!Server
  BY ServerTyped DEF CESound, CE!Server
<1>2. Fits(log, CE!EpisodesOf(log), d)
  BY <1>1, HeldFits DEF CE!IsHeld
<1>3. Past(Append(log, d), CE!Server)
  BY <1>1, <1>2, PastGrows DEF CEPast
<1>4. Past(log, CE!Server)'
  <2>1. Past(log', CE!Server')
    BY <1>1, <1>3
  <2> QED BY <2>1 DEF Past, Numbered, OneSymbol, Origin, Arisen, Total, CE!EpisodesOf, CE!SumOf, CE!ProfitOf
<1> QED BY <1>4 DEF CEPast

LEMMA OpenPositionPast ==
    ASSUME CESound, CEPast, NEW p \in Positions, NEW s \in Symbols, NEW side \in {1, -1},
           NEW price \in Prices, CE!OpenPosition(p, s, side, price)
    PROVE  CEPast'
<1> DEFINE d == [pos |-> p, sym |-> s, side |-> side, entry |-> "IN", vol |-> 2,
                 price |-> price, profit |-> 0, order |-> Len(log) + 1,
                 ticket |-> FirstTicket + Len(log) + 1, at |-> CE!Server]
           es == CE!EpisodesOf(log)
<1>0. Books(log, held) /\ clock \in Nat /\ log \in Seq(CEDeal) /\ CE!Server \in Int
  BY ServerTyped DEF CESound, Books
<1>1. log' = Append(log, d) /\ clock' = clock /\ cash' = cash /\ CE!Free(p, s)
  BY DEF CE!OpenPosition
<1>2. d \in CEDeal
  <2>1. Len(log) + 1 \in Int /\ FirstTicket + Len(log) + 1 \in Int /\ price \in Int
    BY <1>0, EngineAssumption
  <2> QED BY <1>0, <2>1 DEF CEDeal
<1>3. \A i \in DOMAIN log : log[i].pos # p
  BY <1>1, EngineAssumption DEF CE!Free, CE!Used
<1>4. OpenOf(es, p) = {}
  <2>1. ~ (held[p].vol > 0)
    BY <1>0, <1>3 DEF Books
  <2> QED BY <2>1, <1>0 DEF Books, Match
<1>5. d.pos = p /\ d.entry = "IN" /\ d.ticket = FirstTicket + Len(log) + 1 /\ d.at = CE!Server
  OBVIOUS
<1> HIDE DEF d
<1>6. Fits(log, es, d)
  BY <1>3, <1>4, <1>5 DEF Fits
<1>7. Past(Append(log, d), CE!Server)
  BY <1>0, <1>2, <1>5, <1>6, PastGrows DEF CEPast
<1>8. CE!Server' = CE!Server
  BY <1>1 DEF CE!Server
<1>9. Past(log, CE!Server)'
  <2>1. Past(log', CE!Server')
    BY <1>1, <1>7, <1>8
  <2> QED BY <2>1 DEF Past, Numbered, OneSymbol, Origin, Arisen, Total, CE!EpisodesOf, CE!SumOf, CE!ProfitOf
<1> QED BY <1>1, <1>9 DEF CEPast

LEMMA IncreasePast ==
    ASSUME CESound, CEPast, NEW p \in Positions, NEW price \in Prices, NEW same \in BOOLEAN,
           CE!Increase(p, price, same)
    PROVE  CEPast'
<1> DEFINE order == IF same THEN log[Len(log)].order ELSE Len(log) + 1
           d == CE!Fill(p, "IN", held[p].dir, 1, price, 0, order)
<1>1. CE!IsHeld(p) /\ log' = Append(log, d) /\ clock' = clock /\ cash' = cash
  BY DEF CE!Increase
<1>2. held[p].dir \in {1, -1} /\ Len(log) \in Nat /\ log[Len(log)] \in CEDeal
  BY <1>1, PositionIs DEF CESound, CE!IsHeld
<1>3. order \in Int /\ price \in Int
  BY <1>2, EngineAssumption DEF CEDeal
<1> HIDE DEF order
<1>4. Filled(d, p, "IN", held[p].dir, 1)
  <2>1. "IN" \in {"IN", "OUT", "OUT_BY", "INOUT"} /\ 1 \in Nat \ {0} /\ 0 \in Int
    OBVIOUS
  <2> QED BY <2>1, <1>1, <1>2, <1>3, FillTyped
<1>5. d.ticket = FirstTicket + Len(log) + 1 /\ d.at = CE!Server
  BY FillDated
<1> HIDE DEF d
<1> QED BY <1>1, <1>4, <1>5, FilledPast DEF Filled

LEMMA ReducePast ==
    ASSUME CESound, CEPast, NEW p \in Positions, NEW vol \in {1, held[p].vol},
           NEW profit \in Profits, CE!Reduce(p, vol, profit)
    PROVE  CEPast'
<1> DEFINE d == CE!Fill(p, "OUT", -held[p].dir, vol, 1, profit, Len(log) + 1)
<1>1. CE!IsHeld(p) /\ log' = Append(log, d) /\ clock' = clock /\ cash' = cash
  BY DEF CE!Reduce
<1>2. -held[p].dir \in {1, -1} /\ Len(log) \in Nat /\ held[p].vol \in Nat \ {0}
  BY <1>1, PositionIs DEF CESound, CE!IsHeld
<1>3. Filled(d, p, "OUT", -held[p].dir, vol)
  <2>1. /\ "OUT" \in {"IN", "OUT", "OUT_BY", "INOUT"} /\ vol \in Nat \ {0}
        /\ 1 \in Int /\ profit \in Int /\ Len(log) + 1 \in Int
    BY <1>2, EngineAssumption
  <2> QED BY <2>1, <1>1, <1>2, FillTyped
<1>4. d.ticket = FirstTicket + Len(log) + 1 /\ d.at = CE!Server
  BY FillDated
<1> HIDE DEF d
<1> QED BY <1>1, <1>3, <1>4, FilledPast DEF Filled

LEMMA ReversePositionPast ==
    ASSUME CESound, CEPast, NEW p \in Positions, NEW profit \in Profits,
           CE!ReversePosition(p, profit)
    PROVE  CEPast'
<1> DEFINE d == CE!Fill(p, "INOUT", -held[p].dir, held[p].vol + 1, 1, profit, Len(log) + 1)
<1>1. CE!IsHeld(p) /\ log' = Append(log, d) /\ clock' = clock /\ cash' = cash
  BY DEF CE!ReversePosition
<1>2. -held[p].dir \in {1, -1} /\ Len(log) \in Nat /\ held[p].vol \in Nat
  BY <1>1, PositionIs DEF CESound, CE!IsHeld
<1>3. Filled(d, p, "INOUT", -held[p].dir, held[p].vol + 1)
  <2>1. /\ "INOUT" \in {"IN", "OUT", "OUT_BY", "INOUT"} /\ held[p].vol + 1 \in Nat \ {0}
        /\ 1 \in Int /\ profit \in Int /\ Len(log) + 1 \in Int
    BY <1>2, EngineAssumption
  <2> QED BY <2>1, <1>1, <1>2, FillTyped
<1>4. d.ticket = FirstTicket + Len(log) + 1 /\ d.at = CE!Server
  BY FillDated
<1> HIDE DEF d
<1> QED BY <1>1, <1>3, <1>4, FilledPast DEF Filled

LEMMA CloseByPast ==
    ASSUME CESound, CEPast, NEW p \in Positions, NEW q \in Positions, NEW profit \in Profits,
           CE!CloseBy(p, q, profit)
    PROVE  CEPast'
<1> DEFINE d == CE!Fill(p, "OUT_BY", -held[p].dir, held[p].vol, 1, profit, Len(log) + 1)
           f == CE!Fill(q, "OUT_BY", -held[q].dir, held[q].vol, 1, 0, Len(log) + 1)
           e == [f EXCEPT !.ticket = @ + 1]
           m == Append(log, d)
           b == [held EXCEPT ![p] = Shut]
<1>1. /\ CE!IsHeld(p) /\ CE!IsHeld(q) /\ p # q /\ clock' = clock /\ cash' = cash
      /\ log' = log \o <<d, e>>
  BY DEF CE!CloseBy
<1>0. /\ clock \in Nat /\ Books(log, held) /\ held[p].vol > 0 /\ -held[p].dir \in {1, -1}
      /\ held[q].vol > 0 /\ -held[q].dir \in {1, -1} /\ held[q].vol \in Nat
      /\ Len(log) \in Nat /\ held[p].vol \in Nat /\ log \in Seq(CEDeal)
      /\ held \in [Positions -> CEHeld] /\ CE!Server \in Int
  BY <1>1, PositionIs, ServerTyped DEF CESound, CE!IsHeld, Books
<1>2. held[p].vol \in Nat \ {0} /\ held[q].vol \in Nat \ {0} /\ profit \in Int /\ Len(log) + 1 \in Int
  BY <1>0, EngineAssumption
<1>3. d \in CEDeal /\ d.pos = p /\ d.sym = held[p].sym /\ d.entry = "OUT_BY" /\ d.vol = held[p].vol
  BY <1>0, <1>1, <1>2, FillTyped DEF Filled
<1>4. f \in CEDeal /\ f.pos = q /\ f.sym = held[q].sym
  <2>1. Filled(f, q, "OUT_BY", -held[q].dir, held[q].vol)
    BY <1>0, <1>1, <1>2, FillTyped
  <2> QED BY <2>1 DEF Filled
<1>5. /\ d.ticket = FirstTicket + Len(log) + 1 /\ d.at = CE!Server
      /\ f.ticket = FirstTicket + Len(log) + 1 /\ f.at = CE!Server
  BY FillDated
<1> HIDE DEF d, f
<1>6. e \in CEDeal /\ e.pos = q /\ e.sym = held[q].sym /\ e.at = CE!Server /\ e.ticket = f.ticket + 1
  BY <1>4, <1>5 DEF CEDeal
<1> HIDE DEF e
<1>7. Books(m, b)
  <2>1. d.vol <= held[d.pos].vol /\ d.entry \in {"OUT", "OUT_BY"} /\ held[d.pos].vol > 0
    BY <1>0, <1>3
  <2>2. Books(Append(log, d), [held EXCEPT ![d.pos] = Lessened(held[d.pos], d.vol)])
    BY <2>1, <1>0, <1>3, BooksClose
  <2> QED BY <2>2, <1>3 DEF Lessened
<1>8. b[q] = held[q] /\ log \o <<d, e>> = Append(m, e) /\ Len(m) = Len(log) + 1
  BY <1>0, <1>1, <1>3, <1>6
<1>9. Past(m, CE!Server)
  <2>1. Fits(log, CE!EpisodesOf(log), d)
    BY <1>0, <1>3, HeldFits
  <2>2. Past(log, CE!Server)
    BY DEF CEPast
  <2> QED BY <2>1, <2>2, <1>0, <1>3, <1>5, PastGrows
<1> HIDE DEF m, b
<1>10. Past(Append(m, e), CE!Server)
  <2>1. Fits(m, CE!EpisodesOf(m), e)
    BY <1>0, <1>6, <1>7, <1>8, HeldFits
  <2>2. e.ticket = FirstTicket + Len(m) + 1
    BY <1>0, <1>5, <1>6, <1>8, EngineAssumption
  <2> QED BY <2>1, <2>2, <1>0, <1>6, <1>7, <1>9, PastGrows
<1>11. CE!Server' = CE!Server
  BY <1>1 DEF CE!Server
<1>12. Past(log, CE!Server)'
  <2>1. Past(log', CE!Server')
    BY <1>1, <1>8, <1>10, <1>11
  <2> QED BY <2>1 DEF Past, Numbered, OneSymbol, Origin, Arisen, Total, CE!EpisodesOf, CE!SumOf, CE!ProfitOf
<1> QED BY <1>1, <1>12 DEF CEPast

\* Time and money move, and the deals stay.
LEMMA PastStays ==
    ASSUME CESound, CEPast, log' = log, clock' \in Nat, clock <= clock'
    PROVE  Past(log, CE!Server)'
<1>1. CE!Server \in Int /\ CE!Server' \in Int /\ CE!Server <= CE!Server'
  BY ServerRuns DEF CESound
<1>2. log \in Seq(CEDeal) /\ Past(log, CE!Server)
  BY DEF CESound, Books, CEPast
<1>3. Numbered(log, CE!Server')
  <2>1. \A i \in DOMAIN log : log[i].at \in Int /\ log[i].at <= CE!Server
    <3>1. \A i \in DOMAIN log : log[i] \in CEDeal
      BY <1>2
    <3> QED BY <1>2, <3>1 DEF Past, Numbered, CEDeal
  <2>2. \A i \in DOMAIN log : log[i].at <= CE!Server'
    BY <1>1, <2>1
  <2> QED BY <1>2, <2>2 DEF Past, Numbered
<1>4. Past(log', CE!Server')
  BY <1>2, <1>3 DEF Past
<1> QED BY <1>4 DEF Past, Numbered, OneSymbol, Origin, Arisen, Total, CE!EpisodesOf, CE!SumOf, CE!ProfitOf

LEMMA CEPastStep ==
    ASSUME CESound, CEPast, [CE!Next]_(CE!vars) PROVE CEPast'
<1>0. clock \in Nat /\ clock <= MaxClock /\ cash \in Seq(CEFlow)
  BY DEF CESound, CEPast
<1>1. CASE UNCHANGED <<log, clock, cash>>
  BY <1>0, <1>1, PastStays DEF CEPast
<1>2. CASE \E p \in Positions : \E s \in Symbols, side \in {1, -1}, price \in Prices :
              CE!OpenPosition(p, s, side, price)
  BY <1>2, OpenPositionPast
<1>3. CASE \E p \in Positions : \E price \in Prices, same \in BOOLEAN : CE!Increase(p, price, same)
  BY <1>3, IncreasePast
<1>4. CASE \E p \in Positions : \E vol \in {1, held[p].vol}, profit \in Profits : CE!Reduce(p, vol, profit)
  BY <1>4, ReducePast
<1>5. CASE \E p \in Positions : \E profit \in Profits : CE!ReversePosition(p, profit)
  BY <1>5, ReversePositionPast
<1>6. CASE \E p \in Positions : \E q \in Positions, profit \in Profits : CE!CloseBy(p, q, profit)
  BY <1>6, CloseByPast
<1>7. CASE \E f \in Flows : CE!MoveCash(f)
  <2>1. PICK f \in Flows : CE!MoveCash(f)
    BY <1>7
  <2> DEFINE c == [kind |-> f.kind, amount |-> f.amount, at |-> CE!Server]
  <2>2. log' = log /\ clock' = clock /\ cash' = Append(cash, c)
    BY <2>1 DEF CE!MoveCash
  <2>3. c \in CEFlow
    <3>1. f \in [kind : {"DEPOSIT", "WITHDRAWAL", "CREDIT"}, amount : Int]
      BY CashAssumption
    <3>2. CE!Server \in Int
      BY <1>0, ServerTyped
    <3> QED BY <3>1, <3>2 DEF CEFlow
  <2> HIDE DEF c
  <2>4. cash' \in Seq(CEFlow)
    BY <1>0, <2>2, <2>3
  <2>5. Past(log, CE!Server)'
    BY <1>0, <2>2, PastStays
  <2> QED BY <1>0, <2>2, <2>4, <2>5 DEF CEPast
<1>8. CASE \E loss \in Losses : CE!Sync(loss)
  BY <1>8, <1>1 DEF CE!Sync, CE!account
<1>9. CASE \E w \in Delays : CE!Wait(w)
  <2>1. /\ log' = log /\ cash' = cash /\ clock' \in Nat /\ clock <= clock' /\ clock' <= MaxClock
    BY <1>0, <1>9, EngineAssumption, CalendarAssumption DEF CE!Wait, CE!account
  <2>2. Past(log, CE!Server)'
    BY <2>1, PastStays
  <2> QED BY <1>0, <2>1, <2>2 DEF CEPast
<1>10. CASE UNCHANGED CE!vars
  BY <1>10, <1>1 DEF CE!vars, CE!account
<1> QED BY <1>2, <1>3, <1>4, <1>5, <1>6, <1>7, <1>8, <1>9, <1>10 DEF CE!Next

LEMMA CEPastStart == CE!Init => CEPast
<1> SUFFICES ASSUME CE!Init PROVE CEPast
  OBVIOUS
<1>1. log = <<>> /\ cash = <<>> /\ clock = Start
  BY DEF CE!Init
<1>2. clock <= MaxClock /\ cash \in Seq(CEFlow)
  BY <1>1, CalendarAssumption
<1>3. CE!EpisodesOf(log) = log /\ DOMAIN log = {} /\ ~ (Len(log) > 0)
  BY <1>1, EpisodesOfNone
<1>4. Past(log, CE!Server)
  BY <1>3 DEF Past, Numbered, OneSymbol, Origin
<1> QED BY <1>2, <1>4 DEF CEPast

-----------------------------------------------------------------------------
(* The sessions of a day *)

Summer(x) == SummerFrom <= x /\ x < SummerTo
Turn(x) == IF Summer(x) THEN 72 ELSE 76     \* when Europe gives way to the US

\* What a quarter's session says of its time of day.
LEMMA SessionHours ==
    ASSUME NEW x \in Int, NEW at \in 0 .. 95, at = x % CE!Day
    PROVE  /\ CE!NC5AssignSession(x) = "ASIA" <=> 8 <= at /\ at < 44
           /\ CE!NC5AssignSession(x) = "EUROPE" <=> 44 <= at /\ at < Turn(x)
           /\ CE!NC5AssignSession(x) = "US" <=> Turn(x) <= at /\ at < Turn(x) + 20
<1> DEFINE shift == IF Summer(x) THEN 0 ELSE 4
<1>1. CE!NC5AssignSession(x) =
          IF 8 <= at /\ at < 44 THEN "ASIA"
          ELSE IF 36 + shift <= at /\ at < 72 + shift THEN "EUROPE"
          ELSE IF 56 + shift <= at /\ at < 92 + shift THEN "US"
          ELSE "OUTSIDE_SESSION"
  BY ZenonT(60) DEF CE!NC5AssignSession, Summer
<1>2. CASE Summer(x)
  <2>1. shift = 0 /\ Turn(x) = 72
    BY <1>2 DEF Turn
  <2> HIDE DEF shift
  <2> QED BY <1>1, <2>1
<1>3. CASE ~ Summer(x)
  <2>1. shift = 4 /\ Turn(x) = 76
    BY <1>3 DEF Turn
  <2> HIDE DEF shift
  <2> QED BY <1>1, <2>1
<1> QED BY <1>2, <1>3

\* A day lies in summer or it does not.
LEMMA SummerDays ==
    ASSUME NEW x \in Int, NEW y \in Int, x \div CE!Day = y \div CE!Day
    PROVE  Turn(x) = Turn(y) /\ CE!Offset(x) = CE!Offset(y)
<1>1. SummerFrom \in Nat /\ SummerTo \in Nat /\ SummerFrom % 96 = 0 /\ SummerTo % 96 = 0
  BY EngineAssumption, CalendarAssumption DEF CE!Day
<1>2. x \div 96 = y \div 96
  BY DEF CE!Day
<1>3. \A s \in Nat : s % 96 = 0 => (s <= x <=> s <= y)
  BY <1>2
<1>4. (SummerFrom <= x <=> SummerFrom <= y) /\ (x < SummerTo <=> y < SummerTo)
  <2>1. (SummerFrom <= x <=> SummerFrom <= y) /\ (SummerTo <= x <=> SummerTo <= y)
    BY <1>1, <1>3
  <2> QED BY <2>1, <1>1
<1>5. (SummerFrom <= x /\ x < SummerTo) <=> (SummerFrom <= y /\ y < SummerTo)
  BY <1>4
<1> QED BY <1>5 DEF Turn, Summer, CE!Offset

\* Time goes by, and the hour of the day with it.
LEMMA HoursPass ==
    ASSUME NEW a \in Int, NEW q \in Int, NEW t \in Int, a <= q, q <= t,
           a \div CE!Day = t \div CE!Day
    PROVE  /\ q \div CE!Day = t \div CE!Day
           /\ a % CE!Day \in 0 .. 95 /\ q % CE!Day \in 0 .. 95 /\ t % CE!Day \in 0 .. 95
           /\ a % CE!Day <= q % CE!Day /\ q % CE!Day <= t % CE!Day
BY DEF CE!Day

\* Two quarters of one day's session have no other session between them.
LEMMA OneSession ==
    ASSUME NEW a \in Int, NEW q \in Int, NEW t \in Int, a <= q, q <= t,
           a \div CE!Day = t \div CE!Day, CE!NC5AssignSession(t) \in CE!Sessions,
           CE!NC5AssignSession(a) = CE!NC5AssignSession(t)
    PROVE  CE!NC5AssignSession(q) = CE!NC5AssignSession(t)
<1> DEFINE A == a % CE!Day
           Q == q % CE!Day
           T == t % CE!Day
<1>1. A \in 0 .. 95 /\ Q \in 0 .. 95 /\ T \in 0 .. 95 /\ A <= Q /\ Q <= T
  BY HoursPass
<1>2. Turn(a) = Turn(t) /\ Turn(q) = Turn(t) /\ Turn(t) \in {72, 76}
  <2>1. q \div CE!Day = t \div CE!Day
    BY HoursPass
  <2>2. Turn(t) \in {72, 76}
    BY DEF Turn
  <2> QED BY <2>1, <2>2, SummerDays
<1>3. /\ CE!NC5AssignSession(a) = "ASIA" <=> 8 <= A /\ A < 44
      /\ CE!NC5AssignSession(a) = "EUROPE" <=> 44 <= A /\ A < Turn(a)
      /\ CE!NC5AssignSession(a) = "US" <=> Turn(a) <= A /\ A < Turn(a) + 20
  BY <1>1, SessionHours
<1>4. /\ CE!NC5AssignSession(q) = "ASIA" <=> 8 <= Q /\ Q < 44
      /\ CE!NC5AssignSession(q) = "EUROPE" <=> 44 <= Q /\ Q < Turn(q)
      /\ CE!NC5AssignSession(q) = "US" <=> Turn(q) <= Q /\ Q < Turn(q) + 20
  BY <1>1, SessionHours
<1>5. /\ CE!NC5AssignSession(t) = "ASIA" <=> 8 <= T /\ T < 44
      /\ CE!NC5AssignSession(t) = "EUROPE" <=> 44 <= T /\ T < Turn(t)
      /\ CE!NC5AssignSession(t) = "US" <=> Turn(t) <= T /\ T < Turn(t) + 20
  BY <1>1, SessionHours
<1> HIDE DEF A, Q, T
<1>6. CASE CE!NC5AssignSession(t) = "ASIA"
  BY <1>1, <1>3, <1>4, <1>5, <1>6
<1>7. CASE CE!NC5AssignSession(t) = "EUROPE"
  BY <1>1, <1>2, <1>3, <1>4, <1>5, <1>7
<1>8. CASE CE!NC5AssignSession(t) = "US"
  BY <1>1, <1>2, <1>3, <1>4, <1>5, <1>8
<1> QED BY <1>6, <1>7, <1>8 DEF CE!Sessions

\* The engine's session of an episode is the helper's session of its first deal.
LEMMA SameSessions ==
    ASSUME NEW at \in Int, NEW e, e.first = CE!Utc(at), e.offset = CE!Offset(at)
    PROVE  CE!Session(e) = CE!NC5AssignSession(at) /\ CE!SessionDay(e) = at \div CE!Day
<1>1. e.first + e.offset = at
  BY DEF CE!Utc, CE!Offset
<1> DEFINE x == at % CE!Day
           shift == IF Summer(at) THEN 0 ELSE 1
           Asia == 4 * 2 <= x /\ x < 4 * 11
           Europe == 4 * (9 + shift) <= x /\ x < 4 * (18 + shift)
           US == x >= 4 * (18 + shift) /\ x < 4 * (23 + shift)
<1>2. CE!Session(e) = CASE Asia -> "ASIA" [] ~ Asia /\ Europe -> "EUROPE" [] US -> "US"
                        [] OTHER -> "OUTSIDE_SESSION"
  BY <1>1 DEF CE!Session, Summer
<1>3. x \in 0 .. 95
  BY DEF CE!Day
<1>4. CE!NC5AssignSession(at) =
          IF 8 <= x /\ x < 44 THEN "ASIA"
          ELSE IF 36 + 4 * shift <= x /\ x < 72 + 4 * shift THEN "EUROPE"
          ELSE IF 56 + 4 * shift <= x /\ x < 92 + 4 * shift THEN "US"
          ELSE "OUTSIDE_SESSION"
  <2>1. 4 * shift = IF Summer(at) THEN 0 ELSE 4
    OBVIOUS
  <2> QED BY <2>1 DEF CE!NC5AssignSession, Summer
<1>5. shift \in {0, 1}
  OBVIOUS
<1> HIDE DEF x, shift
<1>6. CE!Session(e) = CE!NC5AssignSession(at)
  <2>1. CASE Asia
    BY <2>1, <1>2, <1>3, <1>4, <1>5
  <2>2. CASE ~ Asia /\ Europe
    BY <2>2, <1>2, <1>3, <1>4, <1>5
  <2>3. CASE US
    BY <2>3, <1>2, <1>3, <1>4, <1>5
  <2>4. CASE ~ Asia /\ ~ Europe /\ ~ US
    BY <2>4, <1>2, <1>3, <1>4, <1>5
  <2> QED BY <2>1, <2>2, <2>3, <2>4
<1> QED BY <1>1, <1>6 DEF CE!SessionDay

-----------------------------------------------------------------------------
(* What the helper finds *)

\* The least of some integers that have a bound below, and the greatest with one above.
LEMMA LeastInteger ==
    ASSUME NEW a \in Int, NEW T, T \subseteq Int, T # {}, \A x \in T : a <= x
    PROVE  \E n \in T : \A m \in T : n <= m
<1> DEFINE U == {x \in Nat : a + x \in T}
<1>1. U # {} /\ U \subseteq Nat
  <2>1. PICK x \in T : x \in Int /\ a <= x
    OBVIOUS
  <2>2. x - a \in Nat /\ a + (x - a) = x
    BY <2>1
  <2> QED BY <2>1, <2>2
<1>2. PICK n \in U : \A m \in U : n <= m
  <2> HIDE DEF U
  <2> QED BY <1>1, LeastNatural
<1>3. ASSUME NEW m \in T PROVE a + n <= m
  <2>1. m \in Int /\ a <= m
    OBVIOUS
  <2>2. m - a \in Nat /\ a + (m - a) = m
    BY <2>1
  <2>3. n <= m - a /\ n \in Nat
    BY <1>2, <2>2
  <2> QED BY <2>1, <2>3
<1> QED BY <1>2, <1>3

LEMMA GreatestInteger ==
    ASSUME NEW a \in Int, NEW T, T \subseteq Int, T # {}, \A x \in T : x <= a
    PROVE  \E n \in T : \A m \in T : m <= n
<1> DEFINE U == {x \in Nat : a - x \in T}
<1>1. U # {} /\ U \subseteq Nat
  <2>1. PICK x \in T : x \in Int /\ x <= a
    OBVIOUS
  <2>2. a - x \in Nat /\ a - (a - x) = x
    BY <2>1
  <2> QED BY <2>1, <2>2
<1>2. PICK n \in U : \A m \in U : n <= m
  <2> HIDE DEF U
  <2> QED BY <1>1, LeastNatural
<1>3. ASSUME NEW m \in T PROVE m <= a - n
  <2>1. m \in Int /\ m <= a
    OBVIOUS
  <2>2. a - m \in Nat /\ a - (a - m) = m
    BY <2>1
  <2>3. n <= a - m /\ n \in Nat
    BY <1>2, <2>2
  <2> QED BY <2>1, <2>3
<1> QED BY <1>2, <1>3

LEMMA SessionStartDoes ==
    ASSUME NEW t \in Int, NEW s, s = CE!SessionStart(t)
    PROVE  /\ s \in t - 96 .. t
           /\ s = t - 96 \/ CE!NC5AssignSession(s - 1) # CE!NC5AssignSession(t)
<1> DEFINE P(x) == \A q \in x .. t : CE!NC5AssignSession(q) = CE!NC5AssignSession(t)
           Q(x) == x = t - 96 \/ CE!NC5AssignSession(x - 1) # CE!NC5AssignSession(t)
           T == {x \in t - 96 .. t : P(x)}
<1>1. s = CHOOSE x \in t - 96 .. t : P(x) /\ Q(x)
  BY DEF CE!SessionStart, CE!Day
<1>2. \E x \in t - 96 .. t : P(x) /\ Q(x)
  <2>1. t \in T
    <3>1. \A q \in t .. t : q = t
      OBVIOUS
    <3> QED BY <3>1
  <2>2. T \subseteq Int /\ T # {} /\ \A x \in T : t - 96 <= x
    BY <2>1
  <2>3. PICK x \in T : \A y \in T : x <= y
    <3> HIDE DEF T
    <3>1. t - 96 \in Int
      OBVIOUS
    <3> QED BY <2>2, <3>1, LeastInteger
  <2>4. Q(x)
    <3> SUFFICES ASSUME x # t - 96, CE!NC5AssignSession(x - 1) = CE!NC5AssignSession(t)
                 PROVE  FALSE
      OBVIOUS
    <3>1. x - 1 \in t - 96 .. t /\ ~ (x <= x - 1)
      OBVIOUS
    <3>2. \A q \in x - 1 .. t : q = x - 1 \/ q \in x .. t
      OBVIOUS
    <3>3. P(x - 1)
      BY <3>2
    <3> QED BY <2>3, <3>1, <3>3
  <2> QED BY <2>4
<1> HIDE DEF P, Q
<1>3. s \in t - 96 .. t /\ Q(s)
  BY <1>1, <1>2
<1> QED BY <1>3 DEF Q

LEMMA SessionEndDoes ==
    ASSUME NEW t \in Int
    PROVE  CE!SessionEnd(t) \in Int /\ CE!SessionEnd(t) > t
<1> DEFINE P(x) == \A q \in t .. x - 1 : CE!NC5AssignSession(q) = CE!NC5AssignSession(t)
           Q(x) == x = t + 96 + 1 \/ CE!NC5AssignSession(x) # CE!NC5AssignSession(t)
           T == {x \in t + 1 .. t + 96 + 1 : P(x)}
<1>1. CE!SessionEnd(t) = CHOOSE x \in t + 1 .. t + 96 + 1 : P(x) /\ Q(x)
  BY DEF CE!SessionEnd, CE!Day
<1>2. \E x \in t + 1 .. t + 96 + 1 : P(x) /\ Q(x)
  <2>1. t + 1 \in T
    <3>1. \A q \in t .. (t + 1) - 1 : q = t
      OBVIOUS
    <3> QED BY <3>1
  <2>2. T \subseteq Int /\ T # {} /\ \A x \in T : x <= t + 96 + 1
    BY <2>1
  <2>3. PICK x \in T : \A y \in T : y <= x
    <3> HIDE DEF T
    <3>1. t + 96 + 1 \in Int
      OBVIOUS
    <3> QED BY <2>2, <3>1, GreatestInteger
  <2>4. Q(x)
    <3> SUFFICES ASSUME x # t + 96 + 1, CE!NC5AssignSession(x) = CE!NC5AssignSession(t)
                 PROVE  FALSE
      OBVIOUS
    <3>1. x + 1 \in t + 1 .. t + 96 + 1 /\ ~ (x + 1 <= x)
      OBVIOUS
    <3>2. \A q \in t .. (x + 1) - 1 : q = x \/ q \in t .. x - 1
      OBVIOUS
    <3>3. P(x + 1)
      BY <3>2
    <3> QED BY <2>3, <3>1, <3>3
  <2> QED BY <2>4
<1> HIDE DEF P, Q
<1>3. CE!SessionEnd(t) \in t + 1 .. t + 96 + 1
  BY <1>1, <1>2
<1> QED BY <1>3

\* Until the time of re-entry no other session begins.
LEMMA ReentryDoes ==
    ASSUME NEW t \in Int, CE!NC5AssignSession(t) \in CE!Sessions, NEW u \in Int, t <= u,
           \A q \in t .. u : CE!NC5AssignSession(q) = CE!NC5AssignSession(t)
    PROVE  CE!NC5NextReentry(t) \in Int /\ CE!NC5NextReentry(t) > u
<1> DEFINE P(x) == CE!NC5AssignSession(x) \in CE!Sessions \ {CE!NC5AssignSession(t)}
           Q(x) == \A q \in t + 1 .. x - 1 : ~ P(q)
           T == {x \in t + 1 .. t + 192 : P(x)}
           d == t \div 96
           r == t % 96
<1>1. CE!NC5NextReentry(t) = CHOOSE x \in t + 1 .. t + 192 : P(x) /\ Q(x)
  <2>1. 2 * CE!Day = 192
    BY DEF CE!Day
  <2> QED BY <2>1 DEF CE!NC5NextReentry
<1>2. T # {}
  <2>1. t = 96 * d + r /\ d \in Int /\ r \in 0 .. 95 /\ r = t % CE!Day
    BY DEF CE!Day
  <2> HIDE DEF d, r
  <2>2. CASE CE!NC5AssignSession(t) # "ASIA"
    <3> DEFINE x == 96 * (d + 1) + 8
    <3>1. x \in Int /\ x % CE!Day = 8
      BY <2>1 DEF CE!Day
    <3>2. x \in t + 1 .. t + 192
      BY <2>1
    <3> HIDE DEF x
    <3>3. CE!NC5AssignSession(x) = "ASIA"
      <4>1. 8 \in 0 .. 95 /\ 8 <= 8 /\ 8 < 44
        OBVIOUS
      <4> QED BY <3>1, <4>1, SessionHours
    <3>4. P(x)
      BY <2>2, <3>3 DEF CE!Sessions
    <3> QED BY <3>2, <3>4
  <2>3. CASE CE!NC5AssignSession(t) = "ASIA"
    <3> DEFINE x == 96 * d + 44
    <3>1. x \in Int /\ x % CE!Day = 44
      BY <2>1 DEF CE!Day
    <3>2. r < 44
      BY <2>1, <2>3, SessionHours
    <3>3. x \in t + 1 .. t + 192
      BY <2>1, <3>2
    <3> HIDE DEF x
    <3>4. CE!NC5AssignSession(x) = "EUROPE"
      <4>1. 44 \in 0 .. 95 /\ 44 <= 44 /\ 44 < Turn(x)
        BY DEF Turn
      <4> QED BY <3>1, <4>1, SessionHours
    <3>5. P(x)
      BY <2>3, <3>4 DEF CE!Sessions
    <3> QED BY <3>3, <3>5
  <2> QED BY <2>2, <2>3
<1>3. \E x \in t + 1 .. t + 192 : P(x) /\ Q(x)
  <2> HIDE DEF d, r
  <2>1. T \subseteq Int /\ \A x \in T : t + 1 <= x
    OBVIOUS
  <2>2. PICK x \in T : \A y \in T : x <= y
    <3> HIDE DEF T
    <3>1. t + 1 \in Int
      OBVIOUS
    <3> QED BY <1>2, <2>1, <3>1, LeastInteger
  <2>3. Q(x)
    <3> SUFFICES ASSUME NEW q \in t + 1 .. x - 1, P(q) PROVE FALSE
      OBVIOUS
    <3>1. q \in t + 1 .. t + 192 /\ ~ (x <= q)
      OBVIOUS
    <3> QED BY <2>2, <3>1
  <2> QED BY <2>3
<1> DEFINE n == CE!NC5NextReentry(t)
<1>4. n \in t + 1 .. t + 192 /\ P(n)
  <2> HIDE DEF P, Q
  <2> QED BY <1>1, <1>3
<1> HIDE DEF n
<1>5. n > u
  <2> SUFFICES ASSUME ~ (n > u) PROVE FALSE
    OBVIOUS
  <2>1. n \in t .. u
    BY <1>4
  <2> QED BY <1>4, <2>1
<1> QED BY <1>4, <1>5 DEF n

\* What the helper takes for the beginning of a position is a deal of that position, no
\* earlier than the one an episode began with.
LEMMA OpeningDoes ==
    ASSUME NEW lg \in Seq(CEDeal), log = lg, NEW n \in Nat, n <= Len(lg), NEW j \in 1 .. n,
           lg[j].entry \in {"IN", "INOUT"},
           lg[j].entry = "IN" => \A i \in 1 .. j - 1 : lg[i].pos # lg[j].pos,
           NEW o, o = CE!EpisodeOpening(lg[j].pos, n)
    PROVE  /\ o \in j .. n /\ lg[o].pos = lg[j].pos /\ lg[o].entry \in {"IN", "INOUT"}
<1> DEFINE p == lg[j].pos
           Of(kind) == {i \in 1 .. n : lg[i].pos = p /\ lg[i].entry = kind}
<1>1. o = IF Of("INOUT") # {} THEN CHOOSE i \in Of("INOUT") : \A k \in Of("INOUT") : k <= i
          ELSE CHOOSE i \in Of("IN") : \A k \in Of("IN") : i <= k
  BY DEF CE!EpisodeOpening
<1>2. \A kind : Of(kind) \subseteq Int /\ \A i \in Of(kind) : i <= n /\ 1 <= i
  OBVIOUS
<1>3. \A kind : \A i \in Of(kind) : i \in 1 .. n /\ lg[i].pos = p /\ lg[i].entry = kind
  OBVIOUS
<1>4. j \in Of("IN") \/ j \in Of("INOUT")
  OBVIOUS
<1>5. lg[j].entry = "IN" => \A kind : \A i \in Of(kind) : j <= i
  OBVIOUS
<1>6. j \in Of("INOUT") \/ lg[j].entry = "IN"
  OBVIOUS
<1> HIDE DEF Of
<1>7. CASE Of("INOUT") # {}
  <2> DEFINE T == Of("INOUT")
  <2>1. \E i \in T : \A k \in T : k <= i
    <3>1. T \subseteq Int /\ T # {} /\ (\A x \in T : x <= n) /\ n \in Int
      BY <1>2, <1>7
    <3> HIDE DEF T
    <3> QED BY <3>1, GreatestInteger
  <2>2. o = CHOOSE i \in T : \A k \in T : k <= i
    BY <1>1, <1>7
  <2>3. o \in T /\ \A k \in T : k <= o
    <3> HIDE DEF T
    <3> QED BY <2>1, <2>2
  <2>4. o \in 1 .. n /\ lg[o].pos = p /\ lg[o].entry = "INOUT" /\ j <= o
    BY <2>3, <1>3, <1>5, <1>6
  <2> QED BY <2>4
<1>8. CASE Of("INOUT") = {}
  <2> DEFINE T == Of("IN")
  <2>0. j \in T /\ lg[j].entry = "IN"
    BY <1>4, <1>6, <1>8
  <2>1. \E i \in T : \A k \in T : i <= k
    <3>1. T \subseteq Int /\ T # {} /\ (\A x \in T : 1 <= x) /\ 1 \in Int
      BY <1>2, <2>0
    <3> HIDE DEF T
    <3> QED BY <3>1, LeastInteger
  <2>2. o = CHOOSE i \in T : \A k \in T : i <= k
    BY <1>1, <1>8
  <2>3. o \in T
    <3> HIDE DEF T
    <3> QED BY <2>1, <2>2
  <2>4. o \in 1 .. n /\ lg[o].pos = p /\ lg[o].entry = "IN" /\ j <= o
    BY <2>0, <2>3, <1>3, <1>5
  <2> QED BY <2>4
<1> QED BY <1>7, <1>8

-----------------------------------------------------------------------------
(* The helper's advice *)

\* An entry is the first deal of its position.
FirstOf(j) == log[j].entry = "IN" => \A i \in 1 .. j - 1 : log[i].pos # log[j].pos

\* What the invariant says of the deals that began two episodes, one a repeat of the other.
LEMMA AdviceHolds == CESound /\ CEPast => AdviceIsSafe
<1> SUFFICES ASSUME CESound, CEPast, CE!Whole, CE!InOrder,
                    NEW es, es = CE!NormalizeEpisodes, NEW k \in DOMAIN es,
                    NEW i, i = es[k].ticket - FirstTicket, NEW t, t = log[i].at,
                    CE!Session(es[k]) # "OUTSIDE_SESSION", es[k].sym \in Products,
                    NEW repeats,
                    repeats = {m \in DOMAIN es \ {k} :
                        /\ es[m].sym = es[k].sym /\ CE!Before(es[m].ticket - FirstTicket, i)
                        /\ CE!Session(es[m]) = CE!Session(es[k])
                        /\ CE!SessionDay(es[m]) = CE!SessionDay(es[k])},
                    repeats # {}
             PROVE  /\ es[k].sym \in CE!Look(i - 1, t)
                    /\ \A m \in repeats :
                           CE!NC5ReminderText(log[es[m].ticket - FirstTicket].at).reentry > t
  BY DEF AdviceIsSafe, CE!AdviceIsSafe
<1>1. /\ log \in Seq(CEDeal) /\ es \in Seq(CEEpisode) /\ es = CE!EpisodesOf(log)
      /\ Numbered(log, CE!Server) /\ OneSymbol(log) /\ Origin(log, es)
  BY SortedIsLog DEF CESound, CEPast, Books, Past, CE!NormalizeEpisodes
<1>2. /\ Len(log) \in Nat /\ DOMAIN log = 1 .. Len(log) /\ CE!SentDeals = DOMAIN log
      /\ \A x \in DOMAIN log : log[x] \in CEDeal /\ log[x].at \in Int
  <2>1. \A x \in DOMAIN log : log[x] \in CEDeal
    BY <1>1
  <2>2. Len(log) \in Nat /\ DOMAIN log = 1 .. Len(log)
    BY <1>1
  <2> QED BY <2>1, <2>2 DEF CE!Whole, CEDeal
<1>3. i \in DOMAIN log /\ log[i].sym = es[k].sym /\ t \in Int
      /\ es[k].first = CE!Utc(t) /\ es[k].offset = CE!Offset(t)
  <2>1. Arisen(log, es[k])
    BY <1>1 DEF Origin
  <2> QED BY <2>1, <1>2 DEF Arisen
<1>4. CE!Session(es[k]) = CE!NC5AssignSession(t) /\ CE!SessionDay(es[k]) = t \div CE!Day
  BY <1>3, SameSessions
<1>5. CE!NC5AssignSession(t) \in CE!Sessions
  <2>1. CE!NC5AssignSession(t) \in {"ASIA", "EUROPE", "US", "OUTSIDE_SESSION"}
    BY DEF CE!NC5AssignSession
  <2> QED BY <2>1, <1>4 DEF CE!Sessions
<1>6. ASSUME NEW m \in repeats, NEW j, j = es[m].ticket - FirstTicket
      PROVE  /\ j \in DOMAIN log /\ j < i /\ log[j].at <= t /\ log[j].sym = es[k].sym
             /\ log[j].entry \in {"IN", "INOUT"}
             /\ FirstOf(j)
             /\ log[j].at \div CE!Day = t \div CE!Day
             /\ CE!NC5AssignSession(log[j].at) = CE!NC5AssignSession(t)
  <2>1. /\ m \in DOMAIN es /\ es[m].sym = es[k].sym /\ CE!Before(j, i)
        /\ CE!Session(es[m]) = CE!Session(es[k]) /\ CE!SessionDay(es[m]) = CE!SessionDay(es[k])
    BY <1>6
  <2>2. Arisen(log, es[m])
    BY <2>1, <1>1 DEF Origin
  <2>3. /\ j \in DOMAIN log /\ log[j].sym = es[k].sym /\ log[j].entry \in {"IN", "INOUT"}
        /\ FirstOf(j) /\ es[m].first = CE!Utc(log[j].at) /\ es[m].offset = CE!Offset(log[j].at)
    BY <2>1, <2>2, <1>6 DEF Arisen, FirstOf
  <2>4. j < i
    <3>1. ~ CE!Before(i, j)
      BY <1>1, <1>3, <2>1, <2>3, BeforeIsAsymmetric
    <3>2. i < j => CE!Before(i, j)
      BY <1>2, <1>3, <2>3 DEF CE!InOrder
    <3>3. i # j
      BY <2>1, <3>1
    <3> QED BY <1>2, <1>3, <2>3, <3>1, <3>2, <3>3
  <2>5. log[j].at <= t
    BY <1>1, <1>2, <1>3, <2>3, <2>4 DEF Numbered
  <2>6. /\ CE!Session(es[m]) = CE!NC5AssignSession(log[j].at)
        /\ CE!SessionDay(es[m]) = log[j].at \div CE!Day
    BY <1>2, <2>3, SameSessions
  <2> QED BY <1>4, <2>1, <2>3, <2>4, <2>5, <2>6
<1>7. ASSUME NEW m \in repeats
      PROVE  CE!NC5ReminderText(log[es[m].ticket - FirstTicket].at).reentry > t
  <2> DEFINE j == es[m].ticket - FirstTicket
             a == log[j].at
  <2>1. /\ j \in DOMAIN log /\ a <= t /\ a \div CE!Day = t \div CE!Day
        /\ CE!NC5AssignSession(a) = CE!NC5AssignSession(t)
    BY <1>6
  <2>2. a \in Int
    BY <1>2, <2>1
  <2> HIDE DEF j, a
  <2>3. \A q \in a .. t : CE!NC5AssignSession(q) = CE!NC5AssignSession(a)
    <3> TAKE q \in a .. t
    <3>1. q \in Int /\ a <= q /\ q <= t
      BY <1>3, <2>2
    <3> QED BY <1>3, <1>5, <2>1, <2>2, <3>1, OneSession
  <2>4. CE!NC5NextReentry(a) > t
    BY <1>3, <1>5, <2>1, <2>2, <2>3, ReentryDoes
  <2> QED BY <2>4 DEF CE!NC5ReminderText, j, a
<1>8. es[k].sym \in CE!Look(i - 1, t)
  <2>1. PICK m \in repeats : TRUE
    OBVIOUS
  <2> DEFINE j == es[m].ticket - FirstTicket
             o == CE!EpisodeOpening(log[j].pos, i - 1)
             from == CE!SessionStart(t)
             to == CE!SessionEnd(t)
  <2>2. /\ j \in DOMAIN log /\ j < i /\ log[j].at <= t /\ log[j].sym = es[k].sym
        /\ log[j].entry \in {"IN", "INOUT"} /\ FirstOf(j)
        /\ log[j].at \div CE!Day = t \div CE!Day
        /\ CE!NC5AssignSession(log[j].at) = CE!NC5AssignSession(t)
    BY <1>6
  <2> HIDE DEF j
  <2>3. i - 1 \in Nat /\ i - 1 <= Len(log) /\ j \in 1 .. i - 1 /\ i \in 1 .. Len(log)
    BY <1>2, <1>3, <2>2
  <2>4. o \in j .. i - 1 /\ log[o].pos = log[j].pos /\ log[o].entry \in {"IN", "INOUT"}
    BY <1>1, <2>2, <2>3, OpeningDoes DEF FirstOf
  <2>5. o = CE!EpisodeOpening(log[o].pos, i - 1)
    BY <2>4
  <2> HIDE DEF o, from, to
  <2>6. /\ o \in DOMAIN log /\ o \in 1 .. i - 1 /\ log[o].at \in Int /\ log[j].at \in Int
        /\ log[j].at <= log[o].at /\ log[o].at <= t
    <3>1. o \in DOMAIN log /\ o \in 1 .. i - 1 /\ j <= o /\ o <= i
      BY <1>2, <2>2, <2>3, <2>4
    <3> QED BY <1>1, <1>2, <1>3, <2>2, <3>1 DEF Numbered
  <2>7. log[o].sym = es[k].sym
    BY <1>1, <2>2, <2>4, <2>6 DEF OneSymbol
  <2>8. to > t /\ to \in Int
    BY <1>3, SessionEndDoes DEF to
  <2>9. from <= log[o].at
    <3>1. from \in t - 96 .. t /\ (from = t - 96 \/ CE!NC5AssignSession(from - 1) # CE!NC5AssignSession(t))
      BY <1>3, SessionStartDoes DEF from
    <3>2. t - 96 < log[j].at
      BY <1>3, <2>2, <2>6 DEF CE!Day
    <3> SUFFICES ASSUME ~ (from <= log[o].at) PROVE FALSE
      OBVIOUS
    <3>3. from - 1 \in Int /\ log[j].at <= from - 1 /\ from - 1 <= t /\ from # t - 96
      BY <1>3, <2>6, <3>1, <3>2
    <3>4. CE!NC5AssignSession(from - 1) = CE!NC5AssignSession(t)
      BY <1>3, <1>5, <2>2, <2>6, <3>3, OneSession
    <3> QED BY <3>1, <3>3, <3>4
  <2>10. log[o].at < to
    BY <1>3, <2>6, <2>8
  <2>11. es[k].sym \in CE!CollectCurrentSessionSymbols(i - 1, from, to)
    BY <2>4, <2>5, <2>6, <2>7, <2>9, <2>10 DEF CE!CollectCurrentSessionSymbols
  <2> QED BY <1>5, <2>11 DEF CE!Look, from, to
<1> QED BY <1>7, <1>8

\* Whatever the sessions an account trades in: an entry that counts against rule C5 stood in
\* the helper's look of that moment, and the re-entry time of every opening it repeats lay
\* ahead, as long as the history reaches the engine whole and in order.
THEOREM AdviceIsSafeHolds == CE!Spec => []AdviceIsSafe
<1>1. CE!Init => CESound /\ CEPast
  BY CEStart, CEPastStart
<1>2. CESound /\ CEPast /\ [CE!Next]_(CE!vars) => (CESound /\ CEPast)'
  BY CEStep, CEPastStep
<1>3. CESound /\ CEPast => AdviceIsSafe
  BY AdviceHolds
<1> QED BY <1>1, <1>2, <1>3, PTL DEF CE!Spec

-----------------------------------------------------------------------------
(* The months *)

\* What a sum ranges over is split in two.
LEMMA SumSplits ==
    ASSUME NEW n \in Nat, NEW S, NEW T, NEW U, NEW f, Numbers2(n, S, f), Numbers2(n, T, f),
           S \cap T = {}, \A k \in 0 .. n : k \in U <=> k \in S \/ k \in T
    PROVE  CE!SumOf(n, U, f) = CE!SumOf(n, S, f) + CE!SumOf(n, T, f)
<1>1. ASSUME NEW k \in 0 .. n PROVE Term(U, f, k) = Term(S, f, k) + Term(T, f, k)
  <2>1. Term(S, f, k) \in Int /\ Term(T, f, k) \in Int
    BY DEF Numbers2
  <2>2. CASE k \in S
    <3>1. k \notin T /\ k \in U
      BY <2>2
    <3>2. Term(U, f, k) = f[k] /\ Term(S, f, k) = f[k] /\ Term(T, f, k) = 0
      BY <2>2, <3>1 DEF Term
    <3> QED BY <2>1, <3>2
  <2>3. CASE k \in T
    <3>1. k \notin S /\ k \in U
      BY <2>3
    <3>2. Term(U, f, k) = f[k] /\ Term(T, f, k) = f[k] /\ Term(S, f, k) = 0
      BY <2>3, <3>1 DEF Term
    <3> QED BY <2>1, <3>2
  <2>4. CASE k \notin S /\ k \notin T
    BY <2>4 DEF Term
  <2> QED BY <2>2, <2>3, <2>4
<1> QED BY <1>1, SumsAdd

\* The profits of some episodes are numbers, and so are some amounts.
LEMMA ProfitNumbers ==
    ASSUME NEW es \in Seq(CEEpisode), NEW S, S \subseteq DOMAIN es
    PROVE  Numbers2(Len(es), S, CE!ProfitOf(es))
<1>1. \A k \in DOMAIN es : CE!ProfitOf(es)[k] \in Int
  <2>1. \A k \in DOMAIN es : es[k].profit \in Int
    BY Earners DEF Earning
  <2> QED BY <2>1 DEF CE!ProfitOf
<1>2. ASSUME NEW k \in 0 .. Len(es) PROVE Term(S, CE!ProfitOf(es), k) \in Int
  <2>1. k \in S => Term(S, CE!ProfitOf(es), k) = CE!ProfitOf(es)[k]
    BY DEF Term
  <2>2. k \notin S => Term(S, CE!ProfitOf(es), k) = 0
    BY DEF Term
  <2> QED BY <1>1, <2>1, <2>2
<1> QED BY <1>2 DEF Numbers2

LEMMA CashNumbers ==
    ASSUME cash \in Seq(CEFlow), NEW S, S \subseteq DOMAIN cash
    PROVE  Numbers2(Len(cash), S, CE!Amounts)
<1>1. \A k \in DOMAIN cash : CE!Amounts[k] \in Int
  <2>1. \A k \in DOMAIN cash : cash[k].amount \in Int
    <3>1. \A k \in DOMAIN cash : cash[k] \in CEFlow
      OBVIOUS
    <3> QED BY <3>1 DEF CEFlow
  <2> QED BY <2>1 DEF CE!Amounts
<1>2. ASSUME NEW k \in 0 .. Len(cash) PROVE Term(S, CE!Amounts, k) \in Int
  <2>1. k \in S => Term(S, CE!Amounts, k) = CE!Amounts[k]
    BY DEF Term
  <2>2. k \notin S => Term(S, CE!Amounts, k) = 0
    BY DEF Term
  <2> QED BY <1>1, <2>1, <2>2
<1> QED BY <1>2 DEF Numbers2

\* The profit between two moments is a number, none between a moment and itself, and a
\* moment between the two divides it.
LEMMA ProfitTyped ==
    ASSUME NEW es \in Seq(CEEpisode), NEW a, NEW b
    PROVE  CE!ProfitIn(es, a, b) \in Int
<1>1. Numbers2(Len(es), CE!ClosedIn(es, a, b), CE!ProfitOf(es)) /\ Len(es) \in Nat
  <2>1. CE!ClosedIn(es, a, b) \subseteq DOMAIN es
    BY DEF CE!ClosedIn
  <2> QED BY <2>1, ProfitNumbers
<1> QED BY <1>1, SumTyped DEF CE!ProfitIn

LEMMA CloseTyped ==
    ASSUME NEW es \in Seq(CEEpisode)
    PROVE  \A k \in DOMAIN es : es[k].close \in Int
<1>1. \A k \in DOMAIN es : es[k] \in CEEpisode
  OBVIOUS
<1> QED BY <1>1 DEF CEEpisode

LEMMA ProfitOfNoTime ==
    ASSUME NEW es \in Seq(CEEpisode), NEW a \in Int
    PROVE  CE!ProfitIn(es, a, a) = 0
<1>1. CE!ClosedIn(es, a, a) = {}
  <2>1. \A k \in DOMAIN es : es[k].close \in Int
    BY CloseTyped
  <2> QED BY <2>1 DEF CE!ClosedIn
<1>2. Len(es) \in Nat /\ \A k \in 0 .. Len(es) : Term({}, CE!ProfitOf(es), k) = 0
  BY DEF Term
<1> QED BY <1>1, <1>2, SumOfNone DEF CE!ProfitIn

LEMMA ProfitSplits ==
    ASSUME NEW es \in Seq(CEEpisode), NEW a \in Int, NEW b \in Int, NEW c \in Int, a <= b, b <= c
    PROVE  CE!ProfitIn(es, a, c) = CE!ProfitIn(es, a, b) + CE!ProfitIn(es, b, c)
<1> DEFINE S == CE!ClosedIn(es, a, b)
           T == CE!ClosedIn(es, b, c)
           U == CE!ClosedIn(es, a, c)
<1>1. \A k \in DOMAIN es : es[k].close \in Int
  BY CloseTyped
<1>2. S \cap T = {} /\ (\A k : k \in U <=> k \in S \/ k \in T)
  BY <1>1 DEF CE!ClosedIn
<1>3. S \subseteq DOMAIN es /\ T \subseteq DOMAIN es
  BY DEF CE!ClosedIn
<1> HIDE DEF S, T, U
<1>4. Numbers2(Len(es), S, CE!ProfitOf(es)) /\ Numbers2(Len(es), T, CE!ProfitOf(es))
  BY <1>3, ProfitNumbers
<1>5. Len(es) \in Nat
  OBVIOUS
<1>6. CE!SumOf(Len(es), U, CE!ProfitOf(es))
      = CE!SumOf(Len(es), S, CE!ProfitOf(es)) + CE!SumOf(Len(es), T, CE!ProfitOf(es))
  BY <1>2, <1>4, <1>5, SumSplits
<1> QED BY <1>6 DEF CE!ProfitIn, S, T, U

\* All the episodes have been closed between lo and hi.
Ended(es, lo, hi) == \A k \in DOMAIN es : ~ es[k].open /\ lo <= es[k].close /\ es[k].close < hi

LEMMA ProfitOfAll ==
    ASSUME NEW es \in Seq(CEEpisode), NEW a, NEW b, Ended(es, a, b)
    PROVE  CE!ProfitIn(es, a, b) = Total(es)
<1>1. CE!ClosedIn(es, a, b) = DOMAIN es
  BY DEF CE!ClosedIn, Ended
<1> QED BY <1>1 DEF CE!ProfitIn, Total

\* The same of money that came and went.
LEMMA CashTyped ==
    ASSUME cash \in Seq(CEFlow), CE!Whole, NEW a, NEW b
    PROVE  CE!CashIn(a, b) \in Int
<1>1. Numbers2(Len(cash), CE!FlowsIn(a, b), CE!Amounts) /\ Len(cash) \in Nat
  <2>1. CE!FlowsIn(a, b) \subseteq DOMAIN cash
    BY DEF CE!FlowsIn, CE!Whole
  <2> QED BY <2>1, CashNumbers
<1> QED BY <1>1, SumTyped DEF CE!CashIn

LEMMA CashUtc ==
    ASSUME cash \in Seq(CEFlow), NEW k \in DOMAIN cash
    PROVE  CE!Utc(cash[k].at) \in Int
<1>1. cash[k].at \in Int
  <2>1. cash[k] \in CEFlow
    OBVIOUS
  <2> QED BY <2>1 DEF CEFlow
<1> QED BY <1>1 DEF CE!Utc, CE!Offset

LEMMA CashOfNoTime ==
    ASSUME cash \in Seq(CEFlow), CE!Whole, NEW a \in Int
    PROVE  CE!CashIn(a, a) = 0
<1>1. CE!FlowsIn(a, a) = {}
  BY CashUtc DEF CE!FlowsIn, CE!Whole
<1>2. Len(cash) \in Nat /\ \A k \in 0 .. Len(cash) : Term({}, CE!Amounts, k) = 0
  BY DEF Term
<1> QED BY <1>1, <1>2, SumOfNone DEF CE!CashIn

LEMMA CashSplits ==
    ASSUME cash \in Seq(CEFlow), CE!Whole, NEW a \in Int, NEW b \in Int, NEW c \in Int, a <= b, b <= c
    PROVE  CE!CashIn(a, c) = CE!CashIn(a, b) + CE!CashIn(b, c)
<1> DEFINE S == CE!FlowsIn(a, b)
           T == CE!FlowsIn(b, c)
           U == CE!FlowsIn(a, c)
<1>1. S \cap T = {} /\ (\A k : k \in U <=> k \in S \/ k \in T)
  BY CashUtc DEF CE!FlowsIn, CE!Whole
<1>2. S \subseteq DOMAIN cash /\ T \subseteq DOMAIN cash
  BY DEF CE!FlowsIn, CE!Whole
<1> HIDE DEF S, T, U
<1>3. Numbers2(Len(cash), S, CE!Amounts) /\ Numbers2(Len(cash), T, CE!Amounts)
  BY <1>2, CashNumbers
<1>4. Len(cash) \in Nat
  OBVIOUS
<1>5. CE!SumOf(Len(cash), U, CE!Amounts)
      = CE!SumOf(Len(cash), S, CE!Amounts) + CE!SumOf(Len(cash), T, CE!Amounts)
  BY <1>1, <1>3, <1>4, SumSplits
<1> QED BY <1>5 DEF CE!CashIn, S, T, U

\* What came before a moment and what came from then on is all, if none of it is a credit.
NoCredit == \A i \in DOMAIN cash : cash[i].kind # "CREDIT"
CashBefore(a) == CE!SumOf(Len(cash), {i \in DOMAIN cash : CE!Utc(cash[i].at) < a}, CE!Amounts)
AllCash == CE!SumOf(Len(cash), {i \in DOMAIN cash : cash[i].kind # "CREDIT"}, CE!Amounts)

LEMMA CashOfAll ==
    ASSUME cash \in Seq(CEFlow), CE!Whole, NoCredit, NEW a \in Int, NEW b \in Int,
           \A i \in DOMAIN cash : CE!Utc(cash[i].at) < b
    PROVE  AllCash = CashBefore(a) + CE!CashIn(a, b) /\ CashBefore(a) \in Int
<1> DEFINE S == {i \in DOMAIN cash : CE!Utc(cash[i].at) < a}
           T == CE!FlowsIn(a, b)
           U == {i \in DOMAIN cash : cash[i].kind # "CREDIT"}
<1>1. S \cap T = {} /\ (\A k : k \in U <=> k \in S \/ k \in T)
  BY CashUtc DEF CE!FlowsIn, CE!Whole, NoCredit
<1>2. S \subseteq DOMAIN cash /\ T \subseteq DOMAIN cash
  BY DEF CE!FlowsIn, CE!Whole
<1> HIDE DEF S, T, U
<1>3. Numbers2(Len(cash), S, CE!Amounts) /\ Numbers2(Len(cash), T, CE!Amounts)
  BY <1>2, CashNumbers
<1>4. Len(cash) \in Nat
  OBVIOUS
<1>5. CE!SumOf(Len(cash), U, CE!Amounts)
      = CE!SumOf(Len(cash), S, CE!Amounts) + CE!SumOf(Len(cash), T, CE!Amounts)
  BY <1>1, <1>3, <1>4, SumSplits
<1>6. CE!SumOf(Len(cash), S, CE!Amounts) \in Int
  BY <1>3, <1>4, SumTyped
<1> QED BY <1>5, <1>6 DEF CE!CashIn, AllCash, CashBefore, S, T, U

\* No money is dated after now.
CECash == \A i \in DOMAIN cash : cash[i].at <= CE!Server

LEMMA CECashStart == CE!Init => CECash
<1> SUFFICES ASSUME CE!Init PROVE CECash
  OBVIOUS
<1>1. cash = <<>>
  BY DEF CE!Init
<1> QED BY <1>1 DEF CECash

LEMMA CECashStays ==
    ASSUME CESound, CEPast, CECash, cash' = cash, clock' \in Nat, clock <= clock'
    PROVE  CECash'
<1>1. CE!Server \in Int /\ CE!Server' \in Int /\ CE!Server <= CE!Server'
  BY ServerRuns DEF CESound
<1>2. \A i \in DOMAIN cash : cash[i].at \in Int /\ cash[i].at <= CE!Server
  <2>1. \A i \in DOMAIN cash : cash[i] \in CEFlow
    BY DEF CEPast
  <2> QED BY <2>1 DEF CEFlow, CECash
<1>3. \A i \in DOMAIN cash : cash[i].at <= CE!Server'
  BY <1>1, <1>2
<1>4. \A i \in DOMAIN cash' : cash'[i].at <= CE!Server'
  BY <1>3
<1> QED BY <1>4 DEF CECash

LEMMA CECashStep ==
    ASSUME CESound, CEPast, CECash, [CE!Next]_(CE!vars) PROVE CECash'
<1>0. clock \in Nat /\ cash \in Seq(CEFlow)
  BY DEF CESound, CEPast
<1>1. CASE UNCHANGED <<clock, cash>>
  BY <1>0, <1>1, CECashStays
<1>2. CASE \E p \in Positions :
              \/ \E s \in Symbols, side \in {1, -1}, price \in Prices :
                     CE!OpenPosition(p, s, side, price)
              \/ \E price \in Prices, same \in BOOLEAN : CE!Increase(p, price, same)
              \/ \E vol \in {1, held[p].vol}, profit \in Profits : CE!Reduce(p, vol, profit)
              \/ \E profit \in Profits : CE!ReversePosition(p, profit)
              \/ \E q \in Positions, profit \in Profits : CE!CloseBy(p, q, profit)
  <2>1. UNCHANGED <<clock, cash>>
    BY ZenonT(60), <1>2 DEF CE!OpenPosition, CE!Increase, CE!Reduce, CE!ReversePosition, CE!CloseBy
  <2> QED BY <2>1, <1>1
<1>3. CASE \E f \in Flows : CE!MoveCash(f)
  <2>1. PICK f \in Flows : CE!MoveCash(f)
    BY <1>3
  <2> DEFINE c == [kind |-> f.kind, amount |-> f.amount, at |-> CE!Server]
  <2>2. clock' = clock /\ cash' = Append(cash, c) /\ c.at = CE!Server
    BY <2>1 DEF CE!MoveCash
  <2> HIDE DEF c
  <2>3. CE!Server' = CE!Server
    BY <2>2 DEF CE!Server
  <2>4. CE!Server \in Int
    BY <1>0, ServerTyped
  <2>5. /\ Len(cash) \in Nat /\ DOMAIN cash = 1 .. Len(cash)
        /\ DOMAIN cash' = 1 .. (Len(cash) + 1) /\ cash'[Len(cash) + 1] = c
        /\ \A k \in 1 .. Len(cash) : cash'[k] = cash[k]
    BY <1>0, <2>2
  <2>6. ASSUME NEW i \in DOMAIN cash' PROVE cash'[i].at <= CE!Server
    <3>1. CASE i = Len(cash) + 1
      <4>1. cash'[i].at = CE!Server
        BY <3>1, <2>2, <2>5
      <4> QED BY <4>1, <2>4
    <3>2. CASE i # Len(cash) + 1
      <4>1. i \in DOMAIN cash /\ cash'[i] = cash[i]
        BY <3>2, <2>5
      <4> QED BY <4>1 DEF CECash
    <3> QED BY <3>1, <3>2
  <2>7. \A i \in DOMAIN cash' : cash'[i].at <= CE!Server'
    BY <2>3, <2>6
  <2> QED BY <2>7 DEF CECash
<1>4. CASE \E loss \in Losses : CE!Sync(loss)
  BY <1>4, <1>1 DEF CE!Sync, CE!account
<1>5. CASE \E w \in Delays : CE!Wait(w)
  <2>1. cash' = cash /\ clock' \in Nat /\ clock <= clock'
    BY <1>0, <1>5, EngineAssumption DEF CE!Wait, CE!account
  <2> QED BY <2>1, CECashStays
<1>6. CASE UNCHANGED CE!vars
  BY <1>6, <1>1 DEF CE!vars, CE!account
<1> QED BY <1>2, <1>3, <1>4, <1>5, <1>6 DEF CE!Next

\* What the broker dates by now lies before the day after the last.
LEMMA UtcBeforeLater ==
    ASSUME clock \in Nat, clock <= MaxClock, NEW t \in Int, t <= CE!Server
    PROVE  CE!Utc(t) \in Int /\ CE!Utc(t) < CE!Later
<1>1. BrokerFrom \in Nat /\ MaxClock \in Nat
  BY EngineAssumption, CalendarAssumption
<1>2. CE!Server = clock + 12 \/ CE!Server = clock + 8
  BY DEF CE!Server
<1>3. CE!Utc(t) = t - 12 \/ CE!Utc(t) = t - 8
  BY DEF CE!Utc, CE!Offset
<1>4. CE!Later = MaxClock + 96
  BY DEF CE!Later, CE!Day
<1> QED BY <1>1, <1>2, <1>3, <1>4

\* In the order of the deals an episode does not end before it begins.
LEMMA EndsAfter ==
    ASSUME log \in Seq(CEDeal), CE!Whole, CE!InOrder, NEW e \in CEEpisode, Arisen(log, e), ~ e.open
    PROVE  /\ e.first <= e.close
           /\ \E i \in DOMAIN log : e.first = CE!Utc(log[i].at)
           /\ \E i \in DOMAIN log : e.close = CE!Utc(log[i].at)
<1> DEFINE j == e.ticket - FirstTicket
<1>1. j \in DOMAIN log /\ e.first = CE!Utc(log[j].at)
  BY DEF Arisen
<1>2. PICK c \in DOMAIN log : j <= c /\ e.close = CE!Utc(log[c].at)
  BY DEF Arisen
<1> HIDE DEF j
<1>3. e.first \in Int /\ e.close \in Int
  BY DEF CEEpisode
<1>4. CASE j = c
  BY <1>1, <1>2, <1>3, <1>4
<1>5. CASE j # c
  <2>1. j < c /\ j \in CE!SentDeals /\ c \in CE!SentDeals
    BY <1>1, <1>2, <1>5 DEF CE!Whole
  <2>2. CE!Before(j, c)
    BY <2>1 DEF CE!InOrder
  <2> QED BY <2>2, <1>1, <1>2, <1>3 DEF CE!Before
<1> QED BY <1>1, <1>2, <1>4, <1>5

\* The program begins with the first entry.
LEMMA StartIsFirst ==
    ASSUME NEW es \in Seq(CEEpisode), es # <<>>, NEW a \in Int, \A k \in DOMAIN es : a <= es[k].first
    PROVE  CE!ProgramStart(es) \in Int /\ \A k \in DOMAIN es : CE!ProgramStart(es) <= es[k].first
<1> DEFINE T == {es[k].first : k \in DOMAIN es}
<1>1. /\ CE!ToSet(es) = {es[k] : k \in DOMAIN es}
      /\ {e.first : e \in CE!ToSet(es)} = T
  BY DEF CE!ToSet
<1>2. T \subseteq Int /\ T # {} /\ \A x \in T : a <= x
  <2>1. \A k \in DOMAIN es : es[k] \in CEEpisode
    OBVIOUS
  <2>2. 1 \in DOMAIN es
    OBVIOUS
  <2> QED BY <2>1, <2>2 DEF CEEpisode
<1> HIDE DEF T
<1>3. \E n \in T : \A m \in T : n <= m
  BY <1>2, LeastInteger
<1>4. \E t \in T : \A e \in CE!ToSet(es) : t <= e.first
  <2>1. PICK n \in T : \A m \in T : n <= m
    BY <1>3
  <2>2. \A e \in CE!ToSet(es) : e.first \in T
    BY <1>1
  <2> QED BY <2>1, <2>2
<1>5. CE!ProgramStart(es) = CHOOSE t \in T : \A e \in CE!ToSet(es) : t <= e.first
  BY <1>1 DEF CE!ProgramStart
<1>6. CE!ProgramStart(es) \in T /\ \A e \in CE!ToSet(es) : CE!ProgramStart(es) <= e.first
  BY <1>4, <1>5
<1> QED BY <1>1, <1>2, <1>6

\* Months are whole numbers, and the last of them is the one that runs.
LEMMA MonthsTyped ==
    ASSUME clock \in Nat, NEW start \in Int
    PROVE  CE!CompletedMonths(start) \in Nat
<1>1. CE!Now = clock /\ CE!Month = 2880
  BY DEF CE!Now, CE!Month, CE!Day
<1>2. CASE clock <= start
  BY <1>1, <1>2 DEF CE!CompletedMonths
<1>3. CASE ~ (clock <= start)
  <2>1. clock - start \in Nat
    BY <1>3
  <2> DEFINE x == clock - start
  <2> HIDE DEF x
  <2>2. x \in Nat => x \div 2880 \in Nat
    OBVIOUS
  <2>3. CE!CompletedMonths(start) = (clock - start) \div 2880
    BY <1>1, <1>3 DEF CE!CompletedMonths
  <2> QED BY <2>1, <2>2, <2>3 DEF x
<1> QED BY <1>2, <1>3

\* Months later is later.
LEMMA MonthsAhead ==
    ASSUME NEW start \in Int, NEW m \in Nat
    PROVE  /\ start + m * 2880 \in Int /\ start + (m + 1) * 2880 \in Int
           /\ start <= start + m * 2880 /\ start + m * 2880 <= start + (m + 1) * 2880
<1> DEFINE x == m * 2880
<1>1. x \in Nat /\ (m + 1) * 2880 = x + 2880
  OBVIOUS
<1> HIDE DEF x
<1>2. start + x \in Int /\ start <= start + x /\ start + (x + 2880) \in Int /\ start + x <= start + (x + 2880)
  BY <1>1
<1> QED BY <1>1, <1>2 DEF x

\* The profits of the first months are the profit until the end of the last of them.
LEMMA MonthProfits ==
    ASSUME NEW es \in Seq(CEEpisode), NEW start \in Int, NEW last \in Nat, NEW f,
           \A n \in 0 .. last :
               f[n] = CE!ProfitIn(es, start + n * CE!Month, start + n * CE!Month + CE!Month)
    PROVE  CE!SumOf(last, 0 .. last, f) = CE!ProfitIn(es, start, start + (last + 1) * CE!Month)
<1> DEFINE Until(n) == start + n * 2880
           S == 0 .. last
           N == {n \in Nat : n <= last => CE!SumOf(n, S, f) = CE!ProfitIn(es, start, Until(n + 1))}
<1>1. CE!Month = 2880
  BY DEF CE!Month, CE!Day
<1>2. /\ Until(0) = start
      /\ \A n \in Nat : /\ Until(n) \in Int /\ start <= Until(n) /\ Until(n) <= Until(n + 1)
                        /\ Until(n) + 2880 = Until(n + 1) /\ n + 1 \in Nat
  OBVIOUS
<1> HIDE DEF Until
<1>3. ASSUME NEW n \in S PROVE f[n] = CE!ProfitIn(es, Until(n), Until(n + 1))
  <2>1. n \in Nat
    OBVIOUS
  <2>2. start + n * CE!Month = Until(n) /\ start + n * CE!Month + CE!Month = Until(n + 1)
    BY <1>1, <1>2, <2>1 DEF Until
  <2>3. f[n] = CE!ProfitIn(es, start + n * CE!Month, start + n * CE!Month + CE!Month)
    OBVIOUS
  <2> QED BY <2>2, <2>3
<1>4. 0 \in N
  <2>1. 0 \in S
    OBVIOUS
  <2>2. CE!SumOf(0, S, f) = 0 + Term(S, f, 0)
    BY SumMore
  <2>3. Term(S, f, 0) = CE!ProfitIn(es, start, Until(1))
    <3>1. f[0] = CE!ProfitIn(es, Until(0), Until(0 + 1))
      BY <2>1, <1>3
    <3> QED BY <2>1, <3>1, <1>2 DEF Term
  <2>4. CE!ProfitIn(es, start, Until(1)) \in Int
    BY ProfitTyped
  <2> QED BY <2>2, <2>3, <2>4
<1>5. ASSUME NEW n \in Nat, n \in N PROVE n + 1 \in N
  <2> SUFFICES ASSUME n + 1 <= last
               PROVE  CE!SumOf(n + 1, S, f) = CE!ProfitIn(es, start, Until(n + 1 + 1))
    OBVIOUS
  <2>1. n + 1 \in S /\ n + 1 \in Nat
    OBVIOUS
  <2>2. CE!SumOf(n, S, f) = CE!ProfitIn(es, start, Until(n + 1))
    BY <1>5
  <2>3. CE!SumOf(n + 1, S, f) = CE!SumOf(n, S, f) + Term(S, f, n + 1)
    BY SumMore
  <2>4. Term(S, f, n + 1) = CE!ProfitIn(es, Until(n + 1), Until(n + 1 + 1))
    BY <2>1, <1>3 DEF Term
  <2>5. /\ Until(n + 1) \in Int /\ Until(n + 1 + 1) \in Int
        /\ start <= Until(n + 1) /\ Until(n + 1) <= Until(n + 1 + 1)
    <3> DEFINE m == n + 1
    <3>1. m \in Nat /\ m + 1 \in Nat
      BY <2>1
    <3> HIDE DEF m
    <3>2. /\ Until(m) \in Int /\ Until(m + 1) \in Int
          /\ start <= Until(m) /\ Until(m) <= Until(m + 1)
      BY <3>1, MonthsAhead DEF Until
    <3> QED BY <3>2 DEF m
  <2>6. CE!ProfitIn(es, start, Until(n + 1 + 1))
        = CE!ProfitIn(es, start, Until(n + 1)) + CE!ProfitIn(es, Until(n + 1), Until(n + 1 + 1))
    BY <2>5, ProfitSplits
  <2> QED BY <2>2, <2>3, <2>4, <2>6
<1>6. last \in N
  <2> HIDE DEF N
  <2> QED BY <1>4, <1>5, AllNaturals
<1>7. start + (last + 1) * CE!Month = Until(last + 1)
  BY <1>1 DEF Until
<1> QED BY <1>6, <1>7

\* What the balance before the first entry is found to be.
LEMMA OpeningIs ==
    ASSUME NEW es \in Seq(CEEpisode), NEW start \in Int, cash \in Seq(CEFlow), log \in Seq(CEDeal),
           CE!Whole, NoCredit, Ended(es, start, CE!Later), Total(es) = Total(log),
           \A i \in DOMAIN cash : CE!Utc(cash[i].at) < CE!Later,
           Capital + CashBefore(start) >= 1
    PROVE  /\ CE!Opening(es, start) = Capital + CashBefore(start)
           /\ CE!Balance = Capital + Total(log) + AllCash
<1>1. CE!Balance = Capital + Total(log) + AllCash
  BY DEF CE!Balance, Total, AllCash
<1>2. CE!ProfitIn(es, start, CE!Later) = Total(log)
  BY ProfitOfAll
<1>3. CE!Later \in Int
  BY CalendarAssumption DEF CE!Later, CE!Day
<1>4. AllCash = CashBefore(start) + CE!CashIn(start, CE!Later) /\ CashBefore(start) \in Int
  BY <1>3, CashOfAll
<1>5. Total(log) \in Int /\ CE!CashIn(start, CE!Later) \in Int /\ Capital \in Int
  <2>1. Total(log) \in Int
    BY Earners, TotalTyped
  <2> QED BY <2>1, CashTyped, EngineAssumption
<1> DEFINE rest == CE!Balance - CE!ProfitIn(es, start, CE!Later) - CE!CashIn(start, CE!Later)
<1>6. rest = Capital + CashBefore(start)
  BY SMTT(60), <1>1, <1>2, <1>4, <1>5
<1>7. CE!Opening(es, start) = IF rest > 1 THEN rest ELSE 1
  BY DEF CE!Opening
<1> HIDE DEF rest
<1> QED BY <1>1, <1>4, <1>5, <1>6, <1>7

\* What the invariant says of the months.
LEMMA MonthsHold == CESound /\ CEPast /\ CECash => MonthsAddUp
<1> SUFFICES ASSUME CESound, CEPast, CECash, log # <<>>, CE!Whole, CE!InOrder,
                    \A p \in Positions : ~ CE!IsHeld(p), NoCredit,
                    NEW es, es = CE!NormalizeEpisodes,
                    NEW start, start = CE!ProgramStart(es),
                    NEW last, last = CE!CompletedMonths(start),
                    NEW end, end = start + (last + 1) * CE!Month,
                    NEW rows, rows = CE!Months(es, start),
                    CE!NoneAhead(end), Capital + CashBefore(start) >= 1
             PROVE  /\ rows[0].balance = Capital + CashBefore(start)
                    /\ CE!SumOf(last, 0 .. last, [n \in 0 .. last |-> rows[n].profit]) = Total(log)
                    /\ rows[last].balance + rows[last].profit
                       + CE!CashIn(start + last * CE!Month, end) = CE!Balance
  BY DEF MonthsAddUp, CE!MonthsAddUp, NoCredit, CashBefore, Total
<1>1. /\ log \in Seq(CEDeal) /\ cash \in Seq(CEFlow) /\ clock \in Nat /\ clock <= MaxClock
      /\ es \in Seq(CEEpisode) /\ es = CE!EpisodesOf(log)
      /\ Numbered(log, CE!Server) /\ Origin(log, es) /\ Total(es) = Total(log)
  BY SortedIsLog DEF CESound, CEPast, Books, Past, CE!NormalizeEpisodes
<1>2. es # <<>>
  <2>1. Len(log) > 0
    BY <1>1
  <2>2. Len(es) > 0
    BY <1>1, <2>1 DEF CEPast, Past
  <2> QED BY <2>2
<1>3. \A i \in DOMAIN log : log[i].at \in Int /\ log[i].at <= CE!Server
  <2>1. \A i \in DOMAIN log : log[i] \in CEDeal
    BY <1>1
  <2> QED BY <1>1, <2>1 DEF CEDeal, Numbered
<1>4. \A i \in DOMAIN log : CE!Utc(log[i].at) \in Int /\ CE!Utc(log[i].at) < CE!Later
  BY <1>1, <1>3, UtcBeforeLater
<1>5. \A i \in DOMAIN cash : CE!Utc(cash[i].at) < CE!Later
  <2>1. \A i \in DOMAIN cash : cash[i] \in CEFlow
    BY <1>1
  <2>2. \A i \in DOMAIN cash : cash[i].at \in Int /\ cash[i].at <= CE!Server
    BY <2>1 DEF CEFlow, CECash
  <2> QED BY <1>1, <2>2, UtcBeforeLater
<1>6. ASSUME NEW k \in DOMAIN es
      PROVE  /\ es[k] \in CEEpisode /\ ~ es[k].open /\ es[k].first <= es[k].close
             /\ \E i \in DOMAIN log : es[k].first = CE!Utc(log[i].at)
             /\ \E i \in DOMAIN log : es[k].close = CE!Utc(log[i].at)
  <2>1. es[k] \in CEEpisode /\ Arisen(log, es[k])
    BY <1>1 DEF Origin
  <2>2. ~ es[k].open
    <3> DEFINE p == es[k].pos
    <3>1. p \in Positions
      BY <2>1 DEF CEEpisode
    <3>2. Match(es, p, held[p])
      BY <1>1, <3>1 DEF CESound, Books
    <3>3. OpenOf(es, p) = {}
      BY <3>1, <3>2 DEF Match, CE!IsHeld
    <3> QED BY <3>3 DEF OpenOf
  <2> QED BY <1>1, <2>1, <2>2, EndsAfter
<1>7. start \in Int /\ \A k \in DOMAIN es : start <= es[k].first
  <2> DEFINE a == CE!Utc(log[1].at)
  <2>1. 1 \in DOMAIN log /\ a \in Int
    <3>1. 1 \in DOMAIN log
      BY <1>1
    <3> QED BY <3>1, <1>4
  <2>2. \A i \in DOMAIN log : a <= CE!Utc(log[i].at)
    <3> TAKE i \in DOMAIN log
    <3>1. CASE i = 1
      BY <3>1, <2>1
    <3>2. CASE i # 1
      <4>1. 1 < i /\ 1 \in CE!SentDeals /\ i \in CE!SentDeals
        BY <3>2, <1>1, <2>1 DEF CE!Whole
      <4>2. CE!Before(1, i)
        BY <4>1 DEF CE!InOrder
      <4> QED BY <4>2, <1>4, <2>1 DEF CE!Before
    <3> QED BY <3>1, <3>2
  <2> HIDE DEF a
  <2>3. \A k \in DOMAIN es : a <= es[k].first
    BY <1>6, <2>2
  <2> QED BY <1>1, <1>2, <2>1, <2>3, StartIsFirst
<1>8. last \in Nat
  BY <1>1, <1>7, MonthsTyped
<1>9. Ended(es, start, CE!Later) /\ Ended(es, start, end)
  <2>1. ASSUME NEW k \in DOMAIN es
        PROVE  ~ es[k].open /\ start <= es[k].close /\ es[k].close < CE!Later /\ es[k].close < end
    <3>1. es[k].first \in Int /\ es[k].close \in Int
      BY <1>6 DEF CEEpisode
    <3>2. start <= es[k].close
      BY <1>6, <1>7, <3>1
    <3>3. es[k].close < CE!Later
      BY <1>4, <1>6
    <3>4. es[k].close < end
      BY <1>6 DEF CE!NoneAhead
    <3> QED BY <1>6, <3>2, <3>3, <3>4
  <2> QED BY <2>1 DEF Ended
<1> DEFINE from == start + last * CE!Month
           capital == Capital + CashBefore(start)
<1>10. CE!Opening(es, start) = capital /\ CE!Balance = Capital + Total(log) + AllCash
  BY <1>1, <1>5, <1>7, <1>9, OpeningIs
<1>11. /\ CE!Month = 2880 /\ from \in Int /\ end \in Int /\ start <= from /\ from <= end
       /\ from + CE!Month = end /\ start + 0 * CE!Month = start
  <2>1. CE!Month = 2880
    BY DEF CE!Month, CE!Day
  <2> QED BY <1>7, <1>8, <2>1
<1>12. ASSUME NEW n \in 0 .. last
       PROVE  /\ rows[n].balance = capital + CE!ProfitIn(es, start, start + n * CE!Month)
                                   + CE!CashIn(start, start + n * CE!Month)
              /\ rows[n].profit = CE!ProfitIn(es, start + n * CE!Month, start + n * CE!Month + CE!Month)
  <2>1. rows[n] = CE!MonthAt(es, start, n)
    BY DEF CE!Months
  <2> QED BY <1>10, <2>1 DEF CE!MonthAt
<1>13. 0 \in 0 .. last /\ last \in 0 .. last
  BY <1>8
<1>14. /\ Total(log) \in Int /\ Capital \in Int /\ CashBefore(start) \in Int
       /\ AllCash = CashBefore(start) + CE!CashIn(start, end)
       /\ CE!CashIn(start, from) \in Int /\ CE!CashIn(from, end) \in Int
       /\ CE!CashIn(start, end) = CE!CashIn(start, from) + CE!CashIn(from, end)
  <2>1. Total(log) \in Int /\ Capital \in Int
    BY <1>1, Earners, TotalTyped, EngineAssumption
  <2>2. AllCash = CashBefore(start) + CE!CashIn(start, end) /\ CashBefore(start) \in Int
    <3>1. \A i \in DOMAIN cash : CE!Utc(cash[i].at) < end
      BY DEF CE!NoneAhead
    <3> QED BY <3>1, <1>1, <1>7, <1>11, CashOfAll
  <2>3. CE!CashIn(start, end) = CE!CashIn(start, from) + CE!CashIn(from, end)
    BY <1>1, <1>7, <1>11, CashSplits
  <2>4. CE!CashIn(start, from) \in Int /\ CE!CashIn(from, end) \in Int
    BY <1>1, CashTyped
  <2> QED BY <2>1, <2>2, <2>3, <2>4
<1>15. /\ Total(log) = CE!ProfitIn(es, start, end)
       /\ CE!ProfitIn(es, start, end) = CE!ProfitIn(es, start, from) + CE!ProfitIn(es, from, end)
       /\ CE!ProfitIn(es, start, from) \in Int /\ CE!ProfitIn(es, from, end) \in Int
  <2>1. Total(log) = CE!ProfitIn(es, start, end)
    BY <1>1, <1>9, ProfitOfAll
  <2>2. CE!ProfitIn(es, start, end) = CE!ProfitIn(es, start, from) + CE!ProfitIn(es, from, end)
    BY <1>1, <1>7, <1>11, ProfitSplits
  <2> QED BY <1>1, <2>1, <2>2, ProfitTyped
<1>16. rows[0].balance = capital
  <2>1. CE!ProfitIn(es, start, start) = 0 /\ CE!CashIn(start, start) = 0
    BY <1>1, <1>7, ProfitOfNoTime, CashOfNoTime
  <2>2. rows[0].balance = capital + CE!ProfitIn(es, start, start) + CE!CashIn(start, start)
    BY <1>11, <1>12, <1>13
  <2> QED BY <1>14, <2>1, <2>2
<1>17. CE!SumOf(last, 0 .. last, [n \in 0 .. last |-> rows[n].profit]) = Total(log)
  <2> DEFINE f == [n \in 0 .. last |-> rows[n].profit]
  <2>1. \A n \in 0 .. last :
            f[n] = CE!ProfitIn(es, start + n * CE!Month, start + n * CE!Month + CE!Month)
    BY <1>12
  <2> HIDE DEF f
  <2>2. CE!SumOf(last, 0 .. last, f) = CE!ProfitIn(es, start, start + (last + 1) * CE!Month)
    BY <1>1, <1>7, <1>8, <2>1, MonthProfits
  <2>3. CE!SumOf(last, 0 .. last, f) = Total(log)
    BY <2>2, <1>15
  <2> QED BY <2>3 DEF f
<1>18. rows[last].balance + rows[last].profit + CE!CashIn(from, end) = CE!Balance
  <2>1. /\ rows[last].balance = capital + CE!ProfitIn(es, start, from) + CE!CashIn(start, from)
        /\ rows[last].profit = CE!ProfitIn(es, from, end)
    BY <1>11, <1>12, <1>13
  <2> QED BY SMTT(60), <2>1, <1>10, <1>14, <1>15
<1> QED BY <1>16, <1>17, <1>18

\* Whatever the deals, the deposits and the length of the history: once no position is open,
\* the months begin with the balance before the first deal, end with the one there is now,
\* and hold every profit once, unless something is dated past the month that runs.
THEOREM MonthsAddUpHolds == CE!Spec => []MonthsAddUp
<1>1. CE!Init => CESound /\ CEPast /\ CECash
  BY CEStart, CEPastStart, CECashStart
<1>2. CESound /\ CEPast /\ CECash /\ [CE!Next]_(CE!vars) => (CESound /\ CEPast /\ CECash)'
  BY CEStep, CEPastStep, CECashStep
<1>3. CESound /\ CEPast /\ CECash => MonthsAddUp
  BY MonthsHold
<1> QED BY <1>1, <1>2, <1>3, PTL DEF CE!Spec
=============================================================================
