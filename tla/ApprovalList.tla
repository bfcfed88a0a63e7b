---------------------------- MODULE ApprovalList ----------------------------
(***************************************************************************)
(* The "list" torrent-approval container                                   *)
(* (src/middleware/torrentapproval/container/list/list.go, lines 1-72)     *)
(* over the storage contexts it shares with every other user of the peer  *)
(* store.  Run.Start (src/cmd/chihaya/main.go, lines 70-77) builds the     *)
(* pre-hooks in configuration order, each approval hook building its list  *)
(* with the store Start was given; a reload (SIGUSR1) rebuilds them all    *)
(* from the re-read configuration with the store kept (Run.Stop(true)).    *)
(* A build error makes Start, and the process, fail.                       *)
(***************************************************************************)
EXTENDS WireTypes

CONSTANTS
    NLists,         \* list containers in the hook configuration, in order
    Configs,        \* the list Configs a configuration file may hold
    DefaultCtx,     \* container.DefaultStorageCtxName
    RequestHashes,  \* infohashes announces carry
    MaxReloads      \* reloads the operator performs

\* A Config is what yaml.Unmarshal makes of the hook's options, or a
\* document it rejects (parses = FALSE).  An empty storageCtx is unset.
ConfigType == [parses : BOOLEAN, hashList : Seq(Seq(Byte)), invert : BOOLEAN,
               storageCtx : STRING]

ASSUME ApprovalAssumptions ==
    /\ NLists \in Nat \ {0}
    /\ Configs \subseteq ConfigType
    /\ RequestHashes \subseteq Seq(Byte)
    /\ MaxReloads \in Nat

\* The storage contexts: the default one and those a configuration names.
StoreCtxs == {DefaultCtx} \cup {c.storageCtx : c \in Configs}

VARIABLES
    kv,         \* kv[ctx]: the infohashes stored under a storage context
    ctxOf,      \* ctxOf[i]: list i's StorageCtx
    invertOf,   \* invertOf[i]: list i's Invert
    entries,    \* entries[i]: the infohashes list i's configuration names
    pc,         \* the list Start builds next; NLists + 1 once all are built
    failed,     \* a build returned an error
    reloads     \* reloads so far

vars == <<kv, ctxOf, invertOf, entries, pc, failed, reloads>>

Lists == 1..NLists

Init ==
    /\ kv = [x \in StoreCtxs |-> {}]
    /\ ctxOf = [i \in Lists |-> DefaultCtx]
    /\ invertOf = [i \in Lists |-> FALSE]
    /\ entries = [i \in Lists |-> {}]
    /\ pc = 1
    /\ failed = FALSE
    /\ reloads = 0

(***************************************************************************)
(* build (lines 29-61).                                                    *)
(***************************************************************************)
\* Each hash_list entry is hex-decoded, then made an InfoHash from the
\* bytes; the first failure ends the build before anything is stored.
Decoded(s) == NewInfoHash("bytes", DecodeString(s))
EntryOk(s) == DecodeOk(s) /\ Decoded(s).ok
BuildOk(c) == c.parses /\ \A k \in 1..Len(c.hashList) : EntryOk(c.hashList[k])
HashesOf(c) == {Decoded(c.hashList[k]).ih : k \in 1..Len(c.hashList)}

\* An unset storage_ctx takes the default context.
CtxOf(c) == IF c.storageCtx = "" THEN DefaultCtx ELSE c.storageCtx

\* The hashes are BulkPut under the configured context, as given.
BuildSucceedsRawCtx(i) ==
    /\ pc = i /\ ~failed
    /\ \E c \in Configs :
         /\ BuildOk(c)
         /\ kv' = [kv EXCEPT ![c.storageCtx] = @ \cup HashesOf(c)]
         /\ ctxOf' = [ctxOf EXCEPT ![i] = CtxOf(c)]
         /\ invertOf' = [invertOf EXCEPT ![i] = c.invert]
         /\ entries' = [entries EXCEPT ![i] = HashesOf(c)]
    /\ pc' = i + 1
    /\ UNCHANGED <<failed, reloads>>

BuildSucceeds(i) ==
    /\ pc = i /\ ~failed
    /\ \E c \in Configs :
         /\ BuildOk(c)
         /\ kv' = IF Len(c.hashList) > 0
                  THEN [kv EXCEPT ![CtxOf(c)] = @ \cup HashesOf(c)]
                  ELSE kv
         /\ ctxOf' = [ctxOf EXCEPT ![i] = CtxOf(c)]
         /\ invertOf' = [invertOf EXCEPT ![i] = c.invert]
         /\ entries' = [entries EXCEPT ![i] = HashesOf(c)]
    /\ pc' = i + 1
    /\ UNCHANGED <<failed, reloads>>

\* The options do not deserialise, or an entry is not a hex infohash:
\* build returns the error, and so do Start and the command.
BuildFails(i) ==
    /\ pc = i /\ ~failed
    /\ \E c \in Configs : ~BuildOk(c)
    /\ failed' = TRUE
    /\ UNCHANGED <<kv, ctxOf, invertOf, entries, pc, reloads>>

\* SIGUSR1: Stop(true) keeps the store, Start rebuilds every hook.
Reload ==
    /\ pc = NLists + 1 /\ ~failed
    /\ reloads < MaxReloads
    /\ pc' = 1
    /\ reloads' = reloads + 1
    /\ UNCHANGED <<kv, ctxOf, invertOf, entries, failed>>

\* Serving with no further reload, or exited after a failed build.
Idle ==
    /\ failed \/ (pc = NLists + 1 /\ reloads = MaxReloads)
    /\ UNCHANGED vars

Next ==
    \/ \E i \in Lists : BuildSucceeds(i) \/ BuildFails(i)
    \/ Reload
    \/ Idle

Spec == Init /\ [][Next]_vars

(***************************************************************************)
(* List.Approved (lines 69-72): whether the context holds the hash, flipped *)
(* for a blacklist.                                                        *)
(***************************************************************************)
Approved(i, h) == (h \in kv[ctxOf[i]]) # invertOf[i]

Serving == pc = NLists + 1 /\ ~failed

(***************************************************************************)
(* Properties                                                              *)
(***************************************************************************)
\* Every hash a list's configuration names is honoured while the tracker
\* serves: approved by a whitelist, refused by a blacklist, whatever other
\* lists share its storage context and whatever earlier configurations
\* stored.
OwnEntriesHonoured ==
    Serving => \A i \in Lists : \A h \in entries[i] : Approved(i, h) = ~invertOf[i]

\* A list approves exactly what its current configuration says: a hash is
\* approved by a whitelist iff it is listed, by a blacklist iff it is not.
ApprovedMatchesConfig ==
    Serving => \A i \in Lists : \A h \in RequestHashes :
                   Approved(i, h) = ((h \in entries[i]) # invertOf[i])

\* InfoHash.String and NewInfoHash agree on every infohash the lists
\* stored, however its hash_list entry was spelled: its hex form, given
\* back as a string, yields the same infohash, so what the tracker prints
\* can be configured again (TestInfoHash_String checks one value).
HexRoundTrip ==
    \A x \in StoreCtxs : \A h \in kv[x] :
        NewInfoHash("string", String(h)) = [ok |-> TRUE, ih |-> h]
====
