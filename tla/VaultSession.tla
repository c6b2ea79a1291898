---------------------------- MODULE VaultSession ----------------------------
(***************************************************************************)
(* The per-vault session state of MainSDK: the map vaultData from vault    *)
(* account to VaultData object, the keys cached in those objects, and the  *)
(* public operations that read and fill them while shutdown() may run.     *)
(*                                                                         *)
(* JavaScript runs one continuation at a time, so an action is the code    *)
(* between two awaits: it starts when an awaited promise has settled and   *)
(* ends at the next await.  An await of an already settled promise is a    *)
(* boundary too: other continuations, a caller's call of shutdown() among  *)
(* them, may run before the resumed one.  Replies from the network wait    *)
(* until no continuation is ready (microtasks before tasks).               *)
(*                                                                         *)
(* VaultData objects are members of Entries, so that two calls can hold    *)
(* two different objects of one vault, as references do in the code.       *)
(***************************************************************************)
EXTENDS Naturals

CONSTANTS
    Vaults,         \* Fireblocks vault account ids
    Calls,          \* slots for concurrently running SDK calls
    Entries,        \* VaultData objects that a run may allocate (a bound)
    Sigs,           \* signatures Fireblocks may return for the seed message
    Ops,            \* the public operations that may be called
    MaxShutdowns,   \* a bound on the number of shutdown() calls
    None,           \* JavaScript's undefined, or no value yet
    Zeroed,         \* "0".repeat(length), what shutdown leaves in a key
    NoEntry         \* no VaultData object

AllOps ==
    {"getSeismicAddress", "deriveEncryptionKey", "deriveViewingKey",
     "registerViewingKey", "checkViewingKeyRegistered",
     "createShieldedTransaction", "getSrc20Balance", "getTransactionHistory"}

(* deriveKeyFromSignature (SHA-256 of fullSig) and keccak256 are injective. *)
EncryptionKeyOf(v, s) == [vault |-> v, sig |-> s]
ViewingKeyOf(sk) == [keccak256 |-> sk]

EncryptionKeys(v) == {EncryptionKeyOf(v, s) : s \in Sigs}
AllEncryptionKeys == [vault : Vaults, sig : Sigs]
ViewingKeys(v) == {ViewingKeyOf(sk) : sk \in EncryptionKeys(v)}

(* What the two key fields can hold: a zeroed key is a non-empty string, so *)
(* a cache check takes it for a key and keccak256 hashes it.                *)
SkValue == AllEncryptionKeys \cup {None, Zeroed}
VkValue == [keccak256 : AllEncryptionKeys \cup {Zeroed}] \cup {None, Zeroed}

ASSUME ConstantsAssumption ==
    /\ Ops \subseteq AllOps
    /\ MaxShutdowns \in Nat
    /\ NoEntry \notin Entries
    /\ None # Zeroed /\ None \notin Vaults
    /\ {None, Zeroed} \cap AllEncryptionKeys = {}
    /\ {None, Zeroed} \cap [keccak256 : AllEncryptionKeys \cup {Zeroed}] = {}

(* The ensureVaultData calls an operation can be inside of: its own, or the *)
(* one of deriveEncryptionKey, deriveViewingKey, checkViewingKeyRegistered. *)
Frames == {"own", "enc", "view", "check"}

(* Where a call is suspended, or what it resumes with.                      *)
Points ==
    {"idle",
     "fetching",    \* awaits getPublicKeyByVaultID
     "resolved",    \* ensureVaultData has returned the entry of the frame
     "signing",     \* awaits the signature of the seed message
     "haveSk",      \* deriveEncryptionKey has returned
     "haveVk",      \* deriveViewingKey has returned
     "asking",      \* awaits the Directory's answer
     "answered",    \* checkViewingKeyRegistered has returned
     "submitting",  \* awaits the shielded client and the submission
     "reading"}     \* awaits work that touches no session state

VARIABLES
    vaultData,      \* MainSDK.vaultData: vault -> entry
    data,           \* the contents of the VaultData objects
    call,           \* call slot -> the running call's program point and locals
    pool,           \* key registrations submitted and not mined yet
    directory,      \* key registrations mined into the Directory
    shutdowns,      \* number of shutdowns so far
    retired         \* entries allocated before the latest shutdown (history)

chainVars == <<pool, directory>>
shutdownVars == <<shutdowns, retired>>
vars == <<vaultData, data, call, chainVars, shutdownVars>>

VaultData ==
    [vaultAccountId : Vaults \cup {None},   \* None: not allocated yet
     encryptionSk : SkValue,
     viewingKey : VkValue,
     viewingKeyRegistered : BOOLEAN]

CallState ==
    [op : Ops \cup {None},
     vault : Vaults \cup {None},
     pc : Points,
     frame : Frames,
     ref : [Frames -> Entries \cup {NoEntry}],  \* the vaultData local of a frame
     inView : BOOLEAN,          \* inside deriveViewingKey
     got : SkValue,             \* what deriveEncryptionKey has returned
     sk : SkValue,              \* the operation's local encryptionSk
     vk : VkValue,              \* the operation's local viewingKey
     isRegistered : BOOLEAN,    \* what checkViewingKeyRegistered has returned
     overlapped : BOOLEAN]      \* a shutdown ran since it began (history)

Registration == [vault : Vaults, key : VkValue]

Idle ==
    [op |-> None, vault |-> None, pc |-> "idle", frame |-> "own",
     ref |-> [f \in Frames |-> NoEntry], inView |-> FALSE, got |-> None,
     sk |-> None, vk |-> None, isRegistered |-> FALSE, overlapped |-> FALSE]

Live(e) == \E v \in Vaults : vaultData[v] = e
Registered(v) == \E r \in directory : r.vault = v
Submitted(v) == \E r \in pool \cup directory : r.vault = v

TypeOK ==
    /\ vaultData \in [Vaults -> Entries \cup {NoEntry}]
    /\ data \in [Entries -> VaultData]
    /\ call \in [Calls -> CallState]
    /\ pool \subseteq Registration
    /\ directory \subseteq Registration
    /\ shutdowns \in 0..MaxShutdowns
    /\ retired \subseteq Entries

-----------------------------------------------------------------------------
(* Steps that several operations share, on the state x of a call.           *)

(* The points at which a call waits for the network.                        *)
Awaiting == {"fetching", "signing", "asking", "submitting", "reading"}
Drained == \A c \in Calls : call[c].pc \in Awaiting \cup {"idle"}

(* A reply reaches a call: a task of its own, run when no continuation is   *)
(* ready.                                                                   *)
Replied(c, points) == call[c].pc \in points /\ Drained

Becomes(c, x) == call' = [call EXCEPT ![c] = x]

At(c, p, f) == call[c].pc = p /\ call[c].frame = f

(* The object that the call's local vaultData of frame f refers to.         *)
Held(c, f) == data[call[c].ref[f]]

(* Mutant: the entry cached for any vault will do.                          *)
LookUpAnyVault(x, f) ==
    LET filled == {v \in Vaults : vaultData[v] # NoEntry}
        e == IF filled = {} THEN NoEntry ELSE vaultData[CHOOSE v \in filled : TRUE] IN
    [x EXCEPT !.frame = f, !.ref[f] = e,
              !.pc = IF e = NoEntry THEN "fetching" ELSE "resolved"]

(* ensureVaultData up to its first await: the cached entry, or a fetch.     *)
LookUp(x, f) ==
    LET e == vaultData[x.vault] IN
    [x EXCEPT !.frame = f, !.ref[f] = e,
              !.pc = IF e = NoEntry THEN "fetching" ELSE "resolved"]

(* The function of frame f returns to its caller; its local goes away.      *)
Return(x, f, p) == [x EXCEPT !.ref[f] = NoEntry, !.pc = p]

(* Mutant: a failed call is retried without limit.                          *)
ThrownRetried(x) == LookUp(x, x.frame)

(* An awaited promise is rejected: getTransactionHistory catches what its   *)
(* key derivation throws and goes on without encryptionSk; everything else  *)
(* propagates, and the call's locals go out of scope.                       *)
Thrown(x) ==
    IF x.op = "getTransactionHistory" /\ x.frame # "own" /\ x.pc # "reading"
    THEN [Idle EXCEPT !.op = x.op, !.vault = x.vault, !.pc = "reading",
                      !.vk = x.vk, !.overlapped = x.overlapped]
    ELSE Idle

FirstFrame(o) ==
    CASE o = "deriveEncryptionKey" -> "enc"
      [] o = "deriveViewingKey" -> "view"
      [] o = "checkViewingKeyRegistered" -> "check"
      [] OTHER -> "own"

-----------------------------------------------------------------------------
Init ==
    /\ vaultData = [v \in Vaults |-> NoEntry]
    /\ data = [e \in Entries |->
                 [vaultAccountId |-> None, encryptionSk |-> None,
                  viewingKey |-> None, viewingKeyRegistered |-> FALSE]]
    /\ call = [c \in Calls |-> Idle]
    /\ pool = {}
    /\ directory = {}
    /\ shutdowns = 0
    /\ retired = {}

(* A caller invokes operation o; it runs to the await in ensureVaultData.   *)
Call(c, o, v) ==
    /\ call[c].pc = "idle"
    /\ Becomes(c, LookUp([Idle EXCEPT !.op = o, !.vault = v], FirstFrame(o)))
    /\ UNCHANGED <<vaultData, data, chainVars, shutdownVars>>

(* getPublicKeyByVaultID answers: a new object is put into the map, over    *)
(* whatever another call has put there since this one looked.               *)
FetchReply(c, e) ==
    /\ Replied(c, {"fetching"})
    /\ data[e].vaultAccountId = None
    /\ data' = [data EXCEPT ![e].vaultAccountId = call[c].vault]
    /\ vaultData' = [vaultData EXCEPT ![call[c].vault] = e]
    /\ Becomes(c, [call[c] EXCEPT !.ref[call[c].frame] = e, !.pc = "resolved"])
    /\ UNCHANGED <<chainVars, shutdownVars>>

(* The external call that the operation awaits fails.                       *)
Reject(c) ==
    /\ Replied(c, Awaiting)
    /\ Becomes(c, Thrown(call[c]))
    /\ UNCHANGED <<vaultData, data, chainVars, shutdownVars>>

(* The operation goes on after its own ensureVaultData: getSeismicAddress   *)
(* returns, getSrc20Balance and the history of public tokens need no cached *)
(* key, the others do.                                                      *)
ResumeOwn(c) ==
    LET x == call[c] IN
    /\ At(c, "resolved", "own")
    /\ \/ x.op = "getSeismicAddress" /\ Becomes(c, Idle)
       \/ /\ x.op \in {"getSrc20Balance", "getTransactionHistory"}
          /\ Becomes(c, Return(x, "own", "reading"))
       \/ /\ x.op \in {"registerViewingKey", "createShieldedTransaction"}
          /\ Becomes(c, LookUp(x, "enc"))
       \/ /\ x.op = "getTransactionHistory"
          /\ Becomes(c, LookUp(Return(x, "own", x.pc), "check"))
    /\ UNCHANGED <<vaultData, data, chainVars, shutdownVars>>

(* Mutant: the cached key is returned without a check that there is one.    *)
ReadEncryptionKeyUnchecked(c) ==
    /\ At(c, "resolved", "enc")
    /\ Becomes(c, Return([call[c] EXCEPT !.got = Held(c, "enc").encryptionSk],
                         "enc", "haveSk"))
    /\ UNCHANGED <<vaultData, data, chainVars, shutdownVars>>

(* deriveEncryptionKey returns the cached key or asks for a signature.      *)
ReadEncryptionKey(c) ==
    LET x == call[c]
        cached == Held(c, "enc").encryptionSk IN
    /\ At(c, "resolved", "enc")
    /\ Becomes(c, IF cached # None
                  THEN Return([x EXCEPT !.got = cached], "enc", "haveSk")
                  ELSE [x EXCEPT !.pc = "signing"])
    /\ UNCHANGED <<vaultData, data, chainVars, shutdownVars>>

(* Fireblocks returns a signature: the key is derived from it and cached in *)
(* the entry the call holds, which need not be in the map any more.         *)
SignReply(c, s) ==
    LET x == call[c]
        derived == EncryptionKeyOf(x.vault, s) IN
    /\ Replied(c, {"signing"})
    /\ data' = [data EXCEPT ![x.ref["enc"]].encryptionSk = derived]
    /\ Becomes(c, Return([x EXCEPT !.got = derived], "enc", "haveSk"))
    /\ UNCHANGED <<vaultData, chainVars, shutdownVars>>

(* deriveViewingKey returns the cached key or derives the encryption key.   *)
ReadViewingKey(c) ==
    LET x == call[c]
        cached == Held(c, "view").viewingKey IN
    /\ At(c, "resolved", "view")
    /\ Becomes(c, IF cached # None
                  THEN Return([x EXCEPT !.vk = cached], "view", "haveVk")
                  ELSE LookUp([x EXCEPT !.inView = TRUE], "enc"))
    /\ UNCHANGED <<vaultData, data, chainVars, shutdownVars>>

(* Mutant: the viewing key goes to the entry that is in the map by now.     *)
StoreViewingKeyInMap(c) ==
    LET x == call[c]
        derived == ViewingKeyOf(x.got) IN
    /\ x.pc = "haveSk"
    /\ x.inView
    /\ data' = [data EXCEPT ![vaultData[x.vault]].viewingKey = derived]
    /\ Becomes(c, Return([x EXCEPT !.vk = derived, !.got = None, !.inView = FALSE],
                         "view", "haveVk"))
    /\ UNCHANGED <<vaultData, chainVars, shutdownVars>>

(* deriveViewingKey hashes the key it got and caches the hash in the entry  *)
(* it resolved before deriving.                                             *)
StoreViewingKey(c) ==
    LET x == call[c]
        derived == ViewingKeyOf(x.got) IN
    /\ x.pc = "haveSk"
    /\ x.inView
    /\ data' = [data EXCEPT ![x.ref["view"]].viewingKey = derived]
    /\ Becomes(c, Return([x EXCEPT !.vk = derived, !.got = None, !.inView = FALSE],
                         "view", "haveVk"))
    /\ UNCHANGED <<vaultData, chainVars, shutdownVars>>

(* The operation that called deriveEncryptionKey goes on with its result.   *)
ResumeWithEncryptionKey(c) ==
    LET x == [call[c] EXCEPT !.sk = call[c].got, !.got = None] IN
    /\ x.pc = "haveSk"
    /\ ~x.inView
    /\ \/ x.op = "deriveEncryptionKey" /\ Becomes(c, Idle)
       \/ x.op = "registerViewingKey" /\ Becomes(c, LookUp(x, "view"))
       \/ /\ x.op = "createShieldedTransaction"
          /\ Becomes(c, [x EXCEPT !.pc = "submitting"])
       \/ x.op = "getTransactionHistory" /\ Becomes(c, [x EXCEPT !.pc = "reading"])
    /\ UNCHANGED <<vaultData, data, chainVars, shutdownVars>>

(* The operation that called deriveViewingKey goes on with its result.      *)
ResumeWithViewingKey(c) ==
    LET x == call[c] IN
    /\ x.pc = "haveVk"
    /\ \/ x.op = "deriveViewingKey" /\ Becomes(c, Idle)
       \/ x.op = "registerViewingKey" /\ Becomes(c, [x EXCEPT !.pc = "submitting"])
       \/ x.op = "getTransactionHistory" /\ Becomes(c, LookUp(x, "enc"))
    /\ UNCHANGED <<vaultData, data, chainVars, shutdownVars>>

(* checkViewingKeyRegistered: a cached true answers, else the Directory.    *)
ReadRegistered(c) ==
    LET x == call[c]
        cached == Held(c, "check").viewingKeyRegistered IN
    /\ At(c, "resolved", "check")
    /\ Becomes(c, IF cached
                  THEN Return([x EXCEPT !.isRegistered = TRUE], "check", "answered")
                  ELSE [x EXCEPT !.pc = "asking"])
    /\ UNCHANGED <<vaultData, data, chainVars, shutdownVars>>

(* Mutant: any answer of the Directory is cached as a registration.         *)
DirectoryReplyUnchecked(c) ==
    LET x == call[c] IN
    /\ Replied(c, {"asking"})
    /\ data' = [data EXCEPT ![x.ref["check"]].viewingKeyRegistered = TRUE]
    /\ Becomes(c, Return([x EXCEPT !.isRegistered = Registered(x.vault)],
                         "check", "answered"))
    /\ UNCHANGED <<vaultData, chainVars, shutdownVars>>

(* The Directory answers; only a true answer is cached.                     *)
DirectoryReply(c) ==
    LET x == call[c]
        registered == Registered(x.vault) IN
    /\ Replied(c, {"asking"})
    /\ data' = [data EXCEPT ![x.ref["check"]].viewingKeyRegistered =
                                registered \/ @]
    /\ Becomes(c, Return([x EXCEPT !.isRegistered = registered], "check", "answered"))
    /\ UNCHANGED <<vaultData, chainVars, shutdownVars>>

(* The operation that called checkViewingKeyRegistered goes on.             *)
ResumeAnswered(c) ==
    LET x == call[c] IN
    /\ x.pc = "answered"
    /\ \/ x.op = "checkViewingKeyRegistered" /\ Becomes(c, Idle)
       \/ /\ x.op = "getTransactionHistory"
          /\ Becomes(c, LookUp(x, IF x.isRegistered THEN "view" ELSE "enc"))
    /\ UNCHANGED <<vaultData, data, chainVars, shutdownVars>>

(* The node takes a key registration.                                       *)
Register(c) ==
    /\ call[c].op = "registerViewingKey"
    /\ pool' = pool \cup {[vault |-> call[c].vault, key |-> call[c].vk]}

(* A shielded transfer leaves the session as it is.                         *)
SubmitTransfer(c) ==
    /\ call[c].op = "createShieldedTransaction"
    /\ UNCHANGED <<pool, data>>

(* The node takes the shielded transaction and answers with its hash.  The  *)
(* registration is cached as done on that answer.                           *)
SubmitReply(c) ==
    /\ Replied(c, {"submitting"})
    /\ \/ /\ Register(c)
          /\ data' = [data EXCEPT ![call[c].ref["own"]].viewingKeyRegistered = TRUE]
       \/ SubmitTransfer(c)
    /\ Becomes(c, Idle)
    /\ UNCHANGED <<vaultData, directory, shutdownVars>>

(* The node takes the registration and its answer is lost.                  *)
SubmitReplyLost(c) ==
    /\ Replied(c, {"submitting"})
    /\ Register(c)
    /\ Becomes(c, Idle)
    /\ UNCHANGED <<vaultData, data, directory, shutdownVars>>

ReadReply(c) ==
    /\ Replied(c, {"reading"})
    /\ Becomes(c, Idle)
    /\ UNCHANGED <<vaultData, data, chainVars, shutdownVars>>

(* shutdown(): zero the keys of the entries in the map, clear the map.      *)
Zero(key) == IF key # None THEN Zeroed ELSE None

(* Mutant: the keys are zeroed but the map keeps its entries.               *)
ShutdownWithoutClear ==
    /\ shutdowns < MaxShutdowns
    /\ shutdowns' = shutdowns + 1
    /\ data' = [e \in Entries |->
         IF Live(e) THEN [data[e] EXCEPT !.encryptionSk = Zero(@),
                                         !.viewingKey = Zero(@)]
                    ELSE data[e]]
    /\ retired' = {e \in Entries : data[e].vaultAccountId # None}
    /\ call' = [c \in Calls |->
                  [call[c] EXCEPT !.overlapped = call[c].pc # "idle"]]
    /\ UNCHANGED <<vaultData, chainVars>>

Shutdown ==
    /\ shutdowns < MaxShutdowns
    /\ shutdowns' = shutdowns + 1
    /\ data' = [e \in Entries |->
         IF Live(e) THEN [data[e] EXCEPT !.encryptionSk = Zero(@),
                                         !.viewingKey = Zero(@)]
                    ELSE data[e]]
    /\ vaultData' = [v \in Vaults |-> NoEntry]
    /\ retired' = {e \in Entries : data[e].vaultAccountId # None}
    /\ call' = [c \in Calls |->
                  [call[c] EXCEPT !.overlapped = call[c].pc # "idle"]]
    /\ UNCHANGED chainVars

(* The chain mines a submitted registration, or drops it.                   *)
Mine(r) ==
    /\ pool' = pool \ {r}
    /\ directory' = directory \cup {r}
    /\ UNCHANGED <<vaultData, data, call, shutdownVars>>

Drop(r) ==
    /\ pool' = pool \ {r}
    /\ UNCHANGED <<vaultData, data, call, directory, shutdownVars>>

-----------------------------------------------------------------------------
(* The continuations that are ready to run.                                 *)
Continue(c) ==
    \/ ResumeOwn(c)
    \/ ReadEncryptionKey(c)
    \/ ReadViewingKey(c)
    \/ StoreViewingKey(c)
    \/ ResumeWithEncryptionKey(c)
    \/ ResumeWithViewingKey(c)
    \/ ReadRegistered(c)
    \/ ResumeAnswered(c)

(* What Fireblocks and the node deliver.                                    *)
Reply(c) ==
    \/ \E e \in Entries : FetchReply(c, e)
    \/ Reject(c)
    \/ \E s \in Sigs : SignReply(c, s)
    \/ DirectoryReply(c)
    \/ SubmitReply(c)
    \/ SubmitReplyLost(c)
    \/ ReadReply(c)

Step(c) == Continue(c) \/ Reply(c)

Next ==
    \/ \E c \in Calls, o \in Ops, v \in Vaults : Call(c, o, v)
    \/ \E c \in Calls : Step(c)
    \/ Shutdown
    \/ \E r \in pool : Mine(r)
    \/ \E r \in pool : Drop(r)

Spec == Init /\ [][Next]_vars

(* The event loop runs every continuation, and every awaited promise        *)
(* settles: Fireblocks polling gives up after MAX_POLL_MS, and requests end *)
(* with HTTP_TIMEOUT or when the connection does.  Fairness is strong: no   *)
(* caller keeps the microtask queue busy for ever, so the event loop comes  *)
(* to each reply, but callers may interrupt its being ready any number of   *)
(* times.                                                                   *)
FairSpec == Spec /\ \A c \in Calls : SF_vars(Step(c))
-----------------------------------------------------------------------------
(* Properties.                                                              *)

Deterministic == \A s, t \in Sigs : s = t

(* Keys that come from a zeroed string and not from a signature.            *)
TaintedSk == {Zeroed}
TaintedVk == {Zeroed, ViewingKeyOf(Zeroed)}

(* Keys never cross vaults: whatever entry, local variable or registration  *)
(* a key has reached through ensureVaultData, deriveEncryptionKey,          *)
(* deriveViewingKey and registerViewingKey, it was derived for that vault   *)
(* or is the remainder of a shutdown.                                       *)
KeysStayInTheirVault ==
    /\ \A e \in Entries :
         /\ data[e].encryptionSk \in
              EncryptionKeys(data[e].vaultAccountId) \cup TaintedSk \cup {None}
         /\ data[e].viewingKey \in
              ViewingKeys(data[e].vaultAccountId) \cup TaintedVk \cup {None}
    /\ \A c \in Calls :
         /\ {call[c].got, call[c].sk} \subseteq
              EncryptionKeys(call[c].vault) \cup TaintedSk \cup {None}
         /\ call[c].vk \in ViewingKeys(call[c].vault) \cup TaintedVk \cup {None}
    /\ \A r \in pool \cup directory : r.key \in ViewingKeys(r.vault) \cup TaintedVk

(* The map never serves a zeroed key, or one hashed from a zeroed key, to a *)
(* later call: calls that shutdown() overtook may still write into the      *)
(* entries they hold, and none of those entries is in the map.              *)
LiveKeysUsable ==
    \A v \in Vaults :
        LET e == vaultData[v] IN
        e # NoEntry => /\ data[e].encryptionSk \notin TaintedSk
                       /\ data[e].viewingKey \notin TaintedVk

(* An operation that no shutdown() overlapped never works with a zeroed     *)
(* key, whatever the operations around it and the shutdowns before it did:  *)
(* deriveEncryptionKey, deriveViewingKey and what they pass on.             *)
FreshCallsGetKeys ==
    \A c \in Calls :
        ~call[c].overlapped => /\ {call[c].got, call[c].sk} \cap TaintedSk = {}
                               /\ call[c].vk \notin TaintedVk

(* Under deterministic signing the viewing key cached in an entry of the    *)
(* map is the hash of the encryption key cached in the same entry, although *)
(* deriveViewingKey resolves the entry twice, before and inside             *)
(* deriveEncryptionKey, with other calls and shutdowns in between.          *)
LiveViewingKeyMatches ==
    Deterministic =>
        \A v \in Vaults :
            LET e == vaultData[v] IN
            e # NoEntry /\ data[e].viewingKey # None =>
                /\ data[e].encryptionSk # None
                /\ data[e].viewingKey = ViewingKeyOf(data[e].encryptionSk)

(* The flag viewingKeyRegistered goes up only once a registration of that   *)
(* very vault has been submitted, in registerViewingKey and in              *)
(* checkViewingKeyRegistered, for whatever entry the flag is kept in.       *)
FlagFollowsSubmission ==
    [][\A e \in Entries :
         ~data[e].viewingKeyRegistered /\ data'[e].viewingKeyRegistered =>
            Submitted(data[e].vaultAccountId)']_vars

(* Every public operation settles, whatever the replies, the failures and   *)
(* the shutdowns in between: no path of continuations loops or is left      *)
(* waiting for a reply that was consumed.                                   *)
EveryCallSettles ==
    \A c \in Calls : call[c].pc # "idle" ~> call[c].pc = "idle"

=============================================================================
