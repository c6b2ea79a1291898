---------------------------- MODULE SdkLifecycle ----------------------------
(***************************************************************************)
(* A program that makes an SDK, asks it for the encryption keys of vaults, *)
(* crashes, and is started again: the service (app.ts, server.ts), or a    *)
(* program of a user of the library.  Nothing is stored; a key is derived  *)
(* again from a signature of Fireblocks, which is the same one as before   *)
(* if the workspace caches signatures.  MainSDK.create finds out whether   *)
(* it does by signing the seed message twice.                              *)
(*                                                                         *)
(* A signature is a number that no other signature has, and a key the      *)
(* signature it is derived from.  An entry of vaultData may be replaced by *)
(* an empty one, or cleared, and its key is then derived again; how calls  *)
(* share an entry on the way is the subject of VaultSession.               *)
(***************************************************************************)
EXTENDS Naturals, FiniteSets

CONSTANTS
    Vaults,         \* Fireblocks vault account ids
    ProbeVault,     \* the vault that signs for the check, "0"
    Calls,          \* calls of the SDK under way at a time
    Environments,   \* what the program may be started with
    MaxStarts,      \* a bound on starts
    MaxSwitches,    \* a bound on changes of the workspace's setting
    MaxSignatures   \* a bound on the number of different signatures

(* credentials stands for the two variables of the environment, the file    *)
(* of the secret key, and their form.  maker is how the SDK is made, and    *)
(* skip is SKIP_DETERMINISM_CHECK, or skipDeterminismCheck.                 *)
Environment ==
    [credentials : {"good", "unset", "unreadable", "malformed"},
     network : {"testnet", "mainnet"},
     maker : {"service", "create", "constructor"},
     skip : BOOLEAN]

ASSUME LifecycleAssumption ==
    /\ ProbeVault \in Vaults
    /\ "check" \notin Calls
    /\ Environments \subseteq Environment
    /\ {MaxStarts, MaxSwitches, MaxSignatures} \subseteq Nat

VARIABLES
    caching,        \* the workspace's setting
    cached,         \* the signatures that Fireblocks has cached
    signatures,     \* how many signatures it has made
    switches,       \* how often the setting was changed
    starts,         \* how often the program was started
    pc,             \* the process: down, in the check, or up
    env,            \* what it was started with
    verified,       \* deterministicSigningVerified
    firstSig,       \* the first signature of the check
    request,        \* what the check, or a call, waits for
    entries,        \* the vaults that vaultData has an entry for
    keys,           \* encryptionSk of the entries
    blind,          \* a signature of the check was missing (history)
    drift,          \* the setting changed since the check (history)
    derived         \* all keys derived so far (history)

fireblocksVars == <<caching, cached, signatures, switches>>
processVars == <<starts, pc, env, verified, firstSig, request, entries, keys>>
historyVars == <<blind, drift, derived>>
vars == <<fireblocksVars, processVars, historyVars>>

Sigs == 1..MaxSignatures
Missing == 0        \* no fullSig; as a key, no key
Payloads == Vaults \X {"testnet", "mainnet"}
Check == "check"
Requesters == Calls \cup {Check}
NoRequest == [stage |-> "none", vault |-> ProbeVault, sig |-> Missing, live |-> FALSE]

(* stage: a call resolves its vault's entry, and asks for a signature.      *)
(* live: the entry that the call has is the one in the map.                 *)
Request == [stage : {"none", "resolving", "asked", "signed"}, vault : Vaults,
            sig : Sigs \cup {Missing}, live : BOOLEAN]

TypeOK ==
    /\ caching \in BOOLEAN
    /\ cached \in [Payloads -> Sigs \cup {Missing}]
    /\ signatures \in 0..MaxSignatures
    /\ switches \in 0..MaxSwitches
    /\ starts \in 0..MaxStarts
    /\ pc \in {"down", "first", "second", "up"}
    /\ env \in Environment
    /\ verified \in {"undefined", "true", "false"}
    /\ pc = "up" => verified = (IF env.maker = "constructor" /\ ~env.skip
                                THEN "undefined" ELSE "true")
    /\ firstSig \in Sigs \cup {Missing}
    /\ request \in [Requesters -> Request]
    /\ request[Check].stage # "none" <=> pc \in {"first", "second"}
    /\ entries \subseteq Vaults
    /\ \A r \in Requesters : request[r].live => request[r].vault \in entries
    /\ keys \in [Vaults -> Sigs \cup {Missing}]
    /\ \A v \in Vaults : keys[v] # Missing => v \in entries
    /\ blind \in BOOLEAN /\ drift \in BOOLEAN
    /\ derived \subseteq [vault : Vaults, key : Sigs, trusted : BOOLEAN]

-----------------------------------------------------------------------------
(* Fireblocks.                                                              *)

(* The payload of a RAW signature depends on the vault and the network: on  *)
(* testnet the vault's key of an asset signs, on mainnet that of a path.    *)
Payload(v) == <<v, env.network>>

(* A cached signature is used again, and a new one cached, if the workspace *)
(* is set to it.                                                            *)
Sign(r) ==
    LET p == Payload(request[r].vault)
        signed(sig) == request' = [request EXCEPT ![r].stage = "signed", ![r].sig = sig] IN
    /\ request[r].stage = "asked"
    /\ \/ /\ caching /\ cached[p] # Missing
          /\ signed(cached[p])
          /\ UNCHANGED <<cached, signatures>>
       \/ /\ ~caching \/ cached[p] = Missing
          /\ signatures < MaxSignatures
          /\ signatures' = signatures + 1
          /\ signed(signatures + 1)
          /\ cached' = IF caching THEN [cached EXCEPT ![p] = signatures + 1] ELSE cached
    /\ drift' = (drift /\ ~(r = Check /\ pc = "second"))
    /\ UNCHANGED <<caching, switches, starts, pc, env, verified, firstSig, entries, keys, blind,
                   derived>>

(* The transaction is completed, but its message has no fullSig.            *)
SignWithout(r) ==
    /\ request[r].stage = "asked"
    /\ request' = [request EXCEPT ![r].stage = "signed", ![r].sig = Missing]
    /\ blind' = (blind \/ r = Check)
    /\ UNCHANGED <<fireblocksVars, starts, pc, env, verified, firstSig, entries, keys, drift,
                   derived>>

(* An administrator changes the setting.                                    *)
Switch ==
    /\ switches < MaxSwitches
    /\ switches' = switches + 1
    /\ caching' = ~caching
    /\ drift' = TRUE
    /\ UNCHANGED <<cached, signatures, processVars, blind, derived>>

-----------------------------------------------------------------------------
(* Starting.                                                                *)

Init ==
    /\ caching \in BOOLEAN
    /\ cached = [p \in Payloads |-> Missing]
    /\ signatures = 0 /\ switches = 0 /\ starts = 0
    /\ pc = "down"
    /\ env \in Environments
    /\ verified = "undefined"
    /\ firstSig = Missing
    /\ request = [r \in Requesters |-> NoRequest]
    /\ entries = {}
    /\ keys = [v \in Vaults |-> Missing]
    /\ blind = FALSE /\ drift = FALSE /\ derived = {}

(* Why there is no SDK, in the order in which the code finds out.           *)
VariableMissing(e) == e.maker = "service" /\ e.credentials = "unset"
SecretUnreadable(e) == e.maker = "service" /\ e.credentials = "unreadable"
MainnetUnavailable(e) == e.maker # "constructor" /\ e.network = "mainnet"
BadCredentials(e) == e.credentials # "good"

Refused(e) ==
    \/ VariableMissing(e)
    \/ SecretUnreadable(e)
    \/ MainnetUnavailable(e)
    \/ BadCredentials(e)

(* The check is left out on demand, and by those who call the constructor.  *)
Checks(e) == e.maker # "constructor" /\ ~e.skip

(* The process goes down; nothing of it is left.                            *)
Exits ==
    /\ pc' = "down"
    /\ request' = [r \in Requesters |-> NoRequest]
    /\ entries' = {}
    /\ keys' = [v \in Vaults |-> Missing]
    /\ firstSig' = Missing

StartFails(e) ==
    /\ pc = "down" /\ starts < MaxStarts
    /\ Refused(e)
    /\ starts' = starts + 1
    /\ env' = e
    /\ verified' = "undefined"
    /\ UNCHANGED <<fireblocksVars, pc, firstSig, request, entries, keys, historyVars>>

(* The SDK is made.  Its check asks for the first signature; without one    *)
(* the service listens, or the program goes on.                             *)
Started(e) ==
    /\ pc = "down" /\ starts < MaxStarts
    /\ ~Refused(e)
    /\ starts' = starts + 1
    /\ env' = e
    /\ blind' = FALSE
    /\ IF Checks(e)
       THEN /\ pc' = "first"
            /\ request' = [request EXCEPT ![Check].stage = "asked"]
       ELSE pc' = "up" /\ UNCHANGED request
    /\ UNCHANGED <<fireblocksVars, firstSig, entries, keys, drift, derived>>

(* Mutant: leaving out the check leaves the flag undefined.                 *)
StartUnverified(e) == Started(e) /\ verified' = "undefined"

Start(e) ==
    /\ Started(e)
    /\ verified' = IF e.skip THEN "true" ELSE "undefined"

(* Mutant: one signature is enough.                                         *)
FirstReplySuffices ==
    /\ pc = "first" /\ request[Check].stage = "signed"
    /\ pc' = "up" /\ verified' = "true"
    /\ firstSig' = request[Check].sig
    /\ request' = [request EXCEPT ![Check] = NoRequest]
    /\ UNCHANGED <<fireblocksVars, starts, env, entries, keys, historyVars>>

FirstReply ==
    /\ pc = "first" /\ request[Check].stage = "signed"
    /\ pc' = "second"
    /\ firstSig' = request[Check].sig
    /\ request' = [request EXCEPT ![Check].stage = "asked", ![Check].sig = Missing]
    /\ UNCHANGED <<fireblocksVars, starts, env, verified, entries, keys, historyVars>>

(* Mutant: the signatures are not compared.                                 *)
SecondReplyUncompared ==
    /\ pc = "second" /\ request[Check].stage = "signed"
    /\ verified' = "true"
    /\ pc' = "up"
    /\ request' = [request EXCEPT ![Check] = NoRequest]
    /\ UNCHANGED <<fireblocksVars, starts, env, firstSig, entries, keys, historyVars>>

(* Two equal signatures, and two that are missing, pass.  Otherwise create  *)
(* throws, and nobody has got the SDK.                                      *)
SecondReply ==
    /\ pc = "second" /\ request[Check].stage = "signed"
    /\ IF request[Check].sig = firstSig
       THEN /\ verified' = "true"
            /\ pc' = "up"
            /\ request' = [request EXCEPT ![Check] = NoRequest]
            /\ UNCHANGED <<entries, keys, firstSig>>
       ELSE verified' = "false" /\ Exits
    /\ UNCHANGED <<fireblocksVars, starts, env, historyVars>>

(* rawSign throws: create throws, or the call ends.                         *)
SignFails(r) ==
    /\ request[r].stage = "asked"
    /\ \/ r = Check /\ Exits
       \/ /\ r # Check
          /\ request' = [request EXCEPT ![r] = NoRequest]
          /\ UNCHANGED <<pc, entries, keys, firstSig>>
    /\ UNCHANGED <<fireblocksVars, starts, env, verified, historyVars>>

Crash ==
    /\ pc # "down"
    /\ Exits
    /\ UNCHANGED <<fireblocksVars, starts, env, verified, historyVars>>

-----------------------------------------------------------------------------
(* Keys.                                                                    *)

(* What was derived by a process that made the check, with signatures to    *)
(* compare, in a workspace whose setting has not been touched since.        *)
Trusted == Checks(env) /\ ~blind /\ ~drift

(* ensureVaultData, for a vault without an entry: on behalf of              *)
(* deriveEncryptionKey, or of an operation that needs no key.               *)
Resolve(c, v) ==
    /\ pc = "up" /\ verified # "false"
    /\ request[c].stage = "none"
    /\ v \notin entries
    /\ request' = [request EXCEPT ![c].stage = "resolving", ![c].vault = v]
    /\ UNCHANGED <<fireblocksVars, starts, pc, env, verified, firstSig, entries, keys,
                   historyVars>>

(* A new entry takes the place of one that another call has put there in    *)
(* the meantime, though that one may have a key.  Who has the old one keeps *)
(* it.  The caller goes on to ask for a signature, or has what it needs.    *)
Resolved(c) ==
    LET v == request[c].vault
        goesOn == [stage |-> "asked", vault |-> v, sig |-> Missing, live |-> TRUE] IN
    /\ pc = "up" /\ request[c].stage = "resolving"
    /\ entries' = entries \cup {v}
    /\ keys' = [keys EXCEPT ![v] = Missing]
    /\ \E x \in {goesOn, NoRequest} :
           request' = [r \in Requesters |->
               IF r = c THEN x
               ELSE [request[r] EXCEPT !.live = @ /\ request[r].vault # v]]
    /\ UNCHANGED <<fireblocksVars, starts, pc, env, verified, firstSig, historyVars>>

ResolveFails(c) ==
    /\ pc = "up" /\ request[c].stage = "resolving"
    /\ request' = [request EXCEPT ![c] = NoRequest]
    /\ UNCHANGED <<fireblocksVars, starts, pc, env, verified, firstSig, entries, keys,
                   historyVars>>

(* deriveEncryptionKey, for a vault whose entry has no key.                 *)
Derive(c, v) ==
    /\ pc = "up" /\ verified # "false"
    /\ request[c].stage = "none"
    /\ v \in entries /\ keys[v] = Missing
    /\ request' = [request EXCEPT ![c] =
           [stage |-> "asked", vault |-> v, sig |-> Missing, live |-> TRUE]]
    /\ UNCHANGED <<fireblocksVars, starts, pc, env, verified, firstSig, entries, keys,
                   historyVars>>

(* The key is stored in the entry that the call has, which need not be the  *)
(* one in the map.  Without a signature the call throws.                    *)
DeriveReply(c) ==
    LET x == request[c] IN
    /\ pc = "up" /\ x.stage = "signed"
    /\ request' = [request EXCEPT ![c] = NoRequest]
    /\ \/ x.sig = Missing /\ UNCHANGED <<keys, derived>>
       \/ /\ x.sig # Missing
          /\ keys' = IF x.live THEN [keys EXCEPT ![x.vault] = x.sig] ELSE keys
          /\ derived' = derived \cup
                 {[vault |-> x.vault, key |-> x.sig, trusted |-> Trusted]}
    /\ UNCHANGED <<fireblocksVars, starts, pc, env, verified, firstSig, entries, blind, drift>>

(* shutdown: the map is emptied.  The process, and the calls under way with *)
(* the entries that they have, go on.                                       *)
Shutdown ==
    /\ pc = "up"
    /\ entries' = {}
    /\ keys' = [v \in Vaults |-> Missing]
    /\ request' = [r \in Requesters |-> [request[r] EXCEPT !.live = FALSE]]
    /\ UNCHANGED <<fireblocksVars, starts, pc, env, verified, firstSig, historyVars>>

-----------------------------------------------------------------------------
Step ==
    \/ \E r \in Requesters : Sign(r) \/ SignWithout(r) \/ SignFails(r)
    \/ FirstReply
    \/ SecondReply
    \/ \E c \in Calls : Resolved(c) \/ ResolveFails(c) \/ DeriveReply(c)

Next ==
    \/ \E e \in Environments : Start(e) \/ StartFails(e)
    \/ Step
    \/ \E c \in Calls, v \in Vaults : Resolve(c, v) \/ Derive(c, v)
    \/ Shutdown
    \/ Crash
    \/ Switch

Spec == Init /\ [][Next]_vars

-----------------------------------------------------------------------------
(* Properties.                                                              *)

(* A vault has one encryption key for good: two processes, or two calls of  *)
(* one, derive the same, whatever crashes and restarts lie between them,    *)
(* and whatever a process has derived for which the check was no guarantee. *)
KeysAreStable ==
    \A d, e \in derived :
        d.trusted /\ e.trusted /\ d.vault = e.vault => d.key = e.key

(* While the process lives, no key takes the place of another: a key stays  *)
(* until its entry is replaced by an empty one, or cleared, though several  *)
(* calls may have asked for a signature at once, and some of them store     *)
(* what they get after the entry was lost and made again.                   *)
KeyNeverChanges ==
    [][pc = "up" /\ pc' = "up" /\ Trusted =>
           \A v \in Vaults : keys[v] # Missing => keys'[v] \in {keys[v], Missing}]_vars
=============================================================================
