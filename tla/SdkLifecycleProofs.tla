------------------------- MODULE SdkLifecycleProofs -------------------------
(***************************************************************************)
(* What SdkLifecycle promises of keys, for any number of vaults, calls,    *)
(* starts, changes of the setting and signatures.                          *)
(*                                                                         *)
(* Stability of the keys is not inductive: it speaks of what was derived,  *)
(* not of why the next process derives the same.  The reason is an         *)
(* invariant that ties a process that passed the check to Fireblocks: two  *)
(* equal signatures show that the workspace caches them (Agreed), because  *)
(* a new one is larger than all seen before (Numbered); all that such a    *)
(* process has or waits for is then in the cache (FromCache), and the      *)
(* cache never loses a signature (DerivedCached).                          *)
(***************************************************************************)
EXTENDS SdkLifecycle, TLAPS

USE DEF Request

(* What a process has depends on how far it has come.                       *)
Begun ==
    /\ pc # "down" => ~Refused(env)
    /\ pc \in {"first", "second"} => Checks(env)
    /\ pc # "up" => /\ \A v \in Vaults : keys[v] = Missing
                    /\ \A c \in Calls : request[c].stage = "none"
    /\ \A c \in Calls : request[c].stage \in {"none", "resolving"} =>
                           request[c].sig = Missing /\ ~request[c].live

(* No signature has been seen that was not made.                            *)
Numbered ==
    /\ firstSig <= signatures
    /\ \A r \in Requesters : request[r].sig <= signatures
    /\ \A p \in Payloads : cached[p] <= signatures

(* The check passes on signatures only if the workspace caches them.        *)
Agreed ==
    pc = "second" /\ request[Check].stage = "signed" /\ ~blind /\ ~drift
        /\ request[Check].sig = firstSig => caching

InCache(v, sig) == sig # Missing => sig = cached[<<v, "testnet">>]

(* All signatures and keys of a trusted process are in the cache.           *)
FromCache ==
    pc = "up" /\ Trusted =>
        /\ caching
        /\ \A v \in Vaults : InCache(v, keys[v])
        /\ \A c \in Calls : InCache(request[c].vault, request[c].sig)

(* And they stay there, whatever becomes of the process.                    *)
DerivedCached == \A d \in derived : d.trusted => InCache(d.vault, d.key)

IInv == TypeOK /\ Begun /\ Numbered /\ Agreed /\ FromCache /\ DerivedCached

-----------------------------------------------------------------------------
(* Who has the check has a process that makes it on testnet.                *)
LEMMA ChecksOnTestnet ==
    ASSUME TypeOK, Begun, pc # "down", Checks(env)
    PROVE  env.network = "testnet"
BY DEF TypeOK, Begun, Environment, Checks, Refused, MainnetUnavailable

(* The invariant holds at the start.                                        *)
LEMMA InitInvariant == Init => IInv
<1> SUFFICES ASSUME Init PROVE IInv
  OBVIOUS
<1>1. TypeOK
  <2>1. /\ cached \in [Payloads -> Sigs \cup {Missing}]
        /\ keys \in [Vaults -> Sigs \cup {Missing}]
        /\ request \in [Requesters -> Request]
    BY LifecycleAssumption DEF Init, NoRequest
  <2>2. env \in Environment /\ Check \in Requesters
    BY LifecycleAssumption DEF Init, Requesters
  <2>3. /\ request[Check].stage = "none" /\ pc = "down" /\ entries = {}
        /\ \A r \in Requesters : ~request[r].live
        /\ \A v \in Vaults : keys[v] = Missing
    BY <2>2 DEF Init, NoRequest
  <2>4. /\ signatures \in 0..MaxSignatures /\ switches \in 0..MaxSwitches
        /\ starts \in 0..MaxStarts
    BY LifecycleAssumption DEF Init
  <2> QED BY <2>1, <2>2, <2>3, <2>4 DEF Init, TypeOK
<1>2. Begun /\ Numbered /\ Agreed /\ FromCache /\ DerivedCached
  BY LifecycleAssumption
     DEF Init, Begun, Numbered, Agreed, FromCache, DerivedCached, Requesters, NoRequest, Missing
<1> QED BY <1>1, <1>2 DEF IInv

(* A signature keeps the invariant: a new one is larger than all others, and*)
(* what is signed with caching on is what the cache has from now on.        *)
LEMMA SignKeeps ==
    ASSUME IInv, NEW r \in Requesters, Sign(r)
    PROVE  IInv'
<1> DEFINE x == request[r]
           p == Payload(x.vault)
           Signed(sig) == request' = [request EXCEPT ![r].stage = "signed", ![r].sig = sig]
<1>0. TypeOK /\ Begun /\ Numbered /\ Agreed /\ FromCache /\ DerivedCached
  BY DEF IInv
<1>1. /\ x.stage = "asked" /\ x.vault \in Vaults
      /\ p \in Payloads /\ cached[p] \in Sigs \cup {Missing}
  BY <1>0 DEF TypeOK, Sign, Payload, Payloads, Environment
<1>2. PICK sig \in Sigs :
        /\ Signed(sig)
        /\ cached' \in [Payloads -> Sigs \cup {Missing}]
        /\ signatures' \in 0..MaxSignatures /\ signatures <= signatures'
        /\ sig = signatures' \/ sig = cached[p]
        /\ \A q \in Payloads : cached'[q] \in {cached[q], sig}
        /\ \A q \in Payloads : cached[q] # Missing => cached'[q] = cached[q]
        /\ caching => cached'[p] = sig
        /\ ~caching => sig = signatures + 1
  <2>1. CASE caching /\ cached[p] # Missing
    <3>1. cached[p] \in Sigs /\ Signed(cached[p]) /\ UNCHANGED <<cached, signatures>>
      BY <1>1, <2>1 DEF Sign, Missing
    <3> HIDE DEF Signed, p
    <3> QED BY <1>0, <2>1, <3>1, LifecycleAssumption DEF TypeOK
  <2>2. CASE ~caching \/ cached[p] = Missing
    <3>1. /\ Signed(signatures + 1)
          /\ signatures < MaxSignatures
          /\ signatures' = signatures + 1
          /\ cached' = IF caching THEN [cached EXCEPT ![p] = signatures + 1] ELSE cached
      BY <1>1, <2>2 DEF Sign
    <3>2. signatures + 1 \in Sigs /\ signatures' \in 0..MaxSignatures
      BY <1>0, <3>1, LifecycleAssumption DEF TypeOK, Sigs
    <3> HIDE DEF Signed, p
    <3> QED BY <1>0, <1>1, <2>2, <3>1, <3>2, LifecycleAssumption DEF TypeOK
  <2> QED BY <2>1, <2>2
<1>3. /\ request'[r].stage = "signed" /\ request'[r].vault = x.vault
      /\ request'[r].sig = sig /\ request'[r].live = x.live
      /\ \A q \in Requesters : q # r => request'[q] = request[q]
      /\ request' \in [Requesters -> Request]
  <2>1. /\ request'[r] = [[x EXCEPT !.stage = "signed"] EXCEPT !.sig = sig]
        /\ \A q \in Requesters : q # r => request'[q] = request[q]
        /\ request' = [q \in Requesters |-> request'[q]]
    BY <1>0, <1>2 DEF TypeOK
  <2>2. x \in Request
    BY <1>0 DEF TypeOK
  <2>3. \A q \in Requesters : request[q] \in
            Request
    BY <1>0 DEF TypeOK
  <2> HIDE DEF x
  <2>4. /\ request'[r].stage = "signed" /\ request'[r].vault = x.vault
        /\ request'[r].sig = sig /\ request'[r].live = x.live
        /\ request'[r] \in
            Request
    BY <2>1, <2>2
  <2> QED BY <2>1, <2>3, <2>4
<1>4. UNCHANGED <<caching, switches, starts, pc, env, verified, firstSig, entries, keys, blind, derived>>
  BY DEF Sign
<1> HIDE DEF x, p, Signed
<1>6. TypeOK'
  <2>1. request'[Check].stage # "none" <=> request[Check].stage # "none"
    BY <1>1, <1>3 DEF x, Requesters
  <2>2. drift' \in BOOLEAN
    BY DEF Sign, TypeOK
  <2>3. \A q \in Requesters : request'[q].live => request'[q].vault \in entries'
    BY <1>0, <1>3, <1>4 DEF x, TypeOK
  <2> QED BY <1>0, <1>2, <1>3, <1>4, <2>1, <2>2, <2>3 DEF TypeOK
<1>7. Begun' /\ Numbered'
  <2>1. Numbered'
    <3>1. sig <= signatures'
      BY <1>0, <1>1, <1>2 DEF Numbered, TypeOK, Sigs
    <3>2. \A q \in Payloads : cached'[q] <= signatures'
      BY <1>0, <1>1, <1>2, <3>1 DEF Numbered, TypeOK, Sigs, Missing
    <3> QED BY <1>0, <1>2, <1>3, <1>4, <3>1, <3>2 DEF Numbered, TypeOK, Sigs, Missing
  <2>2. Begun'
    BY <1>0, <1>1, <1>2, <1>3, <1>4, LifecycleAssumption
       DEF x, Begun, TypeOK, Requesters, Sigs, Missing, Refused, Checks, VariableMissing,
           SecretUnreadable, MainnetUnavailable, BadCredentials
  <2> QED BY <2>1, <2>2
<1>8. Agreed'
  <2>1. CASE pc # "second"
    BY <1>4, <2>1 DEF Agreed
  <2>2. CASE pc = "second"
    <3>1. r = Check
      BY <1>0, <1>1, <2>2 DEF x, Begun, Requesters
    <3>2. firstSig <= signatures /\ signatures \in Nat
      BY <1>0 DEF Numbered, TypeOK
    <3>3. ~caching => request'[Check].sig # firstSig
      BY <1>2, <1>3, <3>1, <3>2, <1>0 DEF x, TypeOK, Sigs
    <3> QED BY <1>4, <3>3 DEF Agreed
  <2> QED BY <2>1, <2>2
<1>9. FromCache'
  <2> SUFFICES ASSUME pc = "up", Trusted'
               PROVE  /\ caching
                      /\ \A v \in Vaults : InCache(v, keys[v])'
                      /\ \A c \in Calls : InCache(request[c].vault, request[c].sig)'
    BY <1>4 DEF FromCache
  <2>1. r # Check /\ r \in Calls
    BY <1>0, <1>1 DEF x, TypeOK, Requesters
  <2>2. Trusted
    <3>1. drift => drift'
      BY <2>1 DEF Sign
    <3> QED BY <1>4, <3>1 DEF Checks, Trusted
  <2>3. caching /\ env.network = "testnet" /\ p = <<x.vault, "testnet">>
    BY <1>0, <2>2, ChecksOnTestnet DEF FromCache, Trusted, p, Payload
  <2>4. \A v \in Vaults : InCache(v, keys[v])'
    BY <1>0, <1>2, <1>4, <2>2 DEF FromCache, InCache, Payloads
  <2>5. ASSUME NEW c \in Calls PROVE InCache(request[c].vault, request[c].sig)'
    <3>1. CASE c = r
      BY <1>0, <1>2, <1>3, <2>3, <3>1 DEF InCache, x, TypeOK
    <3>2. CASE c # r
      <4>1. request'[c] = request[c] /\ request[c].vault \in Vaults
        BY <1>0, <1>3, <3>2 DEF TypeOK, Requesters
      <4> QED BY <1>0, <1>2, <2>2, <4>1 DEF FromCache, InCache, Payloads
    <3> QED BY <3>1, <3>2
  <2> QED BY <2>3, <2>4, <2>5
<1>10. DerivedCached'
  BY <1>0, <1>2, <1>4 DEF DerivedCached, InCache, TypeOK, Payloads
<1> QED BY <1>6, <1>7, <1>8, <1>9, <1>10 DEF IInv

(* An answer without a signature takes no key from anybody; the check has   *)
(* then seen that it is missing.                                            *)
LEMMA SignWithoutKeeps ==
    ASSUME IInv, NEW r \in Requesters, SignWithout(r)
    PROVE  IInv'
<1>0. TypeOK /\ Begun /\ Numbered /\ Agreed /\ FromCache /\ DerivedCached
  BY DEF IInv
<1>1. request[r].stage = "asked" /\ request[r].vault \in Vaults
  BY <1>0 DEF TypeOK, SignWithout
<1>2. /\ request'[r].stage = "signed" /\ request'[r].vault = request[r].vault
      /\ request'[r].sig = Missing /\ request'[r].live = request[r].live
      /\ \A q \in Requesters : q # r => request'[q] = request[q]
      /\ request' \in [Requesters -> Request]
  BY <1>0 DEF TypeOK, SignWithout
<1>3. UNCHANGED <<fireblocksVars, starts, pc, env, verified, firstSig, entries, keys, drift, derived>>
  BY DEF SignWithout
<1>4. blind' \in BOOLEAN /\ (blind => blind') /\ (r = Check => blind')
  BY <1>0 DEF SignWithout, TypeOK
<1>5. TypeOK'
  <2>1. request'[Check].stage # "none" <=> request[Check].stage # "none"
    BY <1>1, <1>2 DEF Requesters
  <2> QED BY <1>0, <1>2, <1>3, <1>4, <2>1 DEF TypeOK, fireblocksVars
<1>6. Begun' /\ Numbered'
  BY <1>0, <1>1, <1>2, <1>3
     DEF Begun, Numbered, TypeOK, Missing, Requesters, fireblocksVars, Refused, Checks, VariableMissing, SecretUnreadable,
         MainnetUnavailable, BadCredentials
<1>7. Agreed'
  BY <1>0, <1>2, <1>3, <1>4 DEF Agreed, fireblocksVars, Requesters
<1>8. FromCache'
  <2>1. Trusted' => Trusted
    BY <1>3, <1>4 DEF Trusted, Checks
  <2>2. pc = "up" /\ Trusted => \A c \in Calls : InCache(request[c].vault, request[c].sig)'
    BY <1>0, <1>2, <1>3 DEF FromCache, InCache, Requesters, fireblocksVars
  <2> QED BY <1>0, <1>3, <2>1, <2>2 DEF FromCache, InCache, fireblocksVars
<1>9. DerivedCached'
  BY <1>0, <1>3 DEF DerivedCached, InCache, fireblocksVars
<1> QED BY <1>5, <1>6, <1>7, <1>8, <1>9 DEF IInv

(* A process that goes down leaves nothing but what Fireblocks has.         *)
LEMMA ExitKeeps ==
    ASSUME IInv, Exits, verified' \in {"undefined", "true", "false"},
           UNCHANGED <<fireblocksVars, starts, env, historyVars>>
    PROVE  IInv'
<1>0. TypeOK /\ Numbered /\ DerivedCached
  BY DEF IInv
<1>1. /\ pc' = "down" /\ firstSig' = Missing
      /\ \A r \in Requesters : /\ request'[r].stage = "none" /\ request'[r].sig = Missing
                               /\ ~request'[r].live
      /\ \A v \in Vaults : keys'[v] = Missing
      /\ entries' = {}
      /\ request' \in [Requesters -> Request]
      /\ keys' \in [Vaults -> Sigs \cup {Missing}]
  BY LifecycleAssumption DEF Exits, NoRequest
<1>2. TypeOK'
  BY <1>0, <1>1 DEF TypeOK, fireblocksVars, historyVars, Requesters, Missing
<1>3. Begun' /\ Numbered' /\ Agreed' /\ FromCache'
  BY <1>0, <1>1 DEF Begun, Numbered, Agreed, FromCache, TypeOK, fireblocksVars, Missing, Requesters
<1>4. DerivedCached'
  BY <1>0 DEF DerivedCached, InCache, fireblocksVars, historyVars
<1> QED BY <1>2, <1>3, <1>4 DEF IInv

(* A call that ends for want of an answer leaves its process as it was.     *)
LEMMA SignFailsKeeps ==
    ASSUME IInv, NEW r \in Requesters, SignFails(r)
    PROVE  IInv'
<1>0. TypeOK /\ Begun /\ Numbered /\ Agreed /\ FromCache /\ DerivedCached
  BY DEF IInv
<1>1. CASE r = Check /\ Exits
  BY <1>0, <1>1, ExitKeeps DEF SignFails, TypeOK
<1>2. CASE r # Check /\ request' = [request EXCEPT ![r] = NoRequest] /\ UNCHANGED <<pc, entries, keys, firstSig>>
  <2>1. /\ request'[r] = NoRequest
        /\ \A q \in Requesters : q # r => request'[q] = request[q]
        /\ request' \in [Requesters -> Request]
        /\ request'[Check] = request[Check]
        /\ request'[r].stage = "none" /\ request'[r].sig = Missing /\ ~request'[r].live
    BY <1>0, <1>2, LifecycleAssumption DEF TypeOK, NoRequest, Requesters
  <2>2. UNCHANGED <<caching, cached, signatures, switches, starts, pc, env, verified, firstSig,
                    entries, keys, blind, drift, derived>>
    BY <1>2 DEF SignFails, fireblocksVars, historyVars
  <2>3. TypeOK'
    BY <1>0, <2>1, <2>2 DEF TypeOK
  <2>4. Begun' /\ Numbered'
    BY <1>0, <2>1, <2>2
       DEF Begun, Numbered, TypeOK, Missing, Requesters, Refused, Checks, VariableMissing, SecretUnreadable,
           MainnetUnavailable, BadCredentials
  <2>5. Agreed' /\ DerivedCached'
    BY <1>0, <2>1, <2>2 DEF Agreed, DerivedCached, InCache
  <2>6. FromCache'
    BY <1>0, <2>1, <2>2 DEF FromCache, Trusted, Checks, InCache, Requesters
  <2> QED BY <2>3, <2>4, <2>5, <2>6 DEF IInv
<1> QED BY <1>1, <1>2 DEF SignFails

(* A process that starts is one that the code does not refuse; without a    *)
(* check it is not trusted.                                                 *)
LEMMA StartKeeps ==
    ASSUME IInv, NEW e \in Environments, Start(e) \/ StartFails(e)
    PROVE  IInv'
<1>0. TypeOK /\ Begun /\ Numbered /\ Agreed /\ FromCache /\ DerivedCached
  BY DEF IInv
<1>1. /\ pc = "down" /\ starts' \in 0..MaxStarts /\ env' = e /\ e \in Environment
      /\ UNCHANGED <<caching, cached, signatures, switches, firstSig, entries, keys, drift, derived>>
  BY <1>0, LifecycleAssumption DEF Start, Started, StartFails, TypeOK, fireblocksVars, historyVars
<1>2. /\ \A c \in Calls : request'[c].stage = "none" /\ request'[c].sig = Missing
      /\ \A r \in Requesters : /\ request'[r].sig = request[r].sig
                               /\ request'[r].live = request[r].live
                               /\ request'[r].vault = request[r].vault
      /\ request' \in [Requesters -> Request]
  BY <1>0, <1>1, LifecycleAssumption
     DEF Start, Started, StartFails, Begun, TypeOK, Requesters, Check
<1>3. /\ pc' \in {"down", "first", "up"}
      /\ pc' = "first" <=> request'[Check].stage # "none"
      /\ pc' # "down" => ~Refused(e)
      /\ pc' = "first" => Checks(e)
      /\ pc' = "up" => ~Checks(e) /\ verified' = IF e.skip THEN "true" ELSE "undefined"
      /\ verified' \in {"undefined", "true"}
      /\ blind' \in BOOLEAN
  <2>1. CASE StartFails(e)
    BY <1>0, <2>1 DEF StartFails, TypeOK, historyVars
  <2>2. CASE Start(e)
    <3>1. request[Check].stage = "none" /\ Check \in DOMAIN request
      BY <1>0, <1>1 DEF TypeOK, Requesters
    <3>2. Checks(e) => request'[Check].stage = "asked"
      BY <1>0, <2>2, <3>1 DEF Start, Started, TypeOK, Requesters
    <3> QED BY <1>0, <1>1, <2>2, <3>1, <3>2 DEF Start, Started
  <2> QED BY <2>1, <2>2
<1>4. TypeOK'
  BY <1>0, <1>1, <1>2, <1>3 DEF TypeOK, Checks
<1>5. Begun' /\ Numbered' /\ Agreed'
  BY <1>0, <1>1, <1>2, <1>3
     DEF Begun, Numbered, TypeOK, Agreed, Requesters, Refused, Checks, VariableMissing, SecretUnreadable,
         MainnetUnavailable, BadCredentials
<1>6. FromCache' /\ DerivedCached'
  BY <1>0, <1>1, <1>3 DEF FromCache, Trusted, Checks, DerivedCached, InCache
<1> QED BY <1>4, <1>5, <1>6 DEF IInv

(* The check.  With equal signatures, and Fireblocks untouched since, the   *)
(* process that comes up is one that a cache stands behind.                 *)
LEMMA CheckKeeps ==
    ASSUME IInv, FirstReply \/ SecondReply
    PROVE  IInv'
<1>0. TypeOK /\ Begun /\ Numbered /\ Agreed /\ FromCache /\ DerivedCached
  BY DEF IInv
<1>1. ASSUME FirstReply PROVE IInv'
  <2>1. /\ pc = "first" /\ pc' = "second"
        /\ firstSig' = request[Check].sig
        /\ UNCHANGED <<caching, cached, signatures, switches, starts, env, verified, entries, keys,
                       blind, drift, derived>>
    BY <1>1 DEF FirstReply, fireblocksVars, historyVars
  <2>2. /\ request'[Check].stage = "asked" /\ request'[Check].sig = Missing
        /\ request'[Check].live = request[Check].live
        /\ request'[Check].vault = request[Check].vault
        /\ \A c \in Calls : request'[c] = request[c]
        /\ request' \in [Requesters -> Request]
    <3> DEFINE x == request[Check]
    <3>1. /\ request'[Check] = [[x EXCEPT !.stage = "asked"] EXCEPT !.sig = Missing]
          /\ \A q \in Requesters : q # Check => request'[q] = request[q]
          /\ request' = [q \in Requesters |-> request'[q]]
      BY <1>0, <1>1 DEF FirstReply, TypeOK, Requesters
    <3>2. \A q \in Requesters : request[q] \in
              Request
      BY <1>0 DEF TypeOK
    <3>3. x \in Request
      BY <3>2 DEF Requesters
    <3> HIDE DEF x
    <3>4. /\ request'[Check].stage = "asked" /\ request'[Check].sig = Missing
          /\ request'[Check].live = x.live /\ request'[Check].vault = x.vault
          /\ request'[Check] \in
              Request
      BY <3>1, <3>3
    <3>5. \A c \in Calls : c \in Requesters /\ c # Check
      BY LifecycleAssumption DEF Requesters, Check
    <3>6. request' \in [Requesters -> Request]
      BY <3>1, <3>2, <3>4
    <3> QED BY <3>1, <3>4, <3>5, <3>6 DEF x
  <2>3. firstSig' \in Sigs \cup {Missing}
    BY <1>0, <2>1 DEF TypeOK, Requesters
  <2>4. TypeOK'
    <3>1. \A r \in Requesters : request'[r].live => request'[r].vault \in entries'
      BY <1>0, <2>1, <2>2 DEF TypeOK, Requesters
    <3> QED BY <1>0, <2>1, <2>2, <2>3, <3>1 DEF TypeOK
  <2>5. Begun' /\ Numbered' /\ Agreed' /\ FromCache' /\ DerivedCached'
    BY <1>0, <2>1, <2>2
       DEF Begun, Numbered, TypeOK, Missing, Requesters, Agreed, FromCache, DerivedCached, InCache, Refused, Checks, VariableMissing,
           SecretUnreadable, MainnetUnavailable, BadCredentials
  <2> QED BY <2>4, <2>5 DEF IInv
<1>2. CASE SecondReply /\ request[Check].sig # firstSig
  BY <1>2, ExitKeeps DEF SecondReply
<1>3. CASE SecondReply /\ request[Check].sig = firstSig
  <2>1. /\ pc = "second" /\ pc' = "up" /\ verified' = "true"
        /\ request[Check].stage = "signed"
        /\ UNCHANGED <<caching, cached, signatures, switches, starts, env, entries, keys, firstSig,
                       blind, drift, derived>>
    BY <1>3 DEF SecondReply, fireblocksVars, historyVars
  <2>2. /\ request'[Check].stage = "none" /\ request'[Check].sig = Missing
        /\ ~request'[Check].live
        /\ \A c \in Calls : request'[c] = request[c]
        /\ request' \in [Requesters -> Request]
    <3>1. request' = [request EXCEPT ![Check] = NoRequest] /\ Check \in Requesters
      BY <1>3 DEF SecondReply, Requesters
    <3>2. \A c \in Calls : c \in Requesters /\ c # Check
      BY LifecycleAssumption DEF Requesters, Check
    <3>3. NoRequest \in Request /\ request \in [Requesters -> Request]
      BY <1>0, LifecycleAssumption DEF NoRequest, TypeOK
    <3>4. NoRequest.stage = "none" /\ NoRequest.sig = Missing /\ ~NoRequest.live
      BY DEF NoRequest
    <3> HIDE DEF Request
    <3> QED BY <3>1, <3>2, <3>3, <3>4
  <2>3. TypeOK'
    <3>1. \A r \in Requesters : request'[r].live => request'[r].vault \in entries'
      BY <1>0, <2>1, <2>2 DEF TypeOK, Requesters
    <3>2. verified' = IF env.maker = "constructor" /\ ~env.skip THEN "undefined" ELSE "true"
      BY <1>0, <2>1 DEF Begun, Checks
    <3> QED BY <1>0, <2>1, <2>2, <3>1, <3>2 DEF TypeOK
  <2>4. Begun' /\ Numbered' /\ Agreed' /\ DerivedCached'
    BY <1>0, <2>1, <2>2
       DEF Begun, Numbered, TypeOK, Missing, Requesters, Agreed, DerivedCached, InCache, Refused, Checks, VariableMissing,
           SecretUnreadable, MainnetUnavailable, BadCredentials
  <2>5. FromCache'
    BY <1>0, <1>3, <2>1, <2>2 DEF Begun, Agreed, FromCache, Trusted, Checks, InCache
  <2> QED BY <2>3, <2>4, <2>5 DEF IInv
<1> QED BY <1>1, <1>2, <1>3

(* A call resolves its entry, fails to, or asks for a signature: it has     *)
(* none yet.                                                                *)
LEMMA DeriveKeeps ==
    ASSUME IInv, NEW c \in Calls,
           ResolveFails(c) \/ \E v \in Vaults : Resolve(c, v) \/ Derive(c, v)
    PROVE  IInv'
<1>0. TypeOK /\ Begun /\ Numbered /\ Agreed /\ FromCache /\ DerivedCached
  BY DEF IInv
<1>1. /\ pc = "up"
      /\ UNCHANGED <<caching, cached, signatures, switches, starts, pc, env, verified, firstSig,
                     entries, keys, blind, drift, derived>>
  BY DEF Resolve, ResolveFails, Derive, fireblocksVars, historyVars
<1>2. c \in Requesters /\ c # Check
  BY LifecycleAssumption DEF Requesters, Check
<1>3. /\ request'[c].sig = Missing
      /\ request'[c].live => request'[c].vault \in entries
      /\ request'[c].stage \in {"none", "resolving"} => ~request'[c].live
      /\ \A q \in Requesters : q # c => request'[q] = request[q]
      /\ request' \in [Requesters -> Request]
  <2>1. request[c].sig = Missing
    BY <1>0, <1>1, <1>2 DEF Begun, Resolve, ResolveFails, Derive
  <2>2. CASE \E v \in Vaults : Resolve(c, v)
    <3>1. PICK v \in Vaults : Resolve(c, v)
      BY <2>2
    <3>2. /\ request'[c] = [[request[c] EXCEPT !.stage = "resolving"] EXCEPT !.vault = v]
          /\ \A q \in Requesters : q # c => request'[q] = request[q]
          /\ request' = [q \in Requesters |-> request'[q]]
          /\ ~request[c].live
      BY <1>0, <1>2, <3>1 DEF Resolve, TypeOK, Begun
    <3>3. \A q \in Requesters : request[q] \in Request
      BY <1>0 DEF TypeOK
    <3>4. /\ request'[c] \in Request
          /\ request'[c].sig = request[c].sig /\ request'[c].live = request[c].live
      BY <1>2, <3>2, <3>3
    <3>5. request' \in [Requesters -> Request]
      BY <3>2, <3>3, <3>4
    <3> QED BY <2>1, <3>2, <3>4, <3>5
  <2>3. CASE ResolveFails(c) \/ \E v \in Vaults : Derive(c, v)
    <3>1. PICK x \in Request :
            /\ request' = [request EXCEPT ![c] = x]
            /\ x.sig = Missing /\ (x.live => x.vault \in entries)
            /\ x.stage # "resolving" /\ (x.stage = "none" => ~x.live)
      <4>1. CASE ResolveFails(c)
        <5>1. /\ NoRequest \in Request /\ NoRequest.sig = Missing /\ ~NoRequest.live
              /\ NoRequest.stage = "none"
          BY LifecycleAssumption DEF NoRequest, Missing
        <5> HIDE DEF Request, NoRequest
        <5> QED BY <4>1, <5>1 DEF ResolveFails
      <4>2. CASE \E v \in Vaults : Derive(c, v)
        <5>1. PICK v \in Vaults : Derive(c, v)
          BY <4>2
        <5> DEFINE x == [stage |-> "asked", vault |-> v, sig |-> Missing, live |-> TRUE]
        <5>2. /\ x \in Request /\ x.sig = Missing /\ x.vault = v /\ x.stage = "asked"
              /\ request' = [request EXCEPT ![c] = x] /\ v \in entries
          BY <5>1 DEF Derive, Missing
        <5> HIDE DEF Request, x
        <5> QED BY <5>2
      <4> QED BY <2>3, <4>1, <4>2
    <3>2. request \in [Requesters -> Request]
      BY <1>0 DEF TypeOK
    <3> HIDE DEF Request
    <3> QED BY <1>2, <3>1, <3>2
  <2> QED BY <2>2, <2>3
<1>4. TypeOK'
  BY <1>0, <1>1, <1>2, <1>3 DEF TypeOK, Requesters
<1>5. Begun' /\ Numbered' /\ Agreed' /\ DerivedCached'
  BY <1>0, <1>1, <1>2, <1>3
     DEF Begun, Numbered, Agreed, DerivedCached, InCache, TypeOK, Missing, Requesters, Refused,
         Checks, VariableMissing, SecretUnreadable, MainnetUnavailable, BadCredentials
<1>6. FromCache'
  BY <1>0, <1>1, <1>3 DEF FromCache, Trusted, Checks, InCache, Requesters
<1> QED BY <1>4, <1>5, <1>6 DEF IInv

(* What a request keeps whose entry leaves the map.                         *)
LEMMA Orphaned ==
    ASSUME NEW y \in Request, NEW b \in BOOLEAN
    PROVE  LET z == [y EXCEPT !.live = b]
           IN  /\ z \in Request /\ (z.live <=> b)
               /\ z.stage = y.stage /\ z.vault = y.vault /\ z.sig = y.sig
OBVIOUS

(* A new entry has no key, and only the call that made it has it.           *)
LEMMA ResolvedKeeps ==
    ASSUME IInv, NEW c \in Calls, Resolved(c)
    PROVE  IInv'
<1> DEFINE v == request[c].vault
<1>0. TypeOK /\ Begun /\ Numbered /\ Agreed /\ FromCache /\ DerivedCached
  BY DEF IInv
<1>1. /\ pc = "up"
      /\ UNCHANGED <<caching, cached, signatures, switches, starts, pc, env, verified, firstSig,
                     blind, drift, derived>>
  BY DEF Resolved, fireblocksVars, historyVars
<1>2. c \in Requesters /\ c # Check /\ v \in Vaults
  BY <1>0, LifecycleAssumption DEF Requesters, Check, TypeOK
<1>3. PICK x \in Request :
        /\ x.sig = Missing /\ (x.stage = "none" => ~x.live)
        /\ x.stage # "resolving" /\ (x.live => x.vault = v)
        /\ request' = [q \in Requesters |->
               IF q = c THEN x ELSE [request[q] EXCEPT !.live = @ /\ request[q].vault # v]]
  <2> DEFINE goesOn == [stage |-> "asked", vault |-> v, sig |-> Missing, live |-> TRUE]
  <2>1. \E x \in {goesOn, NoRequest} : request' = [q \in Requesters |->
               IF q = c THEN x ELSE [request[q] EXCEPT !.live = @ /\ request[q].vault # v]]
    BY DEF Resolved
  <2>2. \A x \in {goesOn, NoRequest} :
        /\ x \in Request /\ x.sig = Missing /\ (x.stage = "none" => ~x.live)
        /\ x.stage # "resolving" /\ (x.live => x.vault = v)
    <3>1. /\ goesOn \in Request /\ goesOn.sig = Missing /\ goesOn.stage = "asked"
          /\ goesOn.vault = v
      BY <1>2 DEF Missing
    <3>2. /\ NoRequest \in Request /\ NoRequest.sig = Missing /\ NoRequest.stage = "none"
          /\ ~NoRequest.live
      BY LifecycleAssumption DEF NoRequest, Missing
    <3> HIDE DEF Request, NoRequest, goesOn, v
    <3> QED BY <3>1, <3>2
  <2> HIDE DEF Request, goesOn, v
  <2> QED BY <2>1, <2>2
<1>4. request \in [Requesters -> Request]
  BY <1>0 DEF TypeOK
<1> HIDE DEF v, Request
<1>5. /\ request'[c] = x
      /\ \A q \in Requesters : q # c =>
             /\ request'[q].stage = request[q].stage /\ request'[q].vault = request[q].vault
             /\ request'[q].sig = request[q].sig
             /\ request'[q].live => request[q].live
      /\ request' \in [Requesters -> Request]
  <2>1. ASSUME NEW q \in Requesters, q # c
        PROVE  /\ request'[q].stage = request[q].stage /\ request'[q].vault = request[q].vault
               /\ request'[q].sig = request[q].sig
               /\ request'[q].live => request[q].live
               /\ request'[q] \in Request
    <3> DEFINE b == request[q].live /\ request[q].vault # v
    <3>1. request'[q] = [request[q] EXCEPT !.live = b] /\ b \in BOOLEAN
      BY <1>3, <2>1
    <3>2. request[q] \in Request
      BY <1>4
    <3>3. b => request[q].live
      OBVIOUS
    <3> HIDE DEF b
    <3> QED BY <3>1, <3>2, <3>3, Orphaned
  <2>2. request'[c] = x
    BY <1>2, <1>3
  <2> QED BY <1>3, <2>1, <2>2
<1> USE DEF Request
<1>6. /\ keys' \in [Vaults -> Sigs \cup {Missing}] /\ keys'[v] = Missing
      /\ \A w \in Vaults : keys'[w] \in {keys[w], Missing}
      /\ entries' = entries \cup {v}
  BY <1>0, <1>2 DEF Resolved, TypeOK, v
<1>7. TypeOK'
  <2>1. \A r \in Requesters : request'[r].live => request'[r].vault \in entries'
    BY <1>0, <1>3, <1>5, <1>6 DEF TypeOK
  <2>2. request'[Check].stage # "none" <=> request[Check].stage # "none"
    BY <1>2, <1>5 DEF Requesters
  <2>3. \A w \in Vaults : keys'[w] # Missing => w \in entries'
    BY <1>0, <1>6 DEF TypeOK
  <2> QED BY <1>0, <1>1, <1>2, <1>5, <1>6, <2>1, <2>2, <2>3 DEF TypeOK
<1>8. Begun' /\ Numbered' /\ Agreed' /\ DerivedCached'
  BY <1>0, <1>1, <1>3, <1>5
     DEF Begun, Numbered, Agreed, DerivedCached, InCache, TypeOK, Missing, Requesters, Refused,
         Checks, VariableMissing, SecretUnreadable, MainnetUnavailable, BadCredentials
<1>9. FromCache'
  BY <1>0, <1>1, <1>3, <1>5, <1>6 DEF FromCache, Trusted, Checks, InCache, Requesters
<1> QED BY <1>7, <1>8, <1>9 DEF IInv

(* Without its entries a process has no keys, and no call that could store  *)
(* one.                                                                     *)
LEMMA ShutdownKeeps ==
    ASSUME IInv, Shutdown
    PROVE  IInv'
<1>0. TypeOK /\ Begun /\ Numbered /\ Agreed /\ FromCache /\ DerivedCached
  BY DEF IInv
<1>1. /\ pc = "up" /\ entries' = {} /\ \A v \in Vaults : keys'[v] = Missing
      /\ keys' \in [Vaults -> Sigs \cup {Missing}]
      /\ UNCHANGED <<caching, cached, signatures, switches, starts, pc, env, verified, firstSig,
                     blind, drift, derived>>
  BY DEF Shutdown, fireblocksVars, historyVars
<1>2. /\ \A q \in Requesters :
             /\ request'[q].stage = request[q].stage /\ request'[q].vault = request[q].vault
             /\ request'[q].sig = request[q].sig /\ ~request'[q].live
      /\ request' \in [Requesters -> Request]
  <2>1. request \in [Requesters -> Request]
    BY <1>0 DEF TypeOK
  <2>2. request' = [q \in Requesters |-> [request[q] EXCEPT !.live = FALSE]]
    BY DEF Shutdown
  <2> HIDE DEF Request
  <2>3. \A q \in Requesters : /\ request'[q] = [request[q] EXCEPT !.live = FALSE]
                             /\ request[q] \in Request
    BY <2>1, <2>2
  <2> QED BY <2>2, <2>3, Orphaned
<1>3. TypeOK'
  BY <1>0, <1>1, <1>2 DEF TypeOK, Requesters
<1>4. Begun' /\ Numbered' /\ Agreed' /\ DerivedCached'
  BY <1>0, <1>1, <1>2
     DEF Begun, Numbered, Agreed, DerivedCached, InCache, TypeOK, Missing, Requesters, Refused,
         Checks, VariableMissing, SecretUnreadable, MainnetUnavailable, BadCredentials
<1>5. FromCache'
  BY <1>0, <1>1, <1>2 DEF FromCache, Trusted, Checks, InCache, Requesters
<1> QED BY <1>3, <1>4, <1>5 DEF IInv

(* A key is derived: that of a trusted process comes from the cache.        *)
LEMMA DeriveReplyKeeps ==
    ASSUME IInv, NEW c \in Calls, DeriveReply(c)
    PROVE  IInv'
<1> DEFINE x == request[c]
<1>0. TypeOK /\ Begun /\ Numbered /\ Agreed /\ FromCache /\ DerivedCached
  BY DEF IInv
<1>1. /\ pc = "up"
      /\ UNCHANGED <<caching, cached, signatures, switches, starts, pc, env, verified, firstSig,
                     entries, blind, drift>>
  BY DEF DeriveReply, fireblocksVars
<1>2. c \in Requesters /\ c # Check /\ x.vault \in Vaults /\ x.sig \in Sigs \cup {Missing}
  BY <1>0, LifecycleAssumption DEF Requesters, Check, TypeOK
<1>3. /\ request'[c].sig = Missing /\ request'[c].stage = "none" /\ ~request'[c].live
      /\ \A q \in Requesters : q # c => request'[q] = request[q]
      /\ request' \in [Requesters -> Request]
  BY <1>0, <1>2, LifecycleAssumption DEF DeriveReply, NoRequest, TypeOK
<1>4. /\ keys' \in [Vaults -> Sigs \cup {Missing}]
      /\ \A v \in Vaults :
             keys'[v] = keys[v] \/ (v = x.vault /\ keys'[v] = x.sig /\ v \in entries)
  BY <1>0, <1>2 DEF DeriveReply, TypeOK
<1>5. \A d \in derived' :
        \/ d \in derived
        \/ x.sig # Missing /\ d = [vault |-> x.vault, key |-> x.sig, trusted |-> Trusted]
  BY DEF DeriveReply
<1>6. Trusted \in BOOLEAN
  BY DEF Trusted
<1> HIDE DEF x
<1>7. TypeOK'
  <2>1. derived' \subseteq [vault : Vaults, key : Sigs, trusted : BOOLEAN]
    BY <1>0, <1>2, <1>5, <1>6 DEF TypeOK
  <2> QED BY <1>0, <1>1, <1>2, <1>3, <1>4, <2>1 DEF TypeOK, Requesters
<1>8. Begun' /\ Numbered' /\ Agreed'
  BY <1>0, <1>1, <1>2, <1>3
     DEF Begun, Numbered, Agreed, TypeOK, Missing, Requesters, Refused, Checks, VariableMissing,
         SecretUnreadable, MainnetUnavailable, BadCredentials
<1>9. Trusted => InCache(x.vault, x.sig)
  BY <1>0, <1>1 DEF FromCache, x
<1>10. FromCache'
  <2>1. Trusted' <=> Trusted
    BY <1>1 DEF Trusted, Checks
  <2>2. Trusted => \A v \in Vaults : InCache(v, keys[v])'
    BY <1>0, <1>1, <1>4, <1>9 DEF FromCache, InCache
  <2>3. Trusted => \A d \in Calls : InCache(request[d].vault, request[d].sig)'
    BY <1>0, <1>1, <1>3 DEF FromCache, InCache, Requesters
  <2> QED BY <1>0, <1>1, <2>1, <2>2, <2>3 DEF FromCache
<1>11. DerivedCached'
  <2> SUFFICES ASSUME NEW d \in derived', d.trusted
               PROVE  InCache(d.vault, d.key)'
    BY DEF DerivedCached
  <2>1. CASE d \in derived
    BY <1>0, <1>1, <2>1 DEF DerivedCached, InCache
  <2>2. CASE d = [vault |-> x.vault, key |-> x.sig, trusted |-> Trusted]
    <3>1. Trusted /\ d.vault = x.vault /\ d.key = x.sig
      BY <2>2
    <3> QED BY <1>1, <1>9, <3>1 DEF InCache
  <2> QED BY <1>5, <2>1, <2>2
<1> QED BY <1>7, <1>8, <1>10, <1>11 DEF IInv

(* A change of the setting ends all trust in the check made before.         *)
LEMMA SwitchKeeps ==
    ASSUME IInv, Switch
    PROVE  IInv'
<1>0. TypeOK /\ Begun /\ Numbered /\ Agreed /\ FromCache /\ DerivedCached
  BY DEF IInv
<1>1. /\ drift' = TRUE /\ caching' \in BOOLEAN /\ switches' \in 0..MaxSwitches
      /\ UNCHANGED <<cached, signatures, starts, pc, env, verified, firstSig, request, entries, keys,
                     blind, derived>>
  BY <1>0, LifecycleAssumption DEF Switch, TypeOK, processVars
<1>2. TypeOK'
  BY <1>0, <1>1 DEF TypeOK
<1> QED BY <1>0, <1>1, <1>2
           DEF IInv, Begun, Numbered, Agreed, FromCache, Trusted, DerivedCached, InCache,
               Refused, Checks, VariableMissing, SecretUnreadable, MainnetUnavailable,
               BadCredentials

(* A step that changes nothing keeps the invariant.                         *)
LEMMA StutterKeeps ==
    ASSUME IInv, UNCHANGED vars
    PROVE  IInv'
BY DEF IInv, TypeOK, Begun, Numbered, Agreed, FromCache, Trusted, DerivedCached, InCache,
       Refused, Checks, VariableMissing, SecretUnreadable, MainnetUnavailable, BadCredentials,
       vars, fireblocksVars, processVars, historyVars

(* Every step keeps the invariant.                                          *)
LEMMA NextKeeps ==
    ASSUME IInv, [Next]_vars
    PROVE  IInv'
<1>1. ASSUME NEW e \in Environments, Start(e) \/ StartFails(e) PROVE IInv'
  BY <1>1, StartKeeps
<1>2. CASE Step
  <2>1. ASSUME NEW r \in Requesters, Sign(r) PROVE IInv'
    BY <2>1, SignKeeps
  <2>2. ASSUME NEW r \in Requesters, SignWithout(r) PROVE IInv'
    BY <2>2, SignWithoutKeeps
  <2>3. ASSUME NEW r \in Requesters, SignFails(r) PROVE IInv'
    BY <2>3, SignFailsKeeps
  <2>4. CASE FirstReply \/ SecondReply
    BY <2>4, CheckKeeps
  <2>5. ASSUME NEW c \in Calls, DeriveReply(c) PROVE IInv'
    BY <2>5, DeriveReplyKeeps
  <2>6. ASSUME NEW c \in Calls, Resolved(c) PROVE IInv'
    BY <2>6, ResolvedKeeps
  <2>7. ASSUME NEW c \in Calls, ResolveFails(c) PROVE IInv'
    BY <2>7, DeriveKeeps
  <2> QED BY <1>2, <2>1, <2>2, <2>3, <2>4, <2>5, <2>6, <2>7 DEF Step
<1>3. ASSUME NEW c \in Calls, NEW v \in Vaults, Resolve(c, v) \/ Derive(c, v) PROVE IInv'
  BY <1>3, DeriveKeeps
<1>7. CASE Shutdown
  BY <1>7, ShutdownKeeps
<1>4. CASE Crash
  BY <1>4, ExitKeeps DEF Crash, IInv, TypeOK
<1>5. CASE Switch
  BY <1>5, SwitchKeeps
<1>6. CASE UNCHANGED vars
  BY <1>6, StutterKeeps
<1> QED BY <1>1, <1>2, <1>3, <1>4, <1>5, <1>6, <1>7 DEF Next

(* The invariant holds in every state of the program and of Fireblocks.     *)
LEMMA InvariantHolds == Spec => []IInv
<1>1. Init => IInv
  BY InitInvariant
<1>2. IInv /\ [Next]_vars => IInv'
  BY NextKeeps
<1> QED BY <1>1, <1>2, PTL DEF Spec

-----------------------------------------------------------------------------
(* Theorems.                                                                *)

(* Every variable keeps its type; a process that is up has the flag that    *)
(* its way of making the SDK sets.                                          *)
THEOREM LifecycleTypeCorrect == Spec => []TypeOK
<1>1. IInv => TypeOK
  BY DEF IInv
<1> QED BY <1>1, InvariantHolds, PTL

(* A vault has one encryption key for good, in all processes whose check    *)
(* compared two signatures of a workspace whose setting stays: however many *)
(* crash, start again, fail, or derive without such a check in between.     *)
THEOREM KeysAreAlwaysStable == Spec => []KeysAreStable
<1>1. IInv => KeysAreStable
  <2> SUFFICES ASSUME IInv, NEW d \in derived, NEW e \in derived,
                      d.trusted, e.trusted, d.vault = e.vault
               PROVE  d.key = e.key
    BY DEF KeysAreStable
  <2>1. InCache(d.vault, d.key) /\ InCache(e.vault, e.key)
    BY DEF IInv, DerivedCached
  <2>2. d.key # Missing /\ e.key # Missing
    BY DEF IInv, TypeOK, Sigs, Missing
  <2> QED BY <2>1, <2>2 DEF InCache
<1> QED BY <1>1, InvariantHolds, PTL

(* In a process that passed the check no key takes the place of another,    *)
(* though several calls may derive the key of one vault at once, each       *)
(* stores what it has derived, and entries are replaced or cleared.         *)
THEOREM KeysNeverChange == Spec => KeyNeverChanges
<1> DEFINE Kept == pc = "up" /\ pc' = "up" /\ Trusted =>
                       \A v \in Vaults : keys[v] # Missing => keys'[v] \in {keys[v], Missing}
<1>1. ASSUME IInv, [Next]_vars, pc = "up", pc' = "up", Trusted,
             NEW v \in Vaults, keys[v] # Missing
      PROVE  keys'[v] \in {keys[v], Missing}
  <2>0. TypeOK /\ FromCache
    BY <1>1 DEF IInv
  <2>1. ASSUME NEW c \in Calls, DeriveReply(c) PROVE keys'[v] = keys[v]
    <3> DEFINE x == request[c]
    <3>1. keys'[v] = keys[v] \/ (v = x.vault /\ x.sig # Missing /\ keys'[v] = x.sig)
      BY <2>0, <2>1 DEF DeriveReply, TypeOK
    <3>2. InCache(v, keys[v]) /\ InCache(x.vault, x.sig)
      BY <1>1, <2>0 DEF FromCache
    <3> QED BY <1>1, <3>1, <3>2 DEF InCache
  <2>2. CASE \E r \in Requesters : Sign(r) \/ SignWithout(r) \/ SignFails(r)
    BY <1>1, <2>2 DEF Sign, SignWithout, SignFails, Exits
  <2>3. CASE FirstReply \/ SecondReply \/ Crash \/ Switch \/ UNCHANGED vars
    BY <1>1, <2>3 DEF FirstReply, SecondReply, Crash, Exits, Switch, vars, processVars
  <2>4. CASE \E e \in Environments : Start(e) \/ StartFails(e)
    BY <1>1, <2>4 DEF Start, Started, StartFails
  <2>5. CASE \E c \in Calls : ResolveFails(c) \/ \E w \in Vaults : Resolve(c, w) \/ Derive(c, w)
    BY <2>5 DEF Resolve, ResolveFails, Derive
  <2>6. CASE Shutdown \/ \E c \in Calls : Resolved(c)
    BY <2>0, <2>6 DEF Shutdown, Resolved, TypeOK
  <2> QED BY <1>1, <2>1, <2>2, <2>3, <2>4, <2>5, <2>6 DEF Next, Step
<1>2. IInv /\ [Next]_vars => [Kept]_vars
  BY <1>1
<1> QED BY <1>2, InvariantHolds, PTL DEF Spec, KeyNeverChanges
=============================================================================
