------------------------- MODULE VaultSessionProofs -------------------------
(***************************************************************************)
(* The safety of VaultSession for any number of vaults, calls, entries,    *)
(* signatures and shutdowns, in three invariants that build on each other. *)
(*                                                                         *)
(* TypeInv: types, and which locals a call has at which program point.     *)
(* SoundInv: where the objects are that a shutdown has zeroed, so that a   *)
(* zeroed key stays out of the map and out of the calls that no shutdown   *)
(* overlapped.  KeysInv: whose each key is, wherever it is held, and that  *)
(* no entry of the map has a viewing key without an encryption key.  Each  *)
(* has one lemma per action.                                               *)
(*                                                                         *)
(* The last part counts the steps that a call has left on the longest path *)
(* from where it is, from types alone.                                     *)
(***************************************************************************)
EXTENDS VaultSession, TLAPS

(* What a program point says of the other locals of a call.                 *)
WellFormed(x) ==
    /\ x.pc = "idle" => x = Idle
    /\ x.pc # "idle" => x.vault \in Vaults /\ x.op \in Ops
    /\ x.pc = "resolved" => x.ref[x.frame] # NoEntry
    /\ x.pc = "signing" => x.frame = "enc" /\ x.ref["enc"] # NoEntry
    /\ x.pc = "asking" => x.frame = "check" /\ x.ref["check"] # NoEntry
    /\ x.pc = "haveSk" => x.got # None
    /\ x.inView => /\ x.frame = "enc"
                   /\ x.ref["view"] # NoEntry
                   /\ x.pc \in {"fetching", "resolved", "signing", "haveSk"}

CallsWellFormed == \A c \in Calls : WellFormed(call[c])

TypeInv == TypeOK /\ CallsWellFormed

Typed(x) == x \in CallState /\ WellFormed(x)

(* A slot without a running call is well-formed.                            *)
LEMMA IdleType == Typed(Idle)
BY ConstantsAssumption DEF Typed, Idle, CallState, WellFormed, Points, Frames, SkValue, VkValue, AllOps

(* What ensureVaultData needs of a call that looks its vault up in frame f. *)
MayLookUp(x, f) ==
    /\ x \in CallState
    /\ x.vault \in Vaults
    /\ x.op \in Ops
    /\ x.inView => f = "enc" /\ x.ref["view"] # NoEntry

(* ensureVaultData's first part keeps a call well-formed.                   *)
LEMMA LookUpType ==
    ASSUME TypeInv, NEW x, NEW f \in Frames, MayLookUp(x, f)
    PROVE  Typed(LookUp(x, f))
<1>1. vaultData[x.vault] \in Entries \cup {NoEntry}
  BY DEF TypeInv, TypeOK, MayLookUp
<1>2. LookUp(x, f) \in CallState
  BY <1>1 DEF LookUp, CallState, Points, Frames, MayLookUp
<1>3. WellFormed(LookUp(x, f))
  BY <1>1 DEF LookUp, WellFormed, CallState, Points, Frames, MayLookUp
<1> QED BY <1>2, <1>3 DEF Typed

(* A step that only replaces a call by a well-formed one keeps the calls    *)
(* typed.                                                                   *)
LEMMA BecomesType ==
    ASSUME TypeInv, NEW c \in Calls, NEW x, Typed(x), Becomes(c, x)
    PROVE  call' \in [Calls -> CallState] /\ CallsWellFormed'
BY DEF TypeInv, TypeOK, CallsWellFormed, Becomes, Typed

(* Such a step, with all else unchanged, keeps the type invariant.          *)
LEMMA QuietStep ==
    ASSUME TypeInv, NEW c \in Calls, NEW x, Typed(x), Becomes(c, x),
           UNCHANGED <<vaultData, data, chainVars, shutdownVars>>
    PROVE  TypeInv'
BY BecomesType DEF TypeInv, TypeOK, chainVars, shutdownVars

(* The invocation of an operation keeps the types.                          *)
LEMMA CallType ==
    ASSUME TypeInv, NEW c \in Calls, NEW o \in Ops, NEW v \in Vaults, Call(c, o, v)
    PROVE  TypeInv'
<1> DEFINE x == [Idle EXCEPT !.op = o, !.vault = v]
<1>1. MayLookUp(x, FirstFrame(o))
  BY IdleType DEF Typed, CallState, Idle, MayLookUp
<1>2. FirstFrame(o) \in Frames
  BY DEF FirstFrame, Frames
<1>3. Typed(LookUp(x, FirstFrame(o)))
  BY <1>1, <1>2, LookUpType
<1> QED BY <1>3, QuietStep DEF Call

(* FetchReply keeps the type invariant.                                     *)
LEMMA FetchReplyType ==
    ASSUME TypeInv, NEW c \in Calls, NEW e \in Entries, FetchReply(c, e)
    PROVE  TypeInv'
<1> DEFINE y == [call[c] EXCEPT !.ref[call[c].frame] = e, !.pc = "resolved"]
<1>1. Typed(call[c]) /\ call[c].pc = "fetching"
  BY DEF Typed, TypeInv, TypeOK, CallsWellFormed, FetchReply, Replied
<1>2. Typed(y)
  BY <1>1, ConstantsAssumption DEF Typed, CallState, WellFormed, Frames, Points
<1>3. call' \in [Calls -> CallState] /\ CallsWellFormed'
  BY <1>2, BecomesType DEF FetchReply
<1>4. call[c].vault \in Vaults
  BY <1>1 DEF Typed, WellFormed
<1> QED BY <1>3, <1>4 DEF FetchReply, TypeInv, TypeOK, VaultData, chainVars, shutdownVars

(* Reject keeps the type invariant.                                         *)
LEMMA RejectType ==
    ASSUME TypeInv, NEW c \in Calls, Reject(c)
    PROVE  TypeInv'
<1>1. Typed(call[c]) /\ call[c].pc # "idle"
  BY DEF Typed, TypeInv, TypeOK, CallsWellFormed, Reject, Replied, Awaiting
<1>2. Typed(Thrown(call[c]))
  <2> DEFINE y == [Idle EXCEPT !.op = call[c].op, !.vault = call[c].vault,
                               !.pc = "reading", !.vk = call[c].vk,
                               !.overlapped = call[c].overlapped]
  <2>1. y \in CallState
    BY <1>1, IdleType DEF Typed, CallState, Points
  <2>2. WellFormed(y)
    BY <1>1 DEF Typed, WellFormed, Idle
  <2> QED BY <2>1, <2>2, IdleType DEF Thrown, Typed
<1> QED BY <1>2, QuietStep DEF Reject

(* ResumeOwn keeps the type invariant.                                      *)
LEMMA ResumeOwnType ==
    ASSUME TypeInv, NEW c \in Calls, ResumeOwn(c)
    PROVE  TypeInv'
<1> DEFINE x == call[c]
<1>1. Typed(x) /\ x.pc = "resolved" /\ x.frame = "own" /\ ~x.inView
  BY DEF Typed, TypeInv, TypeOK, CallsWellFormed, ResumeOwn, At, WellFormed
<1>2. Typed(Return(x, "own", "reading"))
  BY <1>1 DEF Typed, Return, CallState, WellFormed, Points, Frames
<1>3. Typed(LookUp(x, "enc"))
  <2>1. MayLookUp(x, "enc")
    BY <1>1 DEF Typed, WellFormed, MayLookUp
  <2> QED BY <2>1, LookUpType DEF Frames
<1>4. Typed(LookUp(Return(x, "own", x.pc), "check"))
  <2> DEFINE y == Return(x, "own", x.pc)
  <2>1. MayLookUp(y, "check")
    BY <1>1 DEF Typed, Return, CallState, WellFormed, Points, Frames, MayLookUp
  <2> QED BY <2>1, LookUpType DEF Frames
<1> QED BY <1>2, <1>3, <1>4, IdleType, QuietStep DEF ResumeOwn

(* ReadEncryptionKey keeps the type invariant.                              *)
LEMMA ReadEncryptionKeyType ==
    ASSUME TypeInv, NEW c \in Calls, ReadEncryptionKey(c)
    PROVE  TypeInv'
<1> DEFINE x == call[c]
<1> DEFINE cached == Held(c, "enc").encryptionSk
<1> DEFINE y == IF cached # None
                THEN Return([x EXCEPT !.got = cached], "enc", "haveSk")
                ELSE [x EXCEPT !.pc = "signing"]
<1>1. Typed(x) /\ x.pc = "resolved" /\ x.frame = "enc"
  BY DEF Typed, TypeInv, TypeOK, CallsWellFormed, ReadEncryptionKey, At
<1>2. x.ref["enc"] \in Entries
  BY <1>1 DEF Typed, WellFormed, CallState, Frames
<1>3. cached \in SkValue
  BY <1>2 DEF TypeInv, TypeOK, Held, VaultData
<1>4. y \in CallState
  BY <1>1, <1>3 DEF Typed, CallState, Return, Points, Frames
<1>5. WellFormed(y)
  BY <1>1, <1>2, <1>3 DEF Typed, WellFormed, CallState, Return, Points, Frames
<1>6. Becomes(c, y)
  BY DEF ReadEncryptionKey
<1> QED BY <1>4, <1>5, <1>6, QuietStep DEF ReadEncryptionKey, Typed

(* SignReply keeps the type invariant.                                      *)
LEMMA SignReplyType ==
    ASSUME TypeInv, NEW c \in Calls, NEW s \in Sigs, SignReply(c, s)
    PROVE  TypeInv'
<1> DEFINE x == call[c]
<1> DEFINE derived == EncryptionKeyOf(x.vault, s)
<1> DEFINE y == Return([x EXCEPT !.got = derived], "enc", "haveSk")
<1>1. Typed(x) /\ x.pc = "signing"
  BY DEF Typed, TypeInv, TypeOK, CallsWellFormed, SignReply, Replied
<1>2. derived \in AllEncryptionKeys
  BY <1>1 DEF Typed, WellFormed, EncryptionKeyOf, AllEncryptionKeys
<1>3. derived \in SkValue /\ derived # None
  BY <1>2, ConstantsAssumption DEF SkValue
<1>4. y \in CallState
  BY <1>1, <1>3 DEF Typed, CallState, Return, Points, Frames
<1>5. WellFormed(y)
  BY <1>1, <1>3 DEF Typed, WellFormed, CallState, Return, Points, Frames
<1>6. call' \in [Calls -> CallState] /\ CallsWellFormed'
  BY <1>4, <1>5, BecomesType DEF SignReply, Typed
<1>7. data' \in [Entries -> VaultData]
  BY <1>3 DEF SignReply, TypeInv, TypeOK, VaultData
<1> QED BY <1>6, <1>7 DEF SignReply, TypeInv, TypeOK, chainVars, shutdownVars

(* ReadViewingKey keeps the type invariant.                                 *)
LEMMA ReadViewingKeyType ==
    ASSUME TypeInv, NEW c \in Calls, ReadViewingKey(c)
    PROVE  TypeInv'
<1> DEFINE x == call[c]
<1> DEFINE cached == Held(c, "view").viewingKey
<1>1. Typed(x) /\ x.pc = "resolved" /\ x.frame = "view" /\ ~x.inView
  BY DEF Typed, TypeInv, TypeOK, CallsWellFormed, ReadViewingKey, At, WellFormed
<1>2. x.ref["view"] \in Entries
  BY <1>1 DEF Typed, WellFormed, CallState, Frames
<1>3. cached \in VkValue
  BY <1>2 DEF TypeInv, TypeOK, Held, VaultData
<1>4. CASE cached # None
  <2> DEFINE y == Return([x EXCEPT !.vk = cached], "view", "haveVk")
  <2>1. Typed(y)
    BY <1>1, <1>3 DEF Typed, CallState, WellFormed, Return, Points, Frames
  <2> QED BY <1>4, <2>1, QuietStep DEF ReadViewingKey
<1>5. CASE cached = None
  <2> DEFINE z == [x EXCEPT !.inView = TRUE]
  <2>1. MayLookUp(z, "enc")
    BY <1>1, <1>2, ConstantsAssumption DEF Typed, CallState, WellFormed, Frames, MayLookUp
  <2>2. Typed(LookUp(z, "enc"))
    BY <2>1, LookUpType DEF Frames
  <2> QED BY <1>5, <2>2, QuietStep DEF ReadViewingKey
<1> QED BY <1>4, <1>5

(* StoreViewingKey keeps the type invariant.                                *)
LEMMA StoreViewingKeyType ==
    ASSUME TypeInv, NEW c \in Calls, StoreViewingKey(c)
    PROVE  TypeInv'
<1> DEFINE x == call[c]
<1> DEFINE derived == ViewingKeyOf(x.got)
<1> DEFINE y == Return([x EXCEPT !.vk = derived, !.got = None, !.inView = FALSE],
                       "view", "haveVk")
<1>1. Typed(x) /\ x.pc = "haveSk"
  BY DEF Typed, TypeInv, TypeOK, CallsWellFormed, StoreViewingKey
<1>2. x.got \in AllEncryptionKeys \cup {Zeroed}
  BY <1>1 DEF Typed, WellFormed, CallState, SkValue
<1>3. derived \in VkValue
  BY <1>2 DEF ViewingKeyOf, VkValue
<1>4. Typed(y)
  BY <1>1, <1>3 DEF Typed, CallState, WellFormed, Return, Points, Frames, SkValue
<1>5. call' \in [Calls -> CallState] /\ CallsWellFormed'
  BY <1>4, BecomesType DEF StoreViewingKey
<1>6. data' \in [Entries -> VaultData]
  BY <1>3 DEF StoreViewingKey, TypeInv, TypeOK, VaultData
<1> QED BY <1>5, <1>6 DEF StoreViewingKey, TypeInv, TypeOK, chainVars, shutdownVars

(* ResumeWithEncryptionKey keeps the type invariant.                        *)
LEMMA ResumeWithEncryptionKeyType ==
    ASSUME TypeInv, NEW c \in Calls, ResumeWithEncryptionKey(c)
    PROVE  TypeInv'
<1> DEFINE x == [call[c] EXCEPT !.sk = call[c].got, !.got = None]
<1>1. Typed(call[c]) /\ call[c].pc = "haveSk" /\ ~call[c].inView
  BY DEF Typed, TypeInv, TypeOK, CallsWellFormed, ResumeWithEncryptionKey, CallState
<1>2. x \in CallState /\ MayLookUp(x, "view")
  BY <1>1 DEF Typed, CallState, WellFormed, SkValue, MayLookUp
<1>3. Typed(LookUp(x, "view"))
  BY <1>2, LookUpType DEF Frames
<1>4. \A p \in {"submitting", "reading"} : Typed([x EXCEPT !.pc = p])
  BY <1>1, <1>2 DEF Typed, CallState, WellFormed, Points
<1> QED BY <1>3, <1>4, IdleType, QuietStep DEF ResumeWithEncryptionKey

(* ResumeWithViewingKey keeps the type invariant.                           *)
LEMMA ResumeWithViewingKeyType ==
    ASSUME TypeInv, NEW c \in Calls, ResumeWithViewingKey(c)
    PROVE  TypeInv'
<1> DEFINE x == call[c]
<1>1. Typed(x) /\ x.pc = "haveVk" /\ ~x.inView
  BY DEF Typed, TypeInv, TypeOK, CallsWellFormed, ResumeWithViewingKey, WellFormed
<1>2. Typed(LookUp(x, "enc"))
  <2>1. MayLookUp(x, "enc")
    BY <1>1 DEF Typed, WellFormed, MayLookUp
  <2> QED BY <2>1, LookUpType DEF Frames
<1>3. Typed([x EXCEPT !.pc = "submitting"])
  BY <1>1 DEF Typed, CallState, WellFormed, Points
<1> QED BY <1>2, <1>3, IdleType, QuietStep DEF ResumeWithViewingKey

(* ReadRegistered keeps the type invariant.                                 *)
LEMMA ReadRegisteredType ==
    ASSUME TypeInv, NEW c \in Calls, ReadRegistered(c)
    PROVE  TypeInv'
<1> DEFINE x == call[c]
<1> DEFINE y == Return([x EXCEPT !.isRegistered = TRUE], "check", "answered")
<1> DEFINE z == [x EXCEPT !.pc = "asking"]
<1>1. Typed(x) /\ x.pc = "resolved" /\ x.frame = "check"
  BY DEF Typed, TypeInv, TypeOK, CallsWellFormed, ReadRegistered, At
<1>2. Typed(y) /\ Typed(z)
  BY <1>1 DEF Typed, CallState, WellFormed, Return, Points, Frames
<1>3. Becomes(c, y) \/ Becomes(c, z)
  BY DEF ReadRegistered
<1> QED BY <1>2, <1>3, QuietStep DEF ReadRegistered

(* DirectoryReply keeps the type invariant.                                 *)
LEMMA DirectoryReplyType ==
    ASSUME TypeInv, NEW c \in Calls, DirectoryReply(c)
    PROVE  TypeInv'
<1> DEFINE x == call[c]
<1> DEFINE registered == Registered(x.vault)
<1> DEFINE y == Return([x EXCEPT !.isRegistered = registered], "check", "answered")
<1>1. Typed(x) /\ x.pc = "asking"
  BY DEF Typed, TypeInv, TypeOK, CallsWellFormed, DirectoryReply, Replied
<1>2. registered \in BOOLEAN
  BY DEF Registered
<1>3. Typed(y)
  BY <1>1, <1>2 DEF Typed, CallState, WellFormed, Return, Points, Frames
<1>4. call' \in [Calls -> CallState] /\ CallsWellFormed'
  BY <1>3, BecomesType DEF DirectoryReply
<1>5. data' \in [Entries -> VaultData]
  BY <1>2 DEF DirectoryReply, TypeInv, TypeOK, VaultData
<1> QED BY <1>4, <1>5 DEF DirectoryReply, TypeInv, TypeOK, chainVars, shutdownVars

(* ResumeAnswered keeps the type invariant.                                 *)
LEMMA ResumeAnsweredType ==
    ASSUME TypeInv, NEW c \in Calls, ResumeAnswered(c)
    PROVE  TypeInv'
<1> DEFINE x == call[c]
<1>1. Typed(x) /\ x.pc = "answered" /\ ~x.inView
  BY DEF Typed, TypeInv, TypeOK, CallsWellFormed, ResumeAnswered, WellFormed
<1>2. \A f \in Frames : Typed(LookUp(x, f))
  <2>1. ASSUME NEW f \in Frames PROVE MayLookUp(x, f)
    BY <1>1 DEF Typed, WellFormed, MayLookUp
  <2> QED BY <2>1, LookUpType
<1> QED BY <1>2, IdleType, QuietStep DEF ResumeAnswered, Frames

(* The end of a submission, answered or not, keeps the types.               *)
LEMMA SubmitType ==
    ASSUME TypeInv, NEW c \in Calls, SubmitReply(c) \/ SubmitReplyLost(c)
    PROVE  TypeInv'
<1>1. Typed(call[c]) /\ call[c].pc = "submitting"
  BY DEF Typed, TypeInv, TypeOK, CallsWellFormed, SubmitReply, SubmitTransfer, SubmitReplyLost, Replied
<1>2. [vault |-> call[c].vault, key |-> call[c].vk] \in Registration
  BY <1>1 DEF Typed, WellFormed, CallState, Registration
<1>3. pool' \subseteq Registration
  BY <1>2 DEF SubmitReply, SubmitTransfer, SubmitReplyLost, Register, TypeInv, TypeOK
<1>4. call' \in [Calls -> CallState] /\ CallsWellFormed'
  BY IdleType, BecomesType DEF SubmitReply, SubmitTransfer, SubmitReplyLost
<1>5. data' \in [Entries -> VaultData]
  BY DEF SubmitReply, SubmitTransfer, SubmitReplyLost, TypeInv, TypeOK, VaultData
<1> QED BY <1>3, <1>4, <1>5
     DEF SubmitReply, SubmitTransfer, SubmitReplyLost, TypeInv, TypeOK, shutdownVars

(* shutdown keeps the types.                                                *)
LEMMA ShutdownType ==
    ASSUME TypeInv, Shutdown
    PROVE  TypeInv'
<1>1. data' \in [Entries -> VaultData]
  BY DEF Shutdown, Zero, TypeInv, TypeOK, VaultData, SkValue, VkValue
<1>2. ASSUME NEW c \in Calls
      PROVE  Typed(call'[c])
  <2>1. Typed(call[c])
    BY DEF Typed, TypeInv, TypeOK, CallsWellFormed
  <2>2. call'[c] = [call[c] EXCEPT !.overlapped = call[c].pc # "idle"]
    BY DEF Shutdown
  <2>3. call'[c] \in CallState
    BY <2>1, <2>2 DEF Typed, CallState
  <2>4. CASE call[c].pc = "idle"
    <3>1. call[c] = Idle
      BY <2>1, <2>4 DEF Typed, WellFormed
    <3>2. (call[c].pc # "idle") = FALSE
      BY <2>4
    <3>3. call'[c] = Idle
      <4>1. call'[c] = [Idle EXCEPT !.overlapped = FALSE]
        BY <2>2, <3>1, <3>2, Zenon
      <4> QED BY <4>1 DEF Idle
    <3> QED BY <3>3, IdleType
  <2>5. CASE call[c].pc # "idle"
    BY <2>1, <2>2, <2>3, <2>5 DEF Typed, WellFormed, CallState
  <2> QED BY <2>4, <2>5
<1>3. call' \in [Calls -> CallState] /\ CallsWellFormed'
  BY <1>2 DEF Typed, Shutdown, CallsWellFormed
<1>4. shutdowns' \in 0..MaxShutdowns
  <2>1. MaxShutdowns \in Nat /\ shutdowns \in 0..MaxShutdowns
    BY ConstantsAssumption DEF TypeInv, TypeOK
  <2>2. shutdowns < MaxShutdowns /\ shutdowns' = shutdowns + 1
    BY DEF Shutdown
  <2> QED BY <2>1, <2>2
<1> QED BY <1>1, <1>3, <1>4 DEF Shutdown, TypeInv, TypeOK, chainVars

(* The constructor's state satisfies the type invariant.                    *)
LEMMA TypeInit == Init => TypeInv
  BY IdleType, ConstantsAssumption
     DEF Typed, Init, TypeInv, TypeOK, CallsWellFormed, VaultData, SkValue, VkValue

(* Every step keeps the type invariant.                                     *)
LEMMA TypeStep == TypeInv /\ [Next]_vars => TypeInv'
<1> SUFFICES ASSUME TypeInv, [Next]_vars PROVE TypeInv'
  OBVIOUS
<1>1. ASSUME NEW c \in Calls, Continue(c) PROVE TypeInv'
  BY <1>1, ResumeOwnType, ReadEncryptionKeyType, ReadViewingKeyType,
     StoreViewingKeyType, ResumeWithEncryptionKeyType, ResumeWithViewingKeyType,
     ReadRegisteredType, ResumeAnsweredType DEF Continue
<1>2. ASSUME NEW c \in Calls, Reply(c) PROVE TypeInv'
  <2>1. ReadReply(c) => TypeInv'
    BY IdleType, QuietStep DEF ReadReply
  <2> QED BY <1>2, <2>1, FetchReplyType, RejectType, SignReplyType,
             DirectoryReplyType, SubmitType DEF Reply
<1>3. ASSUME NEW r \in pool, Mine(r) \/ Drop(r) PROVE TypeInv'
  BY <1>3 DEF Typed, Mine, Drop, TypeInv, TypeOK, CallsWellFormed, shutdownVars
<1>4. CASE UNCHANGED vars
  BY <1>4 DEF Typed, vars, chainVars, shutdownVars, TypeInv, TypeOK, CallsWellFormed
<1> QED BY <1>1, <1>2, <1>3, <1>4, CallType, ShutdownType DEF Next, Step

(* Type correctness, for any number of vaults, calls and entries.           *)
THEOREM TypeCorrect == Spec => []TypeOK
<1>1. TypeInv => TypeOK
  BY DEF TypeInv
<1> QED BY <1>1, TypeInit, TypeStep, PTL DEF Spec

-----------------------------------------------------------------------------
(* Zeroed keys never come back into use.  An entry that holds a key tainted *)
(* by a shutdown was allocated before that shutdown, and neither the map    *)
(* nor a call begun since then refers to such an entry.  A call that was    *)
(* overtaken can carry a zeroed key from deriveEncryptionKey into           *)
(* deriveViewingKey, which writes it into the entry resolved before: the    *)
(* last conjunct of SoundCall says that this entry is retired as well.      *)

Allocated(e, d) == d[e].vaultAccountId # None

SoundCall(x, d, ret) ==
    /\ \A f \in Frames : x.ref[f] # NoEntry => Allocated(x.ref[f], d)
    /\ ~x.overlapped => /\ \A f \in Frames : x.ref[f] \notin ret
                        /\ x.got # Zeroed
                        /\ x.sk # Zeroed
                        /\ x.vk \notin TaintedVk
    /\ x.inView => /\ x.pc = "haveSk" /\ x.got = Zeroed => x.ref["view"] \in ret
                   /\ x.ref["enc"] \in ret => x.ref["view"] \in ret

Tainted(o) == o.encryptionSk = Zeroed \/ o.viewingKey \in TaintedVk

SoundEntries ==
    /\ \A e \in Entries : Tainted(data[e]) => e \in retired
    /\ \A e \in retired : Allocated(e, data)
    /\ \A v \in Vaults : vaultData[v] # NoEntry => /\ Allocated(vaultData[v], data)
                                                   /\ vaultData[v] \notin retired

SoundCalls == \A c \in Calls : SoundCall(call[c], data, retired)

SoundInv == SoundEntries /\ SoundCalls

(* The part of TypeInv that a step of call c needs.                         *)
LEMMA CallFacts ==
    ASSUME TypeInv, SoundInv, NEW c \in Calls
    PROVE  /\ Typed(call[c])
           /\ SoundCall(call[c], data, retired)
           /\ NoEntry \notin retired
           /\ retired \subseteq Entries
BY ConstantsAssumption DEF TypeInv, TypeOK, CallsWellFormed, Typed, SoundInv, SoundCalls

(* A slot without a running call is sound.                                  *)
LEMMA IdleSound ==
    ASSUME TypeInv
    PROVE  SoundCall(Idle, data, retired)
BY ConstantsAssumption DEF Idle, SoundCall, TypeInv, TypeOK, Frames, TaintedVk, ViewingKeyOf,
     AllEncryptionKeys

(* A step of call c that neither frees an entry nor shuts down.             *)
LEMMA SoundStep ==
    ASSUME TypeInv, SoundInv, NEW c \in Calls, NEW y,
           Becomes(c, y), SoundCall(y, data', retired), SoundEntries',
           retired' = retired,
           \A e \in Entries : Allocated(e, data) => Allocated(e, data')
    PROVE  SoundInv'
<1> SUFFICES ASSUME NEW d \in Calls
             PROVE  SoundCall(call'[d], data', retired)
  BY DEF SoundInv, SoundCalls
<1>1. CASE d = c
  BY <1>1 DEF Becomes, TypeInv, TypeOK
<1>2. CASE d # c
  <2>1. call'[d] = call[d]
    BY <1>2 DEF Becomes, TypeInv, TypeOK
  <2>2. Typed(call[d]) /\ SoundCall(call[d], data, retired)
    BY CallFacts
  <2>3. \A f \in Frames : call[d].ref[f] \in Entries \cup {NoEntry}
    BY <2>2 DEF Typed, CallState
  <2> QED BY <2>1, <2>2, <2>3 DEF SoundCall
<1> QED BY <1>1, <1>2

(* A step that only replaces a call by a sound one keeps SoundInv.          *)
LEMMA QuietSound ==
    ASSUME TypeInv, SoundInv, NEW c \in Calls, NEW y,
           Becomes(c, y), SoundCall(y, data, retired),
           UNCHANGED <<vaultData, data, shutdownVars>>
    PROVE  SoundInv'
<1>1. SoundEntries' /\ retired' = retired /\ data' = data
  BY DEF SoundInv, SoundEntries, shutdownVars
<1> QED BY <1>1, SoundStep

(* ensureVaultData's first part keeps a call sound: what it finds in the    *)
(* map is not tainted.                                                      *)
LEMMA LookUpSound ==
    ASSUME TypeInv, SoundInv, NEW x, NEW f \in Frames, MayLookUp(x, f),
           SoundCall(x, data, retired)
    PROVE  SoundCall(LookUp(x, f), data, retired)
<1> DEFINE y == LookUp(x, f)
<1>1. /\ y.overlapped = x.overlapped /\ y.got = x.got /\ y.sk = x.sk /\ y.vk = x.vk
      /\ y.inView = x.inView /\ y.pc \in {"fetching", "resolved"}
      /\ y.ref = [x.ref EXCEPT ![f] = vaultData[x.vault]]
  BY DEF LookUp, MayLookUp, CallState
<1>2. x.ref \in [Frames -> Entries \cup {NoEntry}]
  BY DEF MayLookUp, CallState
<1>3. vaultData[x.vault] # NoEntry => Allocated(vaultData[x.vault], data)
  BY DEF SoundInv, SoundEntries, MayLookUp
<1>4. vaultData[x.vault] \notin retired
  BY ConstantsAssumption DEF SoundInv, SoundEntries, MayLookUp, TypeInv, TypeOK
<1>5. \A g \in Frames : y.ref[g] = IF g = f THEN vaultData[x.vault] ELSE x.ref[g]
  BY <1>1, <1>2
<1>6. x.inView => y.ref["enc"] \notin retired
  BY <1>4, <1>5 DEF MayLookUp, Frames
<1> QED BY <1>1, <1>3, <1>4, <1>5, <1>6 DEF SoundCall

(* The invocation of an operation keeps SoundInv.                           *)
LEMMA CallSound ==
    ASSUME TypeInv, SoundInv, NEW c \in Calls, NEW o \in Ops, NEW v \in Vaults, Call(c, o, v)
    PROVE  SoundInv'
<1> DEFINE x == [Idle EXCEPT !.op = o, !.vault = v]
<1>1. MayLookUp(x, FirstFrame(o))
  BY IdleType DEF Typed, CallState, Idle, MayLookUp
<1>2. FirstFrame(o) \in Frames
  BY DEF FirstFrame, Frames
<1>3. SoundCall(x, data, retired)
  BY IdleSound DEF SoundCall, Idle
<1>4. SoundCall(LookUp(x, FirstFrame(o)), data, retired)
  BY <1>1, <1>2, <1>3, LookUpSound
<1> QED BY <1>4, QuietSound DEF Call

(* FetchReply keeps SoundInv.                                               *)
LEMMA FetchReplySound ==
    ASSUME TypeInv, SoundInv, NEW c \in Calls, NEW e \in Entries, FetchReply(c, e)
    PROVE  SoundInv'
<1> DEFINE x == call[c]
<1> DEFINE y == [x EXCEPT !.ref[x.frame] = e, !.pc = "resolved"]
<1>1. /\ Typed(x) /\ SoundCall(x, data, retired) /\ x.pc = "fetching"
      /\ NoEntry \notin retired /\ retired \subseteq Entries
  BY CallFacts DEF FetchReply, Replied
<1>2. x.vault \in Vaults /\ x.vault # None
  BY <1>1, ConstantsAssumption DEF Typed, WellFormed
<1>3. e \notin retired
  BY DEF FetchReply, SoundInv, SoundEntries, Allocated
<1>4. /\ Allocated(e, data')
      /\ \A i \in Entries : Allocated(i, data) => Allocated(i, data')
      /\ \A i \in Entries : Tainted(data'[i]) <=> Tainted(data[i])
  BY <1>2 DEF FetchReply, TypeInv, TypeOK, VaultData, Allocated, Tainted
<1>5. retired' = retired
  BY DEF FetchReply, shutdownVars
<1>6. SoundEntries'
  <2>1. \A v \in Vaults : vaultData'[v] # NoEntry =>
            Allocated(vaultData'[v], data') /\ vaultData'[v] \notin retired
    <3> TAKE v \in Vaults
    <3>1. vaultData'[v] = e \/ vaultData'[v] = vaultData[v]
      BY DEF FetchReply, TypeInv, TypeOK
    <3>2. vaultData[v] \in Entries \cup {NoEntry}
      BY DEF TypeInv, TypeOK
    <3> QED BY <1>3, <1>4, <3>1, <3>2 DEF SoundInv, SoundEntries
  <2> QED BY <1>1, <1>4, <1>5, <2>1 DEF SoundInv, SoundEntries
<1>7. SoundCall(y, data', retired)
  <2>1. /\ y.overlapped = x.overlapped /\ y.got = x.got /\ y.sk = x.sk /\ y.vk = x.vk
        /\ y.inView = x.inView /\ y.pc = "resolved"
        /\ y.ref = [x.ref EXCEPT ![x.frame] = e]
    BY <1>1 DEF Typed, CallState
  <2>2. x.ref \in [Frames -> Entries \cup {NoEntry}] /\ (x.inView => x.frame = "enc")
    BY <1>1 DEF Typed, CallState, WellFormed
  <2>3. \A g \in Frames : y.ref[g] = IF g = x.frame THEN e ELSE x.ref[g]
    BY <2>1, <2>2
  <2>4. x.inView => y.ref["enc"] \notin retired
    BY <1>3, <2>2, <2>3 DEF Frames
  <2> QED BY <1>1, <1>3, <1>4, <2>1, <2>2, <2>3, <2>4 DEF SoundCall
<1>8. Becomes(c, y)
  BY DEF FetchReply
<1> QED BY <1>4, <1>5, <1>6, <1>7, <1>8, SoundStep

(* Reject keeps SoundInv.                                                   *)
LEMMA RejectSound ==
    ASSUME TypeInv, SoundInv, NEW c \in Calls, Reject(c)
    PROVE  SoundInv'
<1>1. Typed(call[c]) /\ SoundCall(call[c], data, retired) /\ NoEntry \notin retired
  BY CallFacts
<1>2. SoundCall(Thrown(call[c]), data, retired)
  <2> DEFINE y == [Idle EXCEPT !.op = call[c].op, !.vault = call[c].vault,
                               !.pc = "reading", !.vk = call[c].vk,
                               !.overlapped = call[c].overlapped]
  <2>1. /\ y.overlapped = call[c].overlapped /\ y.got = None /\ y.sk = None
        /\ y.vk = call[c].vk /\ ~y.inView /\ \A f \in Frames : y.ref[f] = NoEntry
    BY DEF Idle
  <2>2. SoundCall(y, data, retired)
    BY <1>1, <2>1, ConstantsAssumption DEF SoundCall
  <2> QED BY <2>2, IdleSound DEF Thrown
<1> QED BY <1>2, QuietSound DEF Reject

(* Leaving a frame drops a reference and keeps the rest.                    *)
LEMMA ReturnSound ==
    ASSUME TypeInv, SoundInv, NEW x \in CallState, NEW f \in Frames, NEW p \in Points,
           SoundCall(x, data, retired), ~x.inView
    PROVE  SoundCall(Return(x, f, p), data, retired)
<1>1. NoEntry \notin retired
  BY ConstantsAssumption DEF TypeInv, TypeOK
<1> QED BY <1>1 DEF SoundCall, Return, CallState

(* ResumeOwn keeps SoundInv.                                                *)
LEMMA ResumeOwnSound ==
    ASSUME TypeInv, SoundInv, NEW c \in Calls, ResumeOwn(c)
    PROVE  SoundInv'
<1> DEFINE x == call[c]
<1> DEFINE y == Return(x, "own", x.pc)
<1>1. Typed(x) /\ SoundCall(x, data, retired) /\ x.pc = "resolved" /\ ~x.inView
  BY CallFacts DEF ResumeOwn, At, Typed, WellFormed
<1>2. /\ SoundCall(Return(x, "own", "reading"), data, retired)
      /\ SoundCall(y, data, retired)
  BY <1>1, ReturnSound DEF Typed, Points, Frames
<1>3. MayLookUp(x, "enc") /\ MayLookUp(y, "check")
  BY <1>1 DEF Typed, Return, CallState, WellFormed, Points, Frames, MayLookUp
<1>4. /\ SoundCall(LookUp(x, "enc"), data, retired)
      /\ SoundCall(LookUp(y, "check"), data, retired)
  BY <1>1, <1>2, <1>3, LookUpSound DEF Frames
<1> QED BY <1>2, <1>4, IdleSound, QuietSound DEF ResumeOwn

(* ReadEncryptionKey keeps SoundInv.                                        *)
LEMMA ReadEncryptionKeySound ==
    ASSUME TypeInv, SoundInv, NEW c \in Calls, ReadEncryptionKey(c)
    PROVE  SoundInv'
<1> DEFINE x == call[c]
<1> DEFINE cached == Held(c, "enc").encryptionSk
<1> DEFINE y == Return([x EXCEPT !.got = cached], "enc", "haveSk")
<1> DEFINE z == [x EXCEPT !.pc = "signing"]
<1>1. /\ Typed(x) /\ SoundCall(x, data, retired) /\ x.pc = "resolved" /\ x.frame = "enc"
      /\ NoEntry \notin retired
  BY CallFacts DEF ReadEncryptionKey, At
<1>2. x.ref["enc"] \in Entries
  BY <1>1 DEF Typed, WellFormed, CallState, Frames
<1>3. cached = Zeroed => x.ref["enc"] \in retired
  BY <1>2 DEF Held, SoundInv, SoundEntries, Tainted
<1>4. SoundCall(y, data, retired)
  <2>1. /\ y.overlapped = x.overlapped /\ y.got = cached /\ y.sk = x.sk /\ y.vk = x.vk
        /\ y.inView = x.inView /\ y.ref = [x.ref EXCEPT !["enc"] = NoEntry]
    BY <1>1 DEF Typed, CallState, Return
  <2>2. x.ref \in [Frames -> Entries \cup {NoEntry}]
    BY <1>1 DEF Typed, CallState
  <2>3. y.ref["enc"] = NoEntry /\ \A g \in Frames : g # "enc" => y.ref[g] = x.ref[g]
    BY <2>1, <2>2 DEF Frames
  <2> QED BY <1>1, <1>3, <2>1, <2>3 DEF SoundCall, Frames
<1>5. SoundCall(z, data, retired)
  BY <1>1 DEF SoundCall, Typed, CallState
<1>6. Becomes(c, y) \/ Becomes(c, z)
  BY DEF ReadEncryptionKey
<1> QED BY <1>4, <1>5, <1>6, QuietSound DEF ReadEncryptionKey

(* SignReply keeps SoundInv.                                                *)
LEMMA SignReplySound ==
    ASSUME TypeInv, SoundInv, NEW c \in Calls, NEW s \in Sigs, SignReply(c, s)
    PROVE  SoundInv'
<1> DEFINE x == call[c]
<1> DEFINE derived == EncryptionKeyOf(x.vault, s)
<1> DEFINE y == Return([x EXCEPT !.got = derived], "enc", "haveSk")
<1>1. /\ Typed(x) /\ SoundCall(x, data, retired) /\ x.pc = "signing"
      /\ NoEntry \notin retired
  BY CallFacts DEF SignReply, Replied
<1>2. derived # Zeroed
  <2>1. derived \in AllEncryptionKeys
    BY <1>1 DEF Typed, WellFormed, EncryptionKeyOf, AllEncryptionKeys
  <2> QED BY <2>1, ConstantsAssumption
<1>3. /\ \A i \in Entries : Allocated(i, data) => Allocated(i, data')
      /\ \A i \in Entries : Tainted(data'[i]) => Tainted(data[i])
  BY <1>2 DEF SignReply, TypeInv, TypeOK, VaultData, Allocated, Tainted
<1>4. SoundEntries' /\ retired' = retired
  <2>1. vaultData' = vaultData /\ retired' = retired
    BY DEF SignReply, shutdownVars
  <2> QED BY <1>3, <2>1 DEF SoundInv, SoundEntries, TypeInv, TypeOK
<1>5. SoundCall(y, data', retired)
  <2>1. /\ y.overlapped = x.overlapped /\ y.got = derived /\ y.sk = x.sk /\ y.vk = x.vk
        /\ y.inView = x.inView /\ y.ref = [x.ref EXCEPT !["enc"] = NoEntry]
    BY <1>1 DEF Typed, CallState, Return
  <2>2. x.ref \in [Frames -> Entries \cup {NoEntry}]
    BY <1>1 DEF Typed, CallState
  <2>3. y.ref["enc"] = NoEntry /\ \A g \in Frames : g # "enc" => y.ref[g] = x.ref[g]
    BY <2>1, <2>2 DEF Frames
  <2> QED BY <1>1, <1>2, <1>3, <2>1, <2>2, <2>3 DEF SoundCall, Frames
<1> QED BY <1>3, <1>4, <1>5, SoundStep DEF SignReply

(* ReadViewingKey keeps SoundInv.                                           *)
LEMMA ReadViewingKeySound ==
    ASSUME TypeInv, SoundInv, NEW c \in Calls, ReadViewingKey(c)
    PROVE  SoundInv'
<1> DEFINE x == call[c]
<1> DEFINE cached == Held(c, "view").viewingKey
<1>1. /\ Typed(x) /\ SoundCall(x, data, retired) /\ x.pc = "resolved" /\ x.frame = "view"
      /\ ~x.inView
  BY CallFacts DEF ReadViewingKey, At, Typed, WellFormed
<1>2. x.ref["view"] \in Entries
  BY <1>1 DEF Typed, WellFormed, CallState, Frames
<1>3. CASE cached # None
  <2> DEFINE w == [x EXCEPT !.vk = cached]
  <2>1. cached \in TaintedVk => x.ref["view"] \in retired
    BY <1>2 DEF Held, SoundInv, SoundEntries, Tainted
  <2>2. SoundCall(w, data, retired) /\ w \in CallState /\ ~w.inView
    <3>1. cached \in VkValue
      BY <1>2 DEF TypeInv, TypeOK, Held, VaultData
    <3> QED BY <1>1, <2>1, <3>1 DEF SoundCall, Typed, CallState, Frames
  <2>3. SoundCall(Return(w, "view", "haveVk"), data, retired)
    BY <2>2, ReturnSound DEF Points, Frames
  <2> QED BY <1>3, <2>3, QuietSound DEF ReadViewingKey
<1>4. CASE cached = None
  <2> DEFINE y == LookUp([x EXCEPT !.inView = TRUE], "enc")
  <2> DEFINE z == LookUp(x, "enc")
  <2>1. MayLookUp(x, "enc")
    BY <1>1 DEF Typed, WellFormed, MayLookUp
  <2>2. SoundCall(z, data, retired)
    BY <1>1, <2>1, LookUpSound DEF Frames
  <2>3. /\ y.overlapped = z.overlapped /\ y.got = z.got /\ y.sk = z.sk /\ y.vk = z.vk
        /\ y.ref = z.ref /\ y.inView /\ y.pc # "haveSk"
    BY <1>1 DEF Typed, CallState, LookUp
  <2>4. z.ref["enc"] \notin retired
    <3>1. z.ref["enc"] = vaultData[x.vault]
      BY <1>1 DEF LookUp, Typed, CallState, Frames
    <3> QED BY <1>1, <3>1, ConstantsAssumption
            DEF SoundInv, SoundEntries, TypeInv, TypeOK, Typed, WellFormed
  <2>5. SoundCall(y, data, retired)
    BY <2>2, <2>3, <2>4 DEF SoundCall
  <2> QED BY <1>4, <2>5, QuietSound DEF ReadViewingKey
<1> QED BY <1>3, <1>4

(* StoreViewingKey keeps SoundInv.                                          *)
LEMMA StoreViewingKeySound ==
    ASSUME TypeInv, SoundInv, NEW c \in Calls, StoreViewingKey(c)
    PROVE  SoundInv'
<1> DEFINE x == call[c]
<1> DEFINE derived == ViewingKeyOf(x.got)
<1> DEFINE y == Return([x EXCEPT !.vk = derived, !.got = None, !.inView = FALSE],
                       "view", "haveVk")
<1>1. /\ Typed(x) /\ SoundCall(x, data, retired) /\ x.pc = "haveSk" /\ x.inView
      /\ NoEntry \notin retired
  BY CallFacts DEF StoreViewingKey
<1>2. x.got \in AllEncryptionKeys \cup {Zeroed}
  BY <1>1 DEF Typed, WellFormed, CallState, SkValue
<1>3. derived \in TaintedVk => x.got = Zeroed
  <2>1. derived \in [keccak256 : AllEncryptionKeys \cup {Zeroed}]
    BY <1>2 DEF ViewingKeyOf
  <2>2. derived # Zeroed
    BY <2>1, ConstantsAssumption
  <2>3. ViewingKeyOf(Zeroed) = derived => x.got = Zeroed
    BY DEF ViewingKeyOf
  <2> QED BY <2>2, <2>3 DEF TaintedVk
<1>4. derived \in TaintedVk => x.ref["view"] \in retired
  BY <1>1, <1>3 DEF SoundCall
<1>5. /\ \A i \in Entries : Allocated(i, data) => Allocated(i, data')
      /\ \A i \in Entries : Tainted(data'[i]) => i \in retired
  BY <1>4 DEF StoreViewingKey, TypeInv, TypeOK, VaultData, Allocated, Tainted,
              SoundInv, SoundEntries
<1>6. SoundEntries' /\ retired' = retired
  <2>1. vaultData' = vaultData /\ retired' = retired
    BY DEF StoreViewingKey, shutdownVars
  <2> QED BY <1>5, <2>1 DEF SoundInv, SoundEntries, TypeInv, TypeOK
<1>7. SoundCall(y, data', retired)
  <2>1. /\ y.overlapped = x.overlapped /\ y.got = None /\ y.sk = x.sk /\ y.vk = derived
        /\ ~y.inView /\ y.ref = [x.ref EXCEPT !["view"] = NoEntry]
    BY <1>1 DEF Typed, CallState, Return
  <2>2. x.ref \in [Frames -> Entries \cup {NoEntry}]
    BY <1>1 DEF Typed, CallState
  <2>3. y.ref["view"] = NoEntry /\ \A g \in Frames : g # "view" => y.ref[g] = x.ref[g]
    BY <2>1, <2>2 DEF Frames
  <2> QED BY <1>1, <1>3, <1>5, <2>1, <2>2, <2>3, ConstantsAssumption DEF SoundCall, Frames
<1> QED BY <1>5, <1>6, <1>7, SoundStep DEF StoreViewingKey

(* ResumeWithEncryptionKey keeps SoundInv.                                  *)
LEMMA ResumeWithEncryptionKeySound ==
    ASSUME TypeInv, SoundInv, NEW c \in Calls, ResumeWithEncryptionKey(c)
    PROVE  SoundInv'
<1> DEFINE x == [call[c] EXCEPT !.sk = call[c].got, !.got = None]
<1>1. /\ Typed(call[c]) /\ SoundCall(call[c], data, retired)
      /\ call[c].pc = "haveSk" /\ ~call[c].inView
  BY CallFacts DEF ResumeWithEncryptionKey, Typed, CallState
<1>2. MayLookUp(x, "view")
  BY <1>1 DEF Typed, CallState, WellFormed, SkValue, MayLookUp
<1>3. /\ x.overlapped = call[c].overlapped /\ x.got = None /\ x.sk = call[c].got
      /\ x.vk = call[c].vk /\ ~x.inView /\ x.ref = call[c].ref
  BY <1>1 DEF Typed, CallState
<1>4. SoundCall(x, data, retired)
  BY <1>1, <1>3, ConstantsAssumption DEF SoundCall
<1>5. SoundCall(LookUp(x, "view"), data, retired)
  BY <1>2, <1>4, LookUpSound DEF Frames
<1>6. \A p \in {"submitting", "reading"} : SoundCall([x EXCEPT !.pc = p], data, retired)
  BY <1>2, <1>3, <1>4 DEF SoundCall, MayLookUp, CallState
<1> QED BY <1>5, <1>6, IdleSound, QuietSound DEF ResumeWithEncryptionKey

(* ResumeWithViewingKey keeps SoundInv.                                     *)
LEMMA ResumeWithViewingKeySound ==
    ASSUME TypeInv, SoundInv, NEW c \in Calls, ResumeWithViewingKey(c)
    PROVE  SoundInv'
<1> DEFINE x == call[c]
<1>1. Typed(x) /\ SoundCall(x, data, retired) /\ x.pc = "haveVk" /\ ~x.inView
  BY CallFacts DEF ResumeWithViewingKey, Typed, WellFormed
<1>2. MayLookUp(x, "enc")
  BY <1>1 DEF Typed, WellFormed, MayLookUp
<1>3. SoundCall(LookUp(x, "enc"), data, retired)
  BY <1>1, <1>2, LookUpSound DEF Frames
<1>4. SoundCall([x EXCEPT !.pc = "submitting"], data, retired)
  BY <1>1 DEF SoundCall, Typed, CallState
<1> QED BY <1>3, <1>4, IdleSound, QuietSound DEF ResumeWithViewingKey

(* ReadRegistered keeps SoundInv.                                           *)
LEMMA ReadRegisteredSound ==
    ASSUME TypeInv, SoundInv, NEW c \in Calls, ReadRegistered(c)
    PROVE  SoundInv'
<1> DEFINE x == call[c]
<1> DEFINE y == [x EXCEPT !.isRegistered = TRUE]
<1> DEFINE z == [x EXCEPT !.pc = "asking"]
<1>1. Typed(x) /\ SoundCall(x, data, retired) /\ x.pc = "resolved" /\ ~x.inView
  BY CallFacts DEF ReadRegistered, At, Typed, WellFormed
<1>2. SoundCall(y, data, retired) /\ y \in CallState /\ ~y.inView
  BY <1>1 DEF SoundCall, Typed, CallState
<1>3. SoundCall(Return(y, "check", "answered"), data, retired)
  BY <1>2, ReturnSound DEF Points, Frames
<1>4. SoundCall(z, data, retired)
  BY <1>1 DEF SoundCall, Typed, CallState
<1>5. Becomes(c, Return(y, "check", "answered")) \/ Becomes(c, z)
  BY DEF ReadRegistered
<1> QED BY <1>3, <1>4, <1>5, QuietSound DEF ReadRegistered

(* Steps that change nothing but the flag viewingKeyRegistered of entries.  *)
LEMMA FlagSound ==
    ASSUME TypeInv, SoundInv, NEW c \in Calls, NEW y \in CallState,
           Becomes(c, y), SoundCall(y, data, retired), UNCHANGED <<vaultData, shutdownVars>>,
           NEW e, NEW b \in BOOLEAN, data' = [data EXCEPT ![e].viewingKeyRegistered = b]
    PROVE  SoundInv'
<1>1. \A i \in Entries : /\ Allocated(i, data) <=> Allocated(i, data')
                         /\ Tainted(data'[i]) <=> Tainted(data[i])
  BY DEF TypeInv, TypeOK, VaultData, Allocated, Tainted
<1>2. SoundEntries' /\ retired' = retired
  BY <1>1 DEF SoundInv, SoundEntries, TypeInv, TypeOK, shutdownVars
<1>3. SoundCall(y, data', retired)
  <2>1. y.ref \in [Frames -> Entries \cup {NoEntry}]
    BY DEF CallState
  <2> QED BY <1>1, <2>1 DEF SoundCall
<1> QED BY <1>1, <1>2, <1>3, SoundStep

(* DirectoryReply keeps SoundInv.                                           *)
LEMMA DirectoryReplySound ==
    ASSUME TypeInv, SoundInv, NEW c \in Calls, DirectoryReply(c)
    PROVE  SoundInv'
<1> DEFINE x == call[c]
<1> DEFINE registered == Registered(x.vault)
<1> DEFINE e == x.ref["check"]
<1> DEFINE y == [x EXCEPT !.isRegistered = registered]
<1> DEFINE b == registered \/ data[e].viewingKeyRegistered
<1>1. Typed(x) /\ SoundCall(x, data, retired) /\ x.pc = "asking" /\ ~x.inView
  BY CallFacts DEF DirectoryReply, Replied, Typed, WellFormed
<1>2. registered \in BOOLEAN
  BY DEF Registered
<1>3. SoundCall(y, data, retired) /\ y \in CallState /\ ~y.inView
  BY <1>1, <1>2 DEF SoundCall, Typed, CallState
<1>4. SoundCall(Return(y, "check", "answered"), data, retired)
  BY <1>3, ReturnSound DEF Points, Frames
<1>5. Return(y, "check", "answered") \in CallState
  BY <1>3 DEF Return, CallState, Points, Frames
<1>6. b \in BOOLEAN /\ data' = [data EXCEPT ![e].viewingKeyRegistered = b]
  BY DEF DirectoryReply
<1>7. Becomes(c, Return(y, "check", "answered")) /\ UNCHANGED <<vaultData, shutdownVars>>
  BY DEF DirectoryReply
<1> QED BY <1>4, <1>5, <1>6, <1>7, FlagSound

(* ResumeAnswered keeps SoundInv.                                           *)
LEMMA ResumeAnsweredSound ==
    ASSUME TypeInv, SoundInv, NEW c \in Calls, ResumeAnswered(c)
    PROVE  SoundInv'
<1> DEFINE x == call[c]
<1>1. Typed(x) /\ SoundCall(x, data, retired) /\ x.pc = "answered" /\ ~x.inView
  BY CallFacts DEF ResumeAnswered, Typed, WellFormed
<1>2. ASSUME NEW f \in Frames PROVE SoundCall(LookUp(x, f), data, retired)
  <2>1. MayLookUp(x, f)
    BY <1>1 DEF Typed, WellFormed, MayLookUp
  <2> QED BY <1>1, <2>1, LookUpSound
<1> QED BY <1>2, IdleSound, QuietSound DEF ResumeAnswered, Frames

(* The end of a submission keeps SoundInv.                                  *)
LEMMA SubmitSound ==
    ASSUME TypeInv, SoundInv, NEW c \in Calls, SubmitReply(c) \/ SubmitReplyLost(c)
    PROVE  SoundInv'
<1>1. Becomes(c, Idle) /\ UNCHANGED <<vaultData, shutdownVars>>
  BY DEF SubmitReply, SubmitTransfer, SubmitReplyLost
<1>2. CASE data' = data
  BY <1>1, <1>2, IdleSound, QuietSound
<1>3. CASE data' = [data EXCEPT ![call[c].ref["own"]].viewingKeyRegistered = TRUE]
  BY <1>1, <1>3, IdleSound, IdleType, FlagSound DEF Typed
<1> QED BY <1>2, <1>3 DEF SubmitReply, SubmitTransfer, SubmitReplyLost

(* A shutdown retires every allocated entry, among them all entries of the  *)
(* map, and with that every entry whose keys it zeroes.                     *)
LEMMA ShutdownSound ==
    ASSUME TypeInv, SoundInv, Shutdown
    PROVE  SoundInv'
<1>1. \A e \in Entries : Allocated(e, data') <=> Allocated(e, data)
  BY DEF Shutdown, TypeInv, TypeOK, VaultData, Allocated
<1>2. \A e \in Entries : e \in retired' <=> Allocated(e, data)
  BY DEF Shutdown, Allocated
<1>3. SoundEntries'
  <2>1. ASSUME NEW e \in Entries, Tainted(data'[e]) PROVE e \in retired'
    <3>1. CASE Live(e)
      <4>1. PICK v \in Vaults : vaultData[v] = e
        BY <3>1 DEF Live
      <4> QED BY <1>2, <4>1, ConstantsAssumption DEF SoundInv, SoundEntries
    <3>2. CASE ~Live(e)
      <4>1. data'[e] = data[e]
        BY <3>2 DEF Shutdown
      <4> QED BY <1>2, <2>1, <4>1 DEF SoundInv, SoundEntries
    <3> QED BY <3>1, <3>2
  <2>2. \A e \in retired' : e \in Entries /\ Allocated(e, data')
    BY <1>1, <1>2 DEF Shutdown
  <2>3. \A v \in Vaults : vaultData'[v] = NoEntry
    BY DEF Shutdown
  <2> QED BY <2>1, <2>2, <2>3 DEF SoundEntries
<1>4. ASSUME NEW c \in Calls PROVE SoundCall(call'[c], data', retired')
  <2> DEFINE x == call[c]
  <2> DEFINE y == call'[c]
  <2>1. Typed(x) /\ SoundCall(x, data, retired)
    BY CallFacts
  <2>2. y = [x EXCEPT !.overlapped = x.pc # "idle"]
    BY DEF Shutdown
  <2>3. /\ y.got = x.got /\ y.sk = x.sk /\ y.vk = x.vk /\ y.inView = x.inView
        /\ y.ref = x.ref /\ y.pc = x.pc /\ (y.overlapped <=> x.pc # "idle")
    BY <2>1, <2>2 DEF Typed, CallState
  <2>4. \A f \in Frames : x.ref[f] \in Entries \cup {NoEntry}
    BY <2>1 DEF Typed, CallState
  <2>5. NoEntry \notin retired'
    BY ConstantsAssumption DEF Shutdown
  <2>6. \A f \in Frames : x.ref[f] # NoEntry =>
            Allocated(x.ref[f], data') /\ x.ref[f] \in retired'
    BY <1>1, <1>2, <2>1, <2>4 DEF SoundCall
  <2>7. CASE x.pc = "idle"
    <3>1. x = Idle
      BY <2>1, <2>7 DEF Typed, WellFormed
    <3>2. /\ ~x.inView /\ x.got = None /\ x.sk = None /\ x.vk = None
          /\ \A f \in Frames : x.ref[f] = NoEntry
      BY <3>1 DEF Idle
    <3>3. None \notin TaintedVk /\ None # Zeroed
      BY ConstantsAssumption DEF TaintedVk, ViewingKeyOf, AllEncryptionKeys
    <3> QED BY <2>3, <2>5, <3>2, <3>3 DEF SoundCall
  <2>8. CASE x.pc # "idle"
    <3>1. x.inView => x.ref["view"] \in retired'
      BY <2>1, <2>6 DEF Typed, WellFormed, Frames
    <3> QED BY <2>3, <2>6, <2>8, <3>1 DEF SoundCall
  <2> QED BY <2>7, <2>8
<1> QED BY <1>3, <1>4 DEF SoundInv, SoundCalls

(* The inductive invariant behind both theorems below.                      *)
LEMMA SoundAlways == Spec => [](TypeInv /\ SoundInv)
<1>1. Init => TypeInv /\ SoundInv
  <2> SUFFICES ASSUME Init PROVE TypeInv /\ SoundInv
    OBVIOUS
  <2>1. TypeInv
    BY TypeInit
  <2>2. SoundEntries
    BY ConstantsAssumption
       DEF Init, SoundEntries, Tainted, TaintedVk, ViewingKeyOf, AllEncryptionKeys
  <2>3. SoundCalls
    BY <2>1, IdleSound DEF Init, SoundCalls
  <2> QED BY <2>1, <2>2, <2>3 DEF SoundInv
<1>2. TypeInv /\ SoundInv /\ [Next]_vars => (TypeInv /\ SoundInv)'
  <2> SUFFICES ASSUME TypeInv, SoundInv, [Next]_vars PROVE SoundInv'
    BY TypeStep
  <2>1. ASSUME NEW c \in Calls, Continue(c) PROVE SoundInv'
    BY <2>1, ResumeOwnSound, ReadEncryptionKeySound, ReadViewingKeySound,
       StoreViewingKeySound, ResumeWithEncryptionKeySound, ResumeWithViewingKeySound,
       ReadRegisteredSound, ResumeAnsweredSound DEF Continue
  <2>2. ASSUME NEW c \in Calls, Reply(c) PROVE SoundInv'
    <3>1. ReadReply(c) => SoundInv'
      BY IdleSound, QuietSound DEF ReadReply
    <3> QED BY <2>2, <3>1, FetchReplySound, RejectSound, SignReplySound,
               DirectoryReplySound, SubmitSound DEF Reply
  <2>3. ASSUME UNCHANGED <<vaultData, data, call, shutdownVars>> PROVE SoundInv'
    BY <2>3 DEF SoundInv, SoundEntries, SoundCalls, shutdownVars
  <2>4. ASSUME NEW r \in pool, Mine(r) \/ Drop(r) PROVE SoundInv'
    BY <2>3, <2>4 DEF Mine, Drop
  <2>5. CASE UNCHANGED vars
    BY <2>3, <2>5 DEF vars
  <2> QED BY <2>1, <2>2, <2>4, <2>5, CallSound, ShutdownSound DEF Next, Step
<1> QED BY <1>1, <1>2, PTL DEF Spec

(* The map never serves a zeroed key, nor one hashed from a zeroed key,     *)
(* whatever calls shutdown() overtakes and whatever they write afterwards.  *)
THEOREM LiveKeysAlwaysUsable == Spec => []LiveKeysUsable
<1>1. TypeInv /\ SoundInv => LiveKeysUsable
  <2> SUFFICES ASSUME TypeInv, SoundInv, NEW v \in Vaults, vaultData[v] # NoEntry
               PROVE  ~Tainted(data[vaultData[v]])
    BY DEF LiveKeysUsable, Tainted, TaintedSk
  <2>1. vaultData[v] \in Entries
    BY DEF TypeInv, TypeOK
  <2> QED BY <2>1 DEF SoundInv, SoundEntries
<1> QED BY <1>1, SoundAlways, PTL

(* A call that no shutdown() overlapped never works with a zeroed key.      *)
THEOREM FreshCallsAlwaysGetKeys == Spec => []FreshCallsGetKeys
<1>1. SoundInv => FreshCallsGetKeys
  BY DEF SoundInv, SoundCalls, SoundCall, FreshCallsGetKeys, TaintedSk
<1> QED BY <1>1, SoundAlways, PTL

-----------------------------------------------------------------------------
(* Keys do not cross vaults, and in an entry of the map no viewing key is   *)
(* without its encryption key.  What a call holds is of its own vault: its  *)
(* keys and the entries it refers to, however often the map's entry was     *)
(* replaced since.  deriveViewingKey resolves its entry twice; the last     *)
(* conjunct of KeyedCall says that, as long as the entry resolved first is  *)
(* in the map, the one resolved second is the same.                         *)

OwnKeys(v) == EncryptionKeys(v) \cup TaintedSk \cup {None}
OwnViewingKeys(v) == ViewingKeys(v) \cup TaintedVk \cup {None}

KeyedEntry(o) ==
    /\ o.encryptionSk \in OwnKeys(o.vaultAccountId)
    /\ o.viewingKey \in OwnViewingKeys(o.vaultAccountId)
    /\ o.vaultAccountId = None => o.encryptionSk = None /\ o.viewingKey = None

KeyedMap(d, m) ==
    \A v \in Vaults : m[v] # NoEntry =>
        /\ d[m[v]].vaultAccountId = v
        /\ d[m[v]].viewingKey # None => d[m[v]].encryptionSk # None

KeyedLocals(x, d) ==
    /\ \A f \in Frames : x.ref[f] # NoEntry => d[x.ref[f]].vaultAccountId = x.vault
    /\ x.got \in OwnKeys(x.vault)
    /\ x.sk \in OwnKeys(x.vault)
    /\ x.vk \in OwnViewingKeys(x.vault)

InMap(e, m) == \E v \in Vaults : m[v] = e

KeyedCall(x, d, m) ==
    /\ KeyedLocals(x, d)
    /\ x.pc = "haveVk" \/ (x.pc = "submitting" /\ x.op = "registerViewingKey") => x.vk # None
    /\ x.inView /\ InMap(x.ref["view"], m) =>
          \/ x.pc \in {"resolved", "signing"} /\ x.ref["enc"] = x.ref["view"]
          \/ x.pc = "haveSk" /\ d[x.ref["view"]].encryptionSk # None

KeyedRegistrations ==
    \A r \in pool \cup directory : r.key \in ViewingKeys(r.vault) \cup TaintedVk

KeysInv ==
    /\ \A e \in Entries : KeyedEntry(data[e])
    /\ KeyedMap(data, vaultData)
    /\ \A c \in Calls : KeyedCall(call[c], data, vaultData)
    /\ KeyedRegistrations

Inv == TypeInv /\ SoundInv /\ KeysInv

(* What a step of call c may use of the invariant.                          *)
LEMMA KeyFacts ==
    ASSUME Inv, NEW c \in Calls
    PROVE  /\ Typed(call[c]) /\ KeyedCall(call[c], data, vaultData)
           /\ KeyedLocals(call[c], data)
           /\ \A f \in Frames : call[c].ref[f] \in Entries \cup {NoEntry}
           /\ \A f \in Frames : call[c].ref[f] # NoEntry => Allocated(call[c].ref[f], data)
<1>1. Typed(call[c]) /\ SoundCall(call[c], data, retired)
  BY CallFacts DEF Inv
<1> QED BY <1>1 DEF Inv, KeysInv, KeyedCall, Typed, CallState, SoundCall

(* A slot without a running call holds no key.                              *)
LEMMA IdleKeyed ==
    ASSUME NEW d, NEW m
    PROVE  KeyedCall(Idle, d, m)
BY DEF KeyedCall, KeyedLocals, Idle, OwnKeys, OwnViewingKeys

(* What a step must keep for the calls that do not take it: owners stay,    *)
(* keys do not go away, and no entry in use comes back into the map.        *)
Keeps(d, dd, m, mm) ==
    \A e \in Entries : Allocated(e, d) =>
        /\ dd[e].vaultAccountId = d[e].vaultAccountId
        /\ d[e].encryptionSk # None => dd[e].encryptionSk # None
        /\ InMap(e, mm) => InMap(e, m)

(* A call that takes no part in such a step stays keyed.                    *)
LEMMA OtherCallKeyed ==
    ASSUME NEW x, Typed(x), NEW d, NEW dd, NEW m, NEW mm,
           KeyedCall(x, d, m), Keeps(d, dd, m, mm),
           \A f \in Frames : x.ref[f] \in Entries \cup {NoEntry},
           \A f \in Frames : x.ref[f] # NoEntry => Allocated(x.ref[f], d)
    PROVE  KeyedCall(x, dd, mm)
<1>1. ASSUME NEW f \in Frames, x.ref[f] # NoEntry
      PROVE  /\ dd[x.ref[f]].vaultAccountId = d[x.ref[f]].vaultAccountId
             /\ d[x.ref[f]].encryptionSk # None => dd[x.ref[f]].encryptionSk # None
             /\ InMap(x.ref[f], mm) => InMap(x.ref[f], m)
  BY <1>1 DEF Keeps
<1>2. KeyedLocals(x, dd)
  BY <1>1 DEF KeyedCall, KeyedLocals
<1>3. x.inView => x.ref["view"] # NoEntry
  BY DEF Typed, WellFormed
<1>4. "view" \in Frames
  BY DEF Frames
<1> QED BY <1>1, <1>2, <1>3, <1>4 DEF KeyedCall

(* A step of call c that keeps them, and leaves c and the entries keyed.    *)
LEMMA KeysStep ==
    ASSUME Inv, NEW c \in Calls, NEW y, Becomes(c, y),
           KeyedCall(y, data', vaultData'), KeyedMap(data', vaultData'),
           \A e \in Entries : KeyedEntry(data'[e]), KeyedRegistrations',
           Keeps(data, data', vaultData, vaultData')
    PROVE  KeysInv'
<1> SUFFICES ASSUME NEW d \in Calls
             PROVE  KeyedCall(call'[d], data', vaultData')
  BY DEF KeysInv
<1>1. CASE d = c
  BY <1>1 DEF Becomes, Inv, TypeInv, TypeOK
<1>2. CASE d # c
  <2>1. call'[d] = call[d]
    BY <1>2 DEF Becomes, Inv, TypeInv, TypeOK
  <2>2. KeyedCall(call[d], data', vaultData')
    <3>1. /\ Typed(call[d]) /\ KeyedCall(call[d], data, vaultData)
          /\ \A f \in Frames : call[d].ref[f] \in Entries \cup {NoEntry}
          /\ \A f \in Frames : call[d].ref[f] # NoEntry => Allocated(call[d].ref[f], data)
      BY KeyFacts
    <3> QED BY <3>1, OtherCallKeyed, Zenon
  <2> QED BY <2>1, <2>2
<1> QED BY <1>1, <1>2

(* A step that only replaces a call by a keyed one keeps KeysInv.           *)
LEMMA QuietKeyed ==
    ASSUME Inv, NEW c \in Calls, NEW y, Becomes(c, y),
           KeyedCall(y, data, vaultData), UNCHANGED <<vaultData, data, chainVars>>
    PROVE  KeysInv'
<1>1. KeyedRegistrations'
  BY DEF Inv, KeysInv, KeyedRegistrations, chainVars
<1>2. Keeps(data, data', vaultData, vaultData')
  BY DEF Keeps
<1> QED BY <1>1, <1>2, KeysStep DEF Inv, KeysInv

(* ensureVaultData's first part finds an entry of the call's own vault, and *)
(* inside deriveViewingKey the one found before, if that is in the map.     *)
LEMMA LookUpKeyed ==
    ASSUME Inv, NEW x, NEW f \in Frames, MayLookUp(x, f), KeyedLocals(x, data)
    PROVE  KeyedCall(LookUp(x, f), data, vaultData)
<1> DEFINE y == LookUp(x, f)
<1> DEFINE e == vaultData[x.vault]
<1>1. /\ y.got = x.got /\ y.sk = x.sk /\ y.vk = x.vk /\ y.vault = x.vault
      /\ y.inView = x.inView /\ y.pc \in {"fetching", "resolved"}
      /\ e # NoEntry => y.pc = "resolved"
      /\ y.ref = [x.ref EXCEPT ![f] = e]
  BY DEF LookUp, MayLookUp, CallState
<1>2. \A g \in Frames : y.ref[g] = IF g = f THEN e ELSE x.ref[g]
  BY <1>1 DEF MayLookUp, CallState
<1>3. \A v \in Vaults : vaultData[v] # NoEntry => data[vaultData[v]].vaultAccountId = v
  BY DEF Inv, KeysInv, KeyedMap
<1>4. x.vault \in Vaults
  BY DEF MayLookUp
<1>5. KeyedLocals(y, data)
  BY <1>1, <1>2, <1>3, <1>4 DEF KeyedLocals
<1>6. ASSUME y.inView, InMap(y.ref["view"], vaultData)
      PROVE  y.pc = "resolved" /\ y.ref["enc"] = y.ref["view"]
  <2>1. /\ f = "enc" /\ y.ref["view"] = x.ref["view"] /\ x.ref["view"] # NoEntry
        /\ y.ref["enc"] = e
    BY <1>1, <1>2, <1>6 DEF MayLookUp, Frames
  <2>2. data[x.ref["view"]].vaultAccountId = x.vault
    BY <2>1 DEF KeyedLocals, Frames
  <2>3. PICK v \in Vaults : vaultData[v] = x.ref["view"]
    BY <1>6, <2>1 DEF InMap
  <2>4. v = x.vault
    BY <1>3, <2>1, <2>2, <2>3
  <2> QED BY <1>1, <2>1, <2>3, <2>4
<1> QED BY <1>1, <1>5, <1>6 DEF KeyedCall

(* Leaving a frame drops a reference and keeps the keys.                    *)
LEMMA ReturnKeyed ==
    ASSUME NEW x \in CallState, NEW f \in Frames, NEW p \in Points, NEW d, NEW m,
           KeyedLocals(x, d), ~x.inView, p = "haveVk" => x.vk # None, p # "submitting"
    PROVE  KeyedCall(Return(x, f, p), d, m)
<1> DEFINE y == Return(x, f, p)
<1>1. /\ y.got = x.got /\ y.sk = x.sk /\ y.vk = x.vk /\ y.vault = x.vault
      /\ ~y.inView /\ y.pc = p /\ \A g \in Frames : y.ref[g] \in {NoEntry, x.ref[g]}
  BY DEF Return, CallState
<1> QED BY <1>1 DEF KeyedCall, KeyedLocals

(* Leaving deriveEncryptionKey with a key of the vault.                     *)
LEMMA HaveSkKeyed ==
    ASSUME NEW x \in CallState, NEW k \in SkValue, NEW d, NEW m, KeyedLocals(x, d),
           k \in OwnKeys(x.vault),
           x.inView /\ InMap(x.ref["view"], m) => d[x.ref["view"]].encryptionSk # None
    PROVE  KeyedCall(Return([x EXCEPT !.got = k], "enc", "haveSk"), d, m)
<1> DEFINE y == Return([x EXCEPT !.got = k], "enc", "haveSk")
<1>1. /\ y.got = k /\ y.sk = x.sk /\ y.vk = x.vk /\ y.vault = x.vault
      /\ y.inView = x.inView /\ y.pc = "haveSk"
      /\ \A g \in Frames : y.ref[g] \in {NoEntry, x.ref[g]}
      /\ y.ref["view"] = x.ref["view"]
  BY DEF Return, CallState, Frames
<1> QED BY <1>1 DEF KeyedCall, KeyedLocals

(* A step that replaces an entry by one of the same vault, with no key less *)
(* and, if it is in the map, with no viewing key alone.                     *)
LEMMA UpdateKeyed ==
    ASSUME Inv, vaultData' = vaultData, NEW e \in Entries, NEW o \in VaultData,
           data' = [data EXCEPT ![e] = o], o.vaultAccountId = data[e].vaultAccountId,
           KeyedEntry(o), data[e].encryptionSk # None => o.encryptionSk # None,
           InMap(e, vaultData) /\ o.viewingKey # None => o.encryptionSk # None
    PROVE  /\ Keeps(data, data', vaultData, vaultData')
           /\ KeyedMap(data', vaultData')
           /\ \A i \in Entries : KeyedEntry(data'[i])
           /\ \A i \in Entries : data'[i].vaultAccountId = data[i].vaultAccountId
<1>1. \A i \in Entries : data'[i] = IF i = e THEN o ELSE data[i]
  BY DEF Inv, TypeInv, TypeOK
<1>2. \A i \in Entries : KeyedEntry(data[i])
  BY DEF Inv, KeysInv
<1>3. KeyedMap(data', vaultData')
  <2> SUFFICES ASSUME NEW v \in Vaults, vaultData[v] # NoEntry
               PROVE  /\ data'[vaultData[v]].vaultAccountId = v
                      /\ data'[vaultData[v]].viewingKey # None =>
                             data'[vaultData[v]].encryptionSk # None
    BY DEF KeyedMap
  <2>1. vaultData[v] \in Entries /\ InMap(vaultData[v], vaultData)
    BY DEF Inv, TypeInv, TypeOK, InMap
  <2> QED BY <1>1, <2>1 DEF Inv, KeysInv, KeyedMap
<1>4. Keeps(data, data', vaultData, vaultData')
  BY <1>1 DEF Keeps
<1> QED BY <1>1, <1>2, <1>3, <1>4

(* The locals of a call depend on the entries' owners only.                 *)
LEMMA LocalsKept ==
    ASSUME NEW x, NEW d, NEW dd, KeyedLocals(x, d),
           \A f \in Frames : x.ref[f] \in Entries \cup {NoEntry},
           \A i \in Entries : dd[i].vaultAccountId = d[i].vaultAccountId
    PROVE  KeyedLocals(x, dd)
<1> SUFFICES ASSUME NEW f \in Frames, x.ref[f] # NoEntry
             PROVE  dd[x.ref[f]].vaultAccountId = x.vault
  BY DEF KeyedLocals
<1>1. x.ref[f] \in Entries /\ d[x.ref[f]].vaultAccountId = x.vault
  BY DEF KeyedLocals
<1> QED BY <1>1

(* The invocation of an operation keeps KeysInv.                            *)
LEMMA CallKeyed ==
    ASSUME Inv, NEW c \in Calls, NEW o \in Ops, NEW v \in Vaults, Call(c, o, v)
    PROVE  KeysInv'
<1> DEFINE x == [Idle EXCEPT !.op = o, !.vault = v]
<1>1. MayLookUp(x, FirstFrame(o))
  BY IdleType DEF Typed, CallState, Idle, MayLookUp
<1>2. FirstFrame(o) \in Frames
  BY DEF FirstFrame, Frames
<1>3. KeyedLocals(x, data)
  BY DEF KeyedLocals, Idle, OwnKeys, OwnViewingKeys
<1>4. KeyedCall(LookUp(x, FirstFrame(o)), data, vaultData)
  BY <1>1, <1>2, <1>3, LookUpKeyed
<1> QED BY <1>4, QuietKeyed DEF Call

(* A fetched entry is new, so that it belongs to the vault it is put in the *)
(* map for, and nothing else that a call holds comes into the map with it.  *)
LEMMA FetchReplyKeyed ==
    ASSUME Inv, NEW c \in Calls, NEW e \in Entries, FetchReply(c, e)
    PROVE  KeysInv'
<1> DEFINE x == call[c]
<1> DEFINE y == [x EXCEPT !.ref[x.frame] = e, !.pc = "resolved"]
<1>1. /\ Typed(x) /\ KeyedCall(x, data, vaultData) /\ KeyedLocals(x, data)
      /\ x.pc = "fetching"
      /\ \A f \in Frames : x.ref[f] \in Entries \cup {NoEntry}
      /\ \A f \in Frames : x.ref[f] # NoEntry => Allocated(x.ref[f], data)
  BY KeyFacts DEF FetchReply, Replied
<1>2. x.vault \in Vaults /\ x.vault # None
  BY <1>1, ConstantsAssumption DEF Typed, WellFormed
<1>3. ~Allocated(e, data) /\ data[e].encryptionSk = None /\ data[e].viewingKey = None
  BY DEF FetchReply, Inv, KeysInv, KeyedEntry, Allocated
<1>4. /\ \A i \in Entries \ {e} : data'[i] = data[i]
      /\ data'[e].vaultAccountId = x.vault
      /\ data'[e].encryptionSk = None /\ data'[e].viewingKey = None
  BY <1>3 DEF FetchReply, Inv, TypeInv, TypeOK, VaultData
<1>5. /\ vaultData'[x.vault] = e
      /\ \A v \in Vaults : v # x.vault => vaultData'[v] = vaultData[v]
  BY <1>2 DEF FetchReply, Inv, TypeInv, TypeOK
<1>6. \A i \in Entries : KeyedEntry(data'[i])
  BY <1>2, <1>4 DEF Inv, KeysInv, KeyedEntry, OwnKeys, OwnViewingKeys
<1>7. \A v \in Vaults : vaultData[v] # NoEntry =>
          /\ vaultData[v] \in Entries \ {e} /\ data[vaultData[v]].vaultAccountId = v
          /\ data[vaultData[v]].viewingKey # None => data[vaultData[v]].encryptionSk # None
  BY <1>3, ConstantsAssumption DEF Inv, KeysInv, KeyedMap, TypeInv, TypeOK, Allocated
<1>8. KeyedMap(data', vaultData')
  BY <1>4, <1>5, <1>7 DEF KeyedMap
<1>9. Keeps(data, data', vaultData, vaultData')
  BY <1>3, <1>4, <1>5 DEF Keeps, InMap
<1>10. KeyedCall(y, data', vaultData')
  <2>1. /\ y.got = x.got /\ y.sk = x.sk /\ y.vk = x.vk /\ y.inView = x.inView
        /\ y.pc = "resolved" /\ y.vault = x.vault
        /\ \A g \in Frames : y.ref[g] = IF g = x.frame THEN e ELSE x.ref[g]
    BY <1>1 DEF Typed, CallState
  <2>2. \A g \in Frames : x.ref[g] # NoEntry => x.ref[g] \in Entries \ {e}
    BY <1>1, <1>3
  <2>3. KeyedLocals(y, data')
    BY <1>1, <1>4, <2>1, <2>2 DEF KeyedLocals
  <2>4. ~(y.inView /\ InMap(y.ref["view"], vaultData'))
    <3> SUFFICES ASSUME y.inView, NEW v \in Vaults, vaultData'[v] = y.ref["view"]
                 PROVE  FALSE
      BY DEF InMap
    <3>1. /\ x.frame = "enc" /\ "view" \in Frames
          /\ y.ref["view"] = x.ref["view"] /\ x.ref["view"] # NoEntry
      BY <1>1, <2>1 DEF Typed, WellFormed, Frames
    <3>2. x.ref["view"] # e /\ data[x.ref["view"]].vaultAccountId = x.vault
      BY <1>1, <2>2, <3>1 DEF KeyedLocals
    <3>3. v # x.vault /\ vaultData[v] = x.ref["view"]
      BY <1>5, <3>1, <3>2
    <3> QED BY <1>7, <3>1, <3>2, <3>3
  <2> QED BY <2>1, <2>3, <2>4 DEF KeyedCall
<1>11. KeyedRegistrations'
  BY DEF FetchReply, Inv, KeysInv, KeyedRegistrations, chainVars
<1>12. Becomes(c, y)
  BY DEF FetchReply
<1> QED BY <1>6, <1>8, <1>9, <1>10, <1>11, <1>12, KeysStep

(* Reject keeps KeysInv.                                                    *)
LEMMA RejectKeyed ==
    ASSUME Inv, NEW c \in Calls, Reject(c)
    PROVE  KeysInv'
<1>1. KeyedLocals(call[c], data)
  BY KeyFacts
<1>2. KeyedCall(Thrown(call[c]), data, vaultData)
  <2> DEFINE y == [Idle EXCEPT !.op = call[c].op, !.vault = call[c].vault,
                               !.pc = "reading", !.vk = call[c].vk,
                               !.overlapped = call[c].overlapped]
  <2>1. /\ y.got = None /\ y.sk = None /\ y.vk = call[c].vk /\ ~y.inView
        /\ y.pc = "reading" /\ y.vault = call[c].vault
        /\ \A f \in Frames : y.ref[f] = NoEntry
    BY DEF Idle
  <2>2. KeyedCall(y, data, vaultData)
    BY <1>1, <2>1 DEF KeyedCall, KeyedLocals, OwnKeys
  <2> QED BY <2>2, IdleKeyed DEF Thrown
<1> QED BY <1>2, QuietKeyed DEF Reject

(* ResumeOwn keeps KeysInv.                                                 *)
LEMMA ResumeOwnKeyed ==
    ASSUME Inv, NEW c \in Calls, ResumeOwn(c)
    PROVE  KeysInv'
<1> DEFINE x == call[c]
<1> DEFINE y == Return(x, "own", x.pc)
<1>1. /\ Typed(x) /\ KeyedCall(x, data, vaultData) /\ KeyedLocals(x, data)
      /\ x.pc = "resolved" /\ ~x.inView
  BY KeyFacts DEF ResumeOwn, At, Typed, WellFormed
<1>2. /\ KeyedCall(Return(x, "own", "reading"), data, vaultData)
      /\ KeyedCall(y, data, vaultData)
  BY <1>1, ReturnKeyed DEF Typed, Points, Frames
<1>3. MayLookUp(x, "enc") /\ MayLookUp(y, "check")
  BY <1>1 DEF Typed, Return, CallState, WellFormed, Points, Frames, MayLookUp
<1>4. KeyedCall(LookUp(x, "enc"), data, vaultData)
  BY <1>1, <1>3, LookUpKeyed DEF Frames
<1>5. KeyedCall(LookUp(y, "check"), data, vaultData)
  BY <1>2, <1>3, LookUpKeyed DEF Frames, KeyedCall
<1> QED BY <1>2, <1>4, <1>5, IdleKeyed, QuietKeyed DEF ResumeOwn

(* ReadEncryptionKey keeps KeysInv.                                         *)
LEMMA ReadEncryptionKeyKeyed ==
    ASSUME Inv, NEW c \in Calls, ReadEncryptionKey(c)
    PROVE  KeysInv'
<1> DEFINE x == call[c]
<1> DEFINE cached == Held(c, "enc").encryptionSk
<1> DEFINE z == [x EXCEPT !.pc = "signing"]
<1>1. /\ Typed(x) /\ KeyedCall(x, data, vaultData) /\ KeyedLocals(x, data)
      /\ x.pc = "resolved" /\ x.frame = "enc"
  BY KeyFacts DEF ReadEncryptionKey, At
<1>2. x.ref["enc"] \in Entries /\ data[x.ref["enc"]].vaultAccountId = x.vault
  BY <1>1 DEF Typed, WellFormed, CallState, Frames, KeyedLocals
<1>3. cached \in OwnKeys(x.vault) /\ cached \in SkValue
  BY <1>2 DEF Held, Inv, KeysInv, KeyedEntry, TypeInv, TypeOK, VaultData
<1>4. CASE cached # None
  <2>1. x.inView /\ InMap(x.ref["view"], vaultData) => data[x.ref["view"]].encryptionSk # None
    BY <1>1, <1>4 DEF KeyedCall, Held
  <2>2. KeyedCall(Return([x EXCEPT !.got = cached], "enc", "haveSk"), data, vaultData)
    BY <1>1, <1>3, <2>1, HaveSkKeyed DEF Typed
  <2> QED BY <1>4, <2>2, QuietKeyed DEF ReadEncryptionKey
<1>5. CASE cached = None
  <2>1. KeyedCall(z, data, vaultData)
    BY <1>1 DEF KeyedCall, KeyedLocals, Typed, CallState
  <2> QED BY <1>5, <2>1, QuietKeyed DEF ReadEncryptionKey
<1> QED BY <1>4, <1>5

(* A derived key goes into an entry of the vault it was derived for.        *)
LEMMA SignReplyKeyed ==
    ASSUME Inv, NEW c \in Calls, NEW s \in Sigs, SignReply(c, s)
    PROVE  KeysInv'
<1> DEFINE x == call[c]
<1> DEFINE e == x.ref["enc"]
<1> DEFINE derived == EncryptionKeyOf(x.vault, s)
<1> DEFINE o == [data[e] EXCEPT !.encryptionSk = derived]
<1>1. /\ Typed(x) /\ KeyedCall(x, data, vaultData) /\ KeyedLocals(x, data)
      /\ x.pc = "signing"
      /\ \A f \in Frames : x.ref[f] \in Entries \cup {NoEntry}
  BY KeyFacts DEF SignReply, Replied
<1>2. e \in Entries /\ data[e].vaultAccountId = x.vault /\ x.vault \in Vaults
  BY <1>1 DEF Typed, WellFormed, CallState, Frames, KeyedLocals
<1>3. derived \in OwnKeys(x.vault) /\ derived \in SkValue /\ derived # None
  BY <1>2, ConstantsAssumption
     DEF OwnKeys, EncryptionKeys, SkValue, AllEncryptionKeys, EncryptionKeyOf
<1>4. o \in VaultData /\ data[e] \in VaultData
  BY <1>2, <1>3 DEF Inv, TypeInv, TypeOK, VaultData
<1>5. /\ o.vaultAccountId = data[e].vaultAccountId /\ o.encryptionSk = derived
      /\ o.viewingKey = data[e].viewingKey
  BY <1>4 DEF VaultData
<1>6. KeyedEntry(o)
  BY <1>2, <1>3, <1>5, ConstantsAssumption DEF KeyedEntry, Inv, KeysInv
<1>7. data' = [data EXCEPT ![e] = o] /\ vaultData' = vaultData
  BY DEF SignReply
<1>8. /\ Keeps(data, data', vaultData, vaultData') /\ KeyedMap(data', vaultData')
      /\ \A i \in Entries : KeyedEntry(data'[i])
      /\ \A i \in Entries : data'[i].vaultAccountId = data[i].vaultAccountId
  <2> HIDE DEF e, o, derived
  <2> QED BY <1>2, <1>3, <1>4, <1>5, <1>6, <1>7, UpdateKeyed
<1>9. KeyedLocals(x, data')
  BY <1>1, <1>8, LocalsKept
<1>10. x.inView /\ InMap(x.ref["view"], vaultData') => data'[x.ref["view"]].encryptionSk # None
  <2>1. data'[e].encryptionSk = derived
    BY <1>2, <1>5, <1>7 DEF Inv, TypeInv, TypeOK
  <2> QED BY <1>1, <1>3, <1>7, <2>1 DEF KeyedCall
<1>11. KeyedCall(Return([x EXCEPT !.got = derived], "enc", "haveSk"), data', vaultData')
  <2> HIDE DEF derived
  <2> QED BY <1>1, <1>3, <1>9, <1>10, HaveSkKeyed DEF Typed
<1>12. Becomes(c, Return([x EXCEPT !.got = derived], "enc", "haveSk"))
  BY DEF SignReply
<1>13. KeyedRegistrations'
  BY DEF SignReply, Inv, KeysInv, KeyedRegistrations, chainVars
<1> QED BY <1>8, <1>11, <1>12, <1>13, KeysStep

(* ReadViewingKey keeps KeysInv.                                            *)
LEMMA ReadViewingKeyKeyed ==
    ASSUME Inv, NEW c \in Calls, ReadViewingKey(c)
    PROVE  KeysInv'
<1> DEFINE x == call[c]
<1> DEFINE cached == Held(c, "view").viewingKey
<1>1. /\ Typed(x) /\ KeyedCall(x, data, vaultData) /\ KeyedLocals(x, data)
      /\ x.pc = "resolved" /\ x.frame = "view" /\ ~x.inView
  BY KeyFacts DEF ReadViewingKey, At, Typed, WellFormed
<1>2. x.ref["view"] \in Entries /\ data[x.ref["view"]].vaultAccountId = x.vault
  BY <1>1 DEF Typed, WellFormed, CallState, Frames, KeyedLocals
<1>3. cached \in OwnViewingKeys(x.vault) /\ cached \in VkValue
  BY <1>2 DEF Held, Inv, KeysInv, KeyedEntry, TypeInv, TypeOK, VaultData
<1>4. CASE cached # None
  <2> DEFINE w == [x EXCEPT !.vk = cached]
  <2>1. KeyedLocals(w, data) /\ w \in CallState /\ ~w.inView /\ w.vk = cached
    BY <1>1, <1>3 DEF KeyedLocals, Typed, CallState
  <2>2. KeyedCall(Return(w, "view", "haveVk"), data, vaultData)
    BY <1>4, <2>1, ReturnKeyed DEF Points, Frames
  <2> QED BY <1>4, <2>2, QuietKeyed DEF ReadViewingKey
<1>5. CASE cached = None
  <2> DEFINE z == [x EXCEPT !.inView = TRUE]
  <2>1. MayLookUp(z, "enc")
    BY <1>1, <1>2, ConstantsAssumption DEF Typed, CallState, WellFormed, Frames, MayLookUp
  <2>2. KeyedLocals(z, data)
    BY <1>1 DEF KeyedLocals, Typed, CallState
  <2>3. KeyedCall(LookUp(z, "enc"), data, vaultData)
    BY <2>1, <2>2, LookUpKeyed DEF Frames
  <2> QED BY <1>5, <2>3, QuietKeyed DEF ReadViewingKey
<1> QED BY <1>4, <1>5

(* The viewing key is hashed from a key of the vault, and if the entry it   *)
(* goes into is in the map, that entry has an encryption key.               *)
LEMMA StoreViewingKeyKeyed ==
    ASSUME Inv, NEW c \in Calls, StoreViewingKey(c)
    PROVE  KeysInv'
<1> DEFINE x == call[c]
<1> DEFINE e == x.ref["view"]
<1> DEFINE derived == ViewingKeyOf(x.got)
<1> DEFINE o == [data[e] EXCEPT !.viewingKey = derived]
<1> DEFINE w == [x EXCEPT !.vk = derived, !.got = None, !.inView = FALSE]
<1>1. /\ Typed(x) /\ KeyedCall(x, data, vaultData) /\ KeyedLocals(x, data)
      /\ x.pc = "haveSk" /\ x.inView
      /\ \A f \in Frames : x.ref[f] \in Entries \cup {NoEntry}
  BY KeyFacts DEF StoreViewingKey
<1>2. e \in Entries /\ data[e].vaultAccountId = x.vault /\ x.vault \in Vaults
  BY <1>1 DEF Typed, WellFormed, CallState, Frames, KeyedLocals
<1>3. x.got \in EncryptionKeys(x.vault) \cup TaintedSk /\ x.got \in AllEncryptionKeys \cup {Zeroed}
  BY <1>1 DEF KeyedLocals, OwnKeys, Typed, WellFormed, CallState, SkValue
<1>4. /\ derived \in OwnViewingKeys(x.vault) /\ derived \in VkValue /\ derived # None
  BY <1>3, ConstantsAssumption
     DEF OwnViewingKeys, ViewingKeys, TaintedVk, TaintedSk, VkValue, ViewingKeyOf
<1>5. o \in VaultData /\ data[e] \in VaultData
  BY <1>2, <1>4 DEF Inv, TypeInv, TypeOK, VaultData
<1>6. /\ o.vaultAccountId = data[e].vaultAccountId /\ o.viewingKey = derived
      /\ o.encryptionSk = data[e].encryptionSk
  BY <1>5 DEF VaultData
<1>7. KeyedEntry(o)
  BY <1>2, <1>4, <1>6, ConstantsAssumption DEF KeyedEntry, Inv, KeysInv
<1>8. data' = [data EXCEPT ![e] = o] /\ vaultData' = vaultData
  BY DEF StoreViewingKey
<1>9. InMap(e, vaultData) => o.encryptionSk # None
  BY <1>1, <1>6 DEF KeyedCall
<1>10. /\ Keeps(data, data', vaultData, vaultData') /\ KeyedMap(data', vaultData')
       /\ \A i \in Entries : KeyedEntry(data'[i])
       /\ \A i \in Entries : data'[i].vaultAccountId = data[i].vaultAccountId
  <2> HIDE DEF e, o, derived
  <2> QED BY <1>2, <1>5, <1>6, <1>7, <1>8, <1>9, UpdateKeyed
<1>11. KeyedLocals(x, data')
  BY <1>1, <1>10, LocalsKept
<1>12. /\ w \in CallState /\ w.vk = derived /\ w.got = None /\ ~w.inView
       /\ w.ref = x.ref /\ w.vault = x.vault /\ w.sk = x.sk
  BY <1>1, <1>4 DEF Typed, CallState, SkValue
<1>13. KeyedCall(Return(w, "view", "haveVk"), data', vaultData')
  <2>1. KeyedLocals(w, data')
    BY <1>4, <1>11, <1>12 DEF KeyedLocals, OwnKeys
  <2> HIDE DEF w, derived
  <2> QED BY <1>4, <1>12, <2>1, ReturnKeyed DEF Points, Frames
<1>14. Becomes(c, Return(w, "view", "haveVk"))
  BY DEF StoreViewingKey
<1>15. KeyedRegistrations'
  BY DEF StoreViewingKey, Inv, KeysInv, KeyedRegistrations, chainVars
<1> QED BY <1>10, <1>13, <1>14, <1>15, KeysStep

(* ResumeWithEncryptionKey keeps KeysInv.                                   *)
LEMMA ResumeWithEncryptionKeyKeyed ==
    ASSUME Inv, NEW c \in Calls, ResumeWithEncryptionKey(c)
    PROVE  KeysInv'
<1> DEFINE x == [call[c] EXCEPT !.sk = call[c].got, !.got = None]
<1>1. /\ Typed(call[c]) /\ KeyedLocals(call[c], data)
      /\ call[c].pc = "haveSk" /\ ~call[c].inView
  BY KeyFacts DEF ResumeWithEncryptionKey, Typed, CallState
<1>2. /\ MayLookUp(x, "view") /\ x.vault = call[c].vault /\ x.op = call[c].op
      /\ x.got = None /\ x.sk = call[c].got
      /\ x.vk = call[c].vk /\ ~x.inView /\ x.ref = call[c].ref
  BY <1>1 DEF Typed, CallState, WellFormed, SkValue, MayLookUp
<1>3. KeyedLocals(x, data)
  BY <1>1, <1>2 DEF KeyedLocals, OwnKeys
<1>4. KeyedCall(LookUp(x, "view"), data, vaultData)
  BY <1>2, <1>3, LookUpKeyed DEF Frames
<1>5. KeyedCall([x EXCEPT !.pc = "reading"], data, vaultData)
  BY <1>2, <1>3 DEF KeyedCall, KeyedLocals, MayLookUp, CallState
<1>6. x.op = "createShieldedTransaction" =>
          KeyedCall([x EXCEPT !.pc = "submitting"], data, vaultData)
  BY <1>2, <1>3 DEF KeyedCall, KeyedLocals, MayLookUp, CallState
<1> QED BY <1>4, <1>5, <1>6, IdleKeyed, QuietKeyed DEF ResumeWithEncryptionKey

(* ResumeWithViewingKey keeps KeysInv.                                      *)
LEMMA ResumeWithViewingKeyKeyed ==
    ASSUME Inv, NEW c \in Calls, ResumeWithViewingKey(c)
    PROVE  KeysInv'
<1> DEFINE x == call[c]
<1>1. /\ Typed(x) /\ KeyedCall(x, data, vaultData) /\ KeyedLocals(x, data)
      /\ x.pc = "haveVk" /\ ~x.inView /\ x.vk # None
  BY KeyFacts DEF ResumeWithViewingKey, Typed, WellFormed, KeyedCall
<1>2. MayLookUp(x, "enc")
  BY <1>1 DEF Typed, WellFormed, MayLookUp
<1>3. KeyedCall(LookUp(x, "enc"), data, vaultData)
  BY <1>1, <1>2, LookUpKeyed DEF Frames
<1>4. KeyedCall([x EXCEPT !.pc = "submitting"], data, vaultData)
  BY <1>1 DEF KeyedCall, KeyedLocals, Typed, CallState
<1> QED BY <1>3, <1>4, IdleKeyed, QuietKeyed DEF ResumeWithViewingKey

(* ReadRegistered keeps KeysInv.                                            *)
LEMMA ReadRegisteredKeyed ==
    ASSUME Inv, NEW c \in Calls, ReadRegistered(c)
    PROVE  KeysInv'
<1> DEFINE x == call[c]
<1> DEFINE y == [x EXCEPT !.isRegistered = TRUE]
<1> DEFINE z == [x EXCEPT !.pc = "asking"]
<1>1. /\ Typed(x) /\ KeyedLocals(x, data) /\ x.pc = "resolved" /\ ~x.inView
  BY KeyFacts DEF ReadRegistered, At, Typed, WellFormed
<1>2. KeyedLocals(y, data) /\ y \in CallState /\ ~y.inView
  BY <1>1 DEF KeyedLocals, Typed, CallState
<1>3. KeyedCall(Return(y, "check", "answered"), data, vaultData)
  BY <1>2, ReturnKeyed DEF Points, Frames
<1>4. KeyedCall(z, data, vaultData)
  BY <1>1 DEF KeyedCall, KeyedLocals, Typed, CallState
<1>5. Becomes(c, Return(y, "check", "answered")) \/ Becomes(c, z)
  BY DEF ReadRegistered
<1> QED BY <1>3, <1>4, <1>5, QuietKeyed DEF ReadRegistered

(* ResumeAnswered keeps KeysInv.                                            *)
LEMMA ResumeAnsweredKeyed ==
    ASSUME Inv, NEW c \in Calls, ResumeAnswered(c)
    PROVE  KeysInv'
<1> DEFINE x == call[c]
<1>1. Typed(x) /\ KeyedLocals(x, data) /\ x.pc = "answered" /\ ~x.inView
  BY KeyFacts DEF ResumeAnswered, Typed, WellFormed
<1>2. ASSUME NEW f \in Frames PROVE KeyedCall(LookUp(x, f), data, vaultData)
  <2>1. MayLookUp(x, f)
    BY <1>1 DEF Typed, WellFormed, MayLookUp
  <2> QED BY <1>1, <2>1, LookUpKeyed
<1> QED BY <1>2, IdleKeyed, QuietKeyed DEF ResumeAnswered, Frames

(* Steps that change nothing but the flag viewingKeyRegistered of entries.  *)
FlagStep ==
    /\ vaultData' = vaultData
    /\ \A i \in Entries : /\ data'[i].vaultAccountId = data[i].vaultAccountId
                          /\ data'[i].encryptionSk = data[i].encryptionSk
                          /\ data'[i].viewingKey = data[i].viewingKey

(* Setting the flag of an entry is such a step.                             *)
LEMMA FlagOnly ==
    ASSUME TypeInv, vaultData' = vaultData, NEW e, NEW b \in BOOLEAN,
           data' = [data EXCEPT ![e].viewingKeyRegistered = b]
    PROVE  FlagStep
BY DEF TypeInv, TypeOK, VaultData, FlagStep

(* It keeps KeysInv, if the call goes on with the locals it has.            *)
LEMMA FlagKeyed ==
    ASSUME Inv, NEW c \in Calls, NEW y, Becomes(c, y),
           \A d, m : KeyedLocals(call[c], d) => KeyedCall(y, d, m),
           FlagStep, KeyedRegistrations'
    PROVE  KeysInv'
<1>1. \A i \in Entries : /\ data'[i].vaultAccountId = data[i].vaultAccountId
                         /\ data'[i].encryptionSk = data[i].encryptionSk
                         /\ data'[i].viewingKey = data[i].viewingKey
  BY DEF FlagStep
<1>2. \A i \in Entries : KeyedEntry(data'[i])
  BY <1>1 DEF Inv, KeysInv, KeyedEntry
<1>3. KeyedMap(data', vaultData')
  BY <1>1 DEF Inv, KeysInv, KeyedMap, TypeInv, TypeOK, FlagStep
<1>4. Keeps(data, data', vaultData, vaultData')
  BY <1>1 DEF Keeps, FlagStep
<1>5. KeyedLocals(call[c], data) /\ \A f \in Frames : call[c].ref[f] \in Entries \cup {NoEntry}
  BY KeyFacts
<1>6. KeyedLocals(call[c], data')
  <2>1. \A i \in Entries : data'[i].vaultAccountId = data[i].vaultAccountId
    BY <1>1
  <2> QED BY <1>5, <2>1, LocalsKept
<1> QED BY <1>2, <1>3, <1>4, <1>6, KeysStep

(* DirectoryReply keeps KeysInv.                                            *)
LEMMA DirectoryReplyKeyed ==
    ASSUME Inv, NEW c \in Calls, DirectoryReply(c)
    PROVE  KeysInv'
<1> DEFINE x == call[c]
<1> DEFINE registered == Registered(x.vault)
<1> DEFINE e == x.ref["check"]
<1> DEFINE y == [x EXCEPT !.isRegistered = registered]
<1> DEFINE b == registered \/ data[e].viewingKeyRegistered
<1>1. Typed(x) /\ x.pc = "asking" /\ ~x.inView
  BY KeyFacts DEF DirectoryReply, Replied, Typed, WellFormed
<1>2. registered \in BOOLEAN
  BY DEF Registered
<1>3. y \in CallState /\ ~y.inView
  BY <1>1, <1>2 DEF Typed, CallState
<1>4. ASSUME NEW d, NEW m, KeyedLocals(x, d)
      PROVE  KeyedCall(Return(y, "check", "answered"), d, m)
  <2>1. KeyedLocals(y, d)
    BY <1>1, <1>4 DEF KeyedLocals, Typed, CallState
  <2> QED BY <1>3, <2>1, ReturnKeyed DEF Points, Frames
<1>5. b \in BOOLEAN /\ data' = [data EXCEPT ![e].viewingKeyRegistered = b]
  BY DEF DirectoryReply
<1>6. Becomes(c, Return(y, "check", "answered")) /\ vaultData' = vaultData
  BY DEF DirectoryReply
<1>7. FlagStep
  <2> HIDE DEF e, b
  <2> QED BY <1>5, <1>6, FlagOnly DEF Inv
<1>8. KeyedRegistrations'
  BY DEF DirectoryReply, Inv, KeysInv, KeyedRegistrations, chainVars
<1> HIDE DEF x, e, y, b, registered
<1> QED BY <1>4, <1>6, <1>7, <1>8, FlagKeyed DEF x

(* What registerViewingKey submits is a viewing key of its vault.           *)
LEMMA SubmitKeyed ==
    ASSUME Inv, NEW c \in Calls, SubmitReply(c) \/ SubmitReplyLost(c)
    PROVE  KeysInv'
<1>1. Becomes(c, Idle) /\ UNCHANGED <<vaultData, directory>>
  BY DEF SubmitReply, SubmitReplyLost
<1>2. KeyedRegistrations'
  <2>1. call[c].pc = "submitting" /\ (pool' = pool \/ Register(c))
    BY DEF SubmitReply, SubmitReplyLost, SubmitTransfer, Replied
  <2>2. ASSUME Register(c)
        PROVE  call[c].vk \in ViewingKeys(call[c].vault) \cup TaintedVk
    <3>1. KeyedCall(call[c], data, vaultData)
      BY KeyFacts
    <3> QED BY <2>1, <2>2, <3>1 DEF KeyedCall, KeyedLocals, OwnViewingKeys, Register
  <2> QED BY <1>1, <2>1, <2>2 DEF Register, Inv, KeysInv, KeyedRegistrations
<1>3. CASE data' = data
  <2>1. KeyedCall(Idle, data', vaultData')
    BY IdleKeyed
  <2>2. Keeps(data, data', vaultData, vaultData') /\ KeyedMap(data', vaultData')
        /\ \A e \in Entries : KeyedEntry(data'[e])
    BY <1>1, <1>3 DEF Keeps, Inv, KeysInv
  <2> QED BY <1>1, <1>2, <2>1, <2>2, KeysStep
<1>4. CASE data' = [data EXCEPT ![call[c].ref["own"]].viewingKeyRegistered = TRUE]
  <2>1. FlagStep
    BY <1>1, <1>4, FlagOnly DEF Inv
  <2>2. \A d, m : KeyedCall(Idle, d, m)
    BY IdleKeyed
  <2> QED BY <1>1, <1>2, <2>1, <2>2, FlagKeyed
<1> QED BY <1>3, <1>4 DEF SubmitReply, SubmitTransfer, SubmitReplyLost

(* A shutdown zeroes keys, never gives one, and leaves no entry in the map. *)
LEMMA ShutdownKeyed ==
    ASSUME Inv, Shutdown
    PROVE  KeysInv'
<1>1. ASSUME NEW i \in Entries
      PROVE  /\ data'[i].vaultAccountId = data[i].vaultAccountId
             /\ data'[i].encryptionSk \in
                    {data[i].encryptionSk, Zero(data[i].encryptionSk)}
             /\ data'[i].viewingKey \in {data[i].viewingKey, Zero(data[i].viewingKey)}
  <2>1. data[i] \in VaultData
    BY DEF Inv, TypeInv, TypeOK
  <2> QED BY <2>1 DEF Shutdown, VaultData
<1>2. \A i \in Entries : KeyedEntry(data'[i])
  BY <1>1 DEF Inv, KeysInv, KeyedEntry, OwnKeys, OwnViewingKeys, TaintedSk, TaintedVk, Zero
<1>3. \A v \in Vaults : vaultData'[v] = NoEntry
  BY DEF Shutdown
<1>4. KeyedMap(data', vaultData')
  BY <1>3 DEF KeyedMap
<1>5. Keeps(data, data', vaultData, vaultData')
  <2> SUFFICES ASSUME NEW i \in Entries
               PROVE  /\ data'[i].vaultAccountId = data[i].vaultAccountId
                      /\ data[i].encryptionSk # None => data'[i].encryptionSk # None
                      /\ ~InMap(i, vaultData')
    BY DEF Keeps
  <2> QED BY <1>1, <1>3, ConstantsAssumption DEF Zero, InMap
<1>6. ASSUME NEW c \in Calls PROVE KeyedCall(call'[c], data', vaultData')
  <2> DEFINE x == call[c]
  <2> DEFINE y == call'[c]
  <2>1. /\ Typed(x) /\ KeyedCall(x, data, vaultData)
        /\ \A f \in Frames : x.ref[f] \in Entries \cup {NoEntry}
        /\ \A f \in Frames : x.ref[f] # NoEntry => Allocated(x.ref[f], data)
    BY KeyFacts
  <2>2. KeyedCall(x, data', vaultData')
    BY <1>5, <2>1, OtherCallKeyed, Zenon
  <2>3. y = [x EXCEPT !.overlapped = x.pc # "idle"]
    BY DEF Shutdown
  <2>4. /\ y.got = x.got /\ y.sk = x.sk /\ y.vk = x.vk /\ y.inView = x.inView
        /\ y.ref = x.ref /\ y.pc = x.pc /\ y.op = x.op /\ y.vault = x.vault
    BY <2>1, <2>3 DEF Typed, CallState
  <2> HIDE DEF x, y
  <2>5. KeyedCall(y, data', vaultData')
    BY <2>2, <2>4 DEF KeyedCall, KeyedLocals
  <2> QED BY <2>5 DEF y
<1>7. KeyedRegistrations'
  BY DEF Shutdown, Inv, KeysInv, KeyedRegistrations, chainVars
<1> QED BY <1>2, <1>4, <1>6, <1>7 DEF KeysInv

(* Every step keeps KeysInv.                                                *)
LEMMA KeysInvStep ==
    ASSUME Inv, [Next]_vars
    PROVE  KeysInv'
<1>1. ASSUME NEW c \in Calls, Continue(c) PROVE KeysInv'
  BY <1>1, ResumeOwnKeyed, ReadEncryptionKeyKeyed, ReadViewingKeyKeyed,
     StoreViewingKeyKeyed, ResumeWithEncryptionKeyKeyed, ResumeWithViewingKeyKeyed,
     ReadRegisteredKeyed, ResumeAnsweredKeyed DEF Continue
<1>2. ASSUME NEW c \in Calls, Reply(c) PROVE KeysInv'
  <2>1. ReadReply(c) => KeysInv'
    BY IdleKeyed, QuietKeyed DEF ReadReply
  <2> QED BY <1>2, <2>1, FetchReplyKeyed, RejectKeyed, SignReplyKeyed,
             DirectoryReplyKeyed, SubmitKeyed DEF Reply
<1>3. ASSUME NEW r \in pool, Mine(r) \/ Drop(r) PROVE KeysInv'
  <2>1. UNCHANGED <<vaultData, data, call>> /\ pool' \cup directory' \subseteq pool \cup directory
    BY <1>3 DEF Mine, Drop
  <2> QED BY <2>1 DEF Inv, KeysInv, KeyedRegistrations
<1>4. CASE UNCHANGED vars
  BY <1>4 DEF vars, chainVars, Inv, KeysInv, KeyedRegistrations
<1> QED BY <1>1, <1>2, <1>3, <1>4, CallKeyed, ShutdownKeyed DEF Next, Step

(* Types, soundness and ownership of keys hold in every reachable state.    *)
LEMMA InvAlways == Spec => []Inv
<1>1. Init => KeysInv
  BY IdleKeyed, ConstantsAssumption
     DEF Init, KeysInv, KeyedEntry, KeyedMap, KeyedRegistrations, OwnKeys, OwnViewingKeys
<1>2. TypeInv /\ SoundInv /\ KeysInv /\ [Next]_vars => KeysInv'
  BY KeysInvStep DEF Inv
<1>3. Inv <=> TypeInv /\ SoundInv /\ KeysInv
  BY DEF Inv
<1> QED BY <1>1, <1>2, <1>3, SoundAlways, PTL DEF Spec

(* Keys never cross vaults: an entry, a local variable or a registration    *)
(* holds keys of its own vault, or the remainder of a shutdown.             *)
THEOREM KeysAlwaysStayInTheirVault == Spec => []KeysStayInTheirVault
<1>1. Inv => KeysStayInTheirVault
  <2> SUFFICES ASSUME Inv PROVE KeysStayInTheirVault
    OBVIOUS
  <2>1. \A e \in Entries : KeyedEntry(data[e])
    BY DEF Inv, KeysInv
  <2>2. \A c \in Calls : KeyedLocals(call[c], data)
    BY DEF Inv, KeysInv, KeyedCall
  <2> QED BY <2>1, <2>2
          DEF KeysStayInTheirVault, KeyedEntry, KeyedLocals, OwnKeys, OwnViewingKeys,
              Inv, KeysInv, KeyedRegistrations
<1> QED BY <1>1, InvAlways, PTL

(* Under deterministic signing the viewing key of an entry of the map is    *)
(* the hash of the encryption key beside it.                                *)
THEOREM LiveViewingKeyAlwaysMatches == Spec => []LiveViewingKeyMatches
<1>1. Inv => LiveViewingKeyMatches
  <2> SUFFICES ASSUME Inv, Deterministic, NEW v \in Vaults, vaultData[v] # NoEntry,
                      data[vaultData[v]].viewingKey # None
               PROVE  /\ data[vaultData[v]].encryptionSk # None
                      /\ data[vaultData[v]].viewingKey
                             = ViewingKeyOf(data[vaultData[v]].encryptionSk)
    BY DEF LiveViewingKeyMatches
  <2> DEFINE o == data[vaultData[v]]
  <2>1. vaultData[v] \in Entries /\ o.vaultAccountId = v /\ o.encryptionSk # None
    BY DEF Inv, KeysInv, KeyedMap, TypeInv, TypeOK
  <2>2. ~Tainted(o)
    BY <2>1 DEF Inv, SoundInv, SoundEntries
  <2>3. o.encryptionSk \in EncryptionKeys(v) /\ o.viewingKey \in ViewingKeys(v)
    BY <2>1, <2>2 DEF Inv, KeysInv, KeyedEntry, OwnKeys, OwnViewingKeys, Tainted, TaintedSk
  <2> QED BY <2>1, <2>3 DEF Deterministic, EncryptionKeys, ViewingKeys
<1> QED BY <1>1, InvAlways, PTL

(* The flag viewingKeyRegistered of an entry goes up only with or after the *)
(* submission of a registration for the entry's vault.                      *)
THEOREM FlagAlwaysFollowsSubmission == Spec => FlagFollowsSubmission
<1> DEFINE Rises(e) == ~data[e].viewingKeyRegistered /\ data'[e].viewingKeyRegistered
<1>1. ASSUME Inv, [Next]_vars, NEW e \in Entries, Rises(e)
      PROVE  Submitted(data[e].vaultAccountId)'
  <2>1. data[e] \in VaultData
    BY <1>1 DEF Inv, TypeInv, TypeOK
  <2>2. PICK c \in Calls : DirectoryReply(c) \/ SubmitReply(c)
    <3>1. data'[e] # data[e]
      BY <1>1
    <3>2. ASSUME NEW c \in Calls, \E i \in Entries : FetchReply(c, i) PROVE ~Rises(e)
      BY <1>1, <2>1, <3>2 DEF FetchReply, VaultData, Inv, TypeInv, TypeOK
    <3>3. ASSUME NEW c \in Calls, (\E s \in Sigs : SignReply(c, s)) \/ StoreViewingKey(c)
          PROVE  ~Rises(e)
      BY <1>1, <2>1, <3>3 DEF SignReply, StoreViewingKey, VaultData, Inv, TypeInv, TypeOK
    <3>4. ASSUME Shutdown PROVE ~Rises(e)
      <4>1. data'[e].viewingKeyRegistered = data[e].viewingKeyRegistered
        BY <2>1, <3>4 DEF Shutdown, VaultData
      <4> QED BY <4>1
    <3> QED BY <1>1, <3>1, <3>2, <3>3, <3>4
            DEF Next, Step, Continue, Reply, Call, ResumeOwn, ReadEncryptionKey, ReadViewingKey,
                ResumeWithEncryptionKey, ResumeWithViewingKey, ReadRegistered, ResumeAnswered,
                Reject, SubmitReplyLost, ReadReply, Mine, Drop, vars
  <2> DEFINE x == call[c]
  <2>3. /\ Typed(x) /\ KeyedLocals(x, data)
        /\ \A f \in Frames : x.ref[f] \in Entries \cup {NoEntry}
    BY <1>1, KeyFacts
  <2>4. CASE DirectoryReply(c)
    <3>1. /\ e = x.ref["check"] /\ Registered(x.vault) /\ UNCHANGED chainVars
          /\ data'[e].vaultAccountId = data[e].vaultAccountId
      BY <1>1, <2>1, <2>4 DEF DirectoryReply, Inv, TypeInv, TypeOK, VaultData
    <3>2. data[e].vaultAccountId = x.vault
      BY <1>1, <2>3, <3>1, ConstantsAssumption DEF KeyedLocals, Frames
    <3> QED BY <3>1, <3>2 DEF Registered, Submitted, chainVars
  <2>5. CASE SubmitReply(c)
    <3>1. /\ e = x.ref["own"] /\ Register(c) /\ directory' = directory
          /\ data'[e].vaultAccountId = data[e].vaultAccountId
      BY <1>1, <2>1, <2>5 DEF SubmitReply, SubmitTransfer, Inv, TypeInv, TypeOK, VaultData
    <3>2. data[e].vaultAccountId = x.vault
      BY <1>1, <2>3, <3>1, ConstantsAssumption DEF KeyedLocals, Frames
    <3>3. \E r \in pool' \cup directory' : r.vault = x.vault
      <4> DEFINE r == [vault |-> x.vault, key |-> x.vk]
      <4>1. r \in pool' /\ r.vault = x.vault
        BY <3>1 DEF Register
      <4> HIDE DEF r
      <4> QED BY <4>1
    <3> QED BY <3>1, <3>2, <3>3 DEF Submitted
  <2> QED BY <2>2, <2>4, <2>5
<1>2. Inv /\ [Next]_vars => \A e \in Entries : Rises(e) => Submitted(data[e].vaultAccountId)'
  BY <1>1
<1> QED BY <1>2, InvAlways, PTL DEF Spec, FlagFollowsSubmission

-----------------------------------------------------------------------------
(* The end of a call.                                                       *)

(* The steps that a call has ahead of it, at the most: it passes through    *)
(* the frames of ensureVaultData in one order, the history's derivation of  *)
(* the encryption key coming last, and takes up to five steps in each.      *)
FrameRank(x, f) ==
    CASE f = "own" -> 7
      [] f = "check" -> 6
      [] f = "view" -> 5
      [] OTHER -> IF x.inView THEN 4 ELSE IF x.op = "getTransactionHistory" THEN 2 ELSE 6

Left(x) ==
    CASE x.pc = "idle" -> 0
      [] x.pc = "reading" -> 1
      [] x.pc = "submitting" -> 2
      [] x.pc = "haveVk" -> 16
      [] x.pc = "answered" -> 31
      [] x.pc = "haveSk" -> 5 * FrameRank(x, "enc") + 1
      [] x.pc = "fetching" -> 5 * FrameRank(x, x.frame) + 4
      [] x.pc = "resolved" -> 5 * FrameRank(x, x.frame) + 3
      [] OTHER -> 5 * FrameRank(x, x.frame) + 2

LEMMA LeftBounded ==
    ASSUME NEW x \in CallState
    PROVE  Left(x) \in 0..39 /\ (Left(x) = 0 <=> x.pc = "idle")
<1>1. \A f \in Frames : FrameRank(x, f) \in 2..7
  BY DEF FrameRank
<1>2. x.frame \in Frames /\ "enc" \in Frames
  BY DEF CallState, Frames
<1> QED BY <1>1, <1>2 DEF Left

(* What is left after a look-up in frame f.                                 *)
LEMMA LookUpLeft ==
    ASSUME NEW x \in CallState, NEW f \in Frames
    PROVE  Left(LookUp(x, f)) \in {5 * FrameRank(x, f) + 3, 5 * FrameRank(x, f) + 4}
<1> DEFINE y == LookUp(x, f)
<1>1. /\ y.pc \in {"fetching", "resolved"} /\ y.frame = f
      /\ y.inView = x.inView /\ y.op = x.op
  BY DEF LookUp, CallState, Frames
<1>2. FrameRank(y, f) = FrameRank(x, f)
  BY <1>1 DEF FrameRank
<1>3. Left(y) \in {5 * FrameRank(x, f) + 3, 5 * FrameRank(x, f) + 4}
  <2> HIDE DEF y
  <2> QED BY <1>1, <1>2 DEF Left
<1> QED BY <1>3

(* A continuation leaves the call fewer steps.                              *)
LEMMA ContinueLeavesFewer ==
    ASSUME TypeInv, NEW c \in Calls, Continue(c)
    PROVE  Left(call'[c]) < Left(call[c])
<1> DEFINE x == call[c]
<1>1. x \in CallState /\ WellFormed(x) /\ x.pc # "idle"
  BY DEF TypeInv, TypeOK, CallsWellFormed, Continue, ResumeOwn, ReadEncryptionKey,
         ReadViewingKey, StoreViewingKey, ResumeWithEncryptionKey, ResumeWithViewingKey,
         ReadRegistered, ResumeAnswered, At
<1>2. \A y : Becomes(c, y) => call'[c] = y
  BY DEF Becomes, TypeInv, TypeOK
<1>3. Left(Idle) = 0 /\ Left(x) \in 1..39
  BY <1>1, LeftBounded DEF Left, Idle
<1>4. ASSUME NEW y \in CallState, NEW f \in Frames, 5 * FrameRank(y, f) + 4 < Left(x)
      PROVE  Left(LookUp(y, f)) < Left(x)
  <2>1. FrameRank(y, f) \in 2..7
    BY DEF FrameRank
  <2> QED BY <1>3, <1>4, <2>1, LookUpLeft
<1> USE DEF Frames
<1>5. CASE ResumeOwn(c)
  <2>1. x.pc = "resolved" /\ x.frame = "own" /\ ~x.inView /\ Left(x) = 38
    BY <1>1, <1>5 DEF ResumeOwn, At, WellFormed, Left, FrameRank, CallState
  <2>2. Left(Return(x, "own", "reading")) = 1
    BY <1>1 DEF Return, Left, CallState
  <2>3. x.op \in {"registerViewingKey", "createShieldedTransaction"} =>
            Left(LookUp(x, "enc")) < Left(x)
    BY <1>1, <1>4, <2>1 DEF FrameRank
  <2>4. Left(LookUp(Return(x, "own", x.pc), "check")) < Left(x)
    <3>1. Return(x, "own", x.pc) \in CallState
      BY <1>1 DEF Return, CallState
    <3> QED BY <1>4, <2>1, <3>1 DEF FrameRank
  <2> QED BY <1>2, <1>3, <1>5, <2>1, <2>2, <2>3, <2>4 DEF ResumeOwn
<1>6. CASE ReadEncryptionKey(c)
  <2> DEFINE y == Return([x EXCEPT !.got = Held(c, "enc").encryptionSk], "enc", "haveSk")
  <2> DEFINE z == [x EXCEPT !.pc = "signing"]
  <2>1. x.pc = "resolved" /\ x.frame = "enc" /\ Left(x) = 5 * FrameRank(x, "enc") + 3
    BY <1>1, <1>6 DEF ReadEncryptionKey, At, Left
  <2>2. /\ y.pc = "haveSk" /\ y.inView = x.inView /\ y.op = x.op
        /\ z.pc = "signing" /\ z.frame = "enc" /\ z.inView = x.inView /\ z.op = x.op
    BY <1>1, <2>1 DEF Return, CallState
  <2>3. FrameRank(y, "enc") = FrameRank(x, "enc") /\ FrameRank(z, "enc") = FrameRank(x, "enc")
    BY <2>2 DEF FrameRank
  <2>4. Becomes(c, y) \/ Becomes(c, z)
    BY <1>6 DEF ReadEncryptionKey
  <2>5. FrameRank(x, "enc") \in 2..7
    BY DEF FrameRank
  <2> HIDE DEF y, z
  <2>6. Left(y) < Left(x) /\ Left(z) < Left(x)
    BY <2>1, <2>2, <2>3, <2>5 DEF Left
  <2> QED BY <1>2, <2>4, <2>6
<1>7. CASE ReadViewingKey(c)
  <2> DEFINE y == Return([x EXCEPT !.vk = Held(c, "view").viewingKey], "view", "haveVk")
  <2> DEFINE z == [x EXCEPT !.inView = TRUE]
  <2>1. x.pc = "resolved" /\ x.frame = "view" /\ Left(x) = 28
    BY <1>1, <1>7 DEF ReadViewingKey, At, Left, FrameRank
  <2>2. Left(y) = 16
    BY <1>1 DEF Return, CallState, Left
  <2>3. z \in CallState /\ FrameRank(z, "enc") = 4
    BY <1>1 DEF CallState, FrameRank
  <2>4. Left(LookUp(z, "enc")) < Left(x)
    BY <1>4, <2>1, <2>3
  <2>5. Becomes(c, y) \/ Becomes(c, LookUp(z, "enc"))
    BY <1>7 DEF ReadViewingKey
  <2> QED BY <1>2, <2>1, <2>2, <2>4, <2>5
<1>8. CASE StoreViewingKey(c)
  <2> DEFINE y == Return([x EXCEPT !.vk = ViewingKeyOf(x.got), !.got = None, !.inView = FALSE],
                         "view", "haveVk")
  <2>1. Left(x) = 21
    BY <1>1, <1>8 DEF StoreViewingKey, Left, FrameRank
  <2>2. Left(y) = 16
    BY <1>1 DEF Return, CallState, Left
  <2> QED BY <1>2, <1>8, <2>1, <2>2 DEF StoreViewingKey
<1>9. CASE ResumeWithEncryptionKey(c)
  <2> DEFINE y == [x EXCEPT !.sk = x.got, !.got = None]
  <2>1. /\ y.pc = "haveSk" /\ ~y.inView /\ y.op = x.op /\ y \in CallState
        /\ x.pc = "haveSk" /\ ~x.inView
    BY <1>1, <1>9 DEF ResumeWithEncryptionKey, CallState, SkValue
  <2>2. Left(x) = IF x.op = "getTransactionHistory" THEN 11 ELSE 31
    BY <2>1 DEF Left, FrameRank
  <2>3. /\ Left([y EXCEPT !.pc = "submitting"]) = 2
        /\ Left([y EXCEPT !.pc = "reading"]) = 1
    BY <2>1 DEF Left, CallState
  <2>4. x.op = "registerViewingKey" => Left(LookUp(y, "view")) < Left(x)
    BY <1>4, <2>1, <2>2 DEF FrameRank
  <2>5. \/ Becomes(c, Idle)
        \/ x.op = "registerViewingKey" /\ Becomes(c, LookUp(y, "view"))
        \/ Becomes(c, [y EXCEPT !.pc = "submitting"])
        \/ Becomes(c, [y EXCEPT !.pc = "reading"])
    BY <1>9, <2>1 DEF ResumeWithEncryptionKey
  <2> HIDE DEF y
  <2> QED BY <1>2, <1>3, <2>2, <2>3, <2>4, <2>5
<1>10. CASE ResumeWithViewingKey(c)
  <2>1. x.pc = "haveVk" /\ ~x.inView /\ Left(x) = 16
    BY <1>1, <1>10 DEF ResumeWithViewingKey, WellFormed, Left, CallState
  <2>2. Left([x EXCEPT !.pc = "submitting"]) = 2
    BY <1>1 DEF Left, CallState
  <2>3. x.op = "getTransactionHistory" => Left(LookUp(x, "enc")) < Left(x)
    BY <1>1, <1>4, <2>1 DEF FrameRank
  <2> QED BY <1>2, <1>3, <1>10, <2>1, <2>2, <2>3 DEF ResumeWithViewingKey
<1>11. CASE ReadRegistered(c)
  <2> DEFINE y == Return([x EXCEPT !.isRegistered = TRUE], "check", "answered")
  <2> DEFINE z == [x EXCEPT !.pc = "asking"]
  <2>1. x.pc = "resolved" /\ x.frame = "check" /\ Left(x) = 33
    BY <1>1, <1>11 DEF ReadRegistered, At, Left, FrameRank
  <2>2. Left(y) = 31
    BY <1>1 DEF Return, CallState, Left
  <2>3. Left(z) = 32
    BY <1>1, <2>1 DEF CallState, Left, FrameRank
  <2>4. Becomes(c, y) \/ Becomes(c, z)
    BY <1>11 DEF ReadRegistered
  <2> QED BY <1>2, <2>1, <2>2, <2>3, <2>4
<1>12. CASE ResumeAnswered(c)
  <2>1. x.pc = "answered" /\ ~x.inView /\ Left(x) = 31
    BY <1>1, <1>12 DEF ResumeAnswered, WellFormed, Left, CallState
  <2>2. x.op = "getTransactionHistory" =>
            Left(LookUp(x, "view")) < Left(x) /\ Left(LookUp(x, "enc")) < Left(x)
    BY <1>1, <1>4, <2>1 DEF FrameRank
  <2> QED BY <1>2, <1>3, <1>12, <2>2 DEF ResumeAnswered
<1> QED BY <1>5, <1>6, <1>7, <1>8, <1>9, <1>10, <1>11, <1>12 DEF Continue

(* So does a reply, whether an answer or a failure.                         *)
LEMMA ReplyLeavesFewer ==
    ASSUME TypeInv, NEW c \in Calls, Reply(c)
    PROVE  Left(call'[c]) < Left(call[c])
<1> DEFINE x == call[c]
<1>1. x \in CallState /\ WellFormed(x) /\ x.pc # "idle"
  BY DEF TypeInv, TypeOK, CallsWellFormed, Reply, FetchReply, Reject, SignReply,
         DirectoryReply, SubmitReply, SubmitReplyLost, ReadReply, Replied, Awaiting
<1>2. \A y : Becomes(c, y) => call'[c] = y
  BY DEF Becomes, TypeInv, TypeOK
<1>3. Left(Idle) = 0 /\ Left(x) \in 1..39
  BY <1>1, LeftBounded DEF Left, Idle
<1>4. \A f \in Frames : FrameRank(x, f) \in 2..7
  BY DEF FrameRank
<1>5. ASSUME NEW e \in Entries, FetchReply(c, e) PROVE Left(call'[c]) < Left(x)
  <2> DEFINE y == [x EXCEPT !.ref[x.frame] = e, !.pc = "resolved"]
  <2>1. /\ x.pc = "fetching" /\ x.frame \in Frames
        /\ y.pc = "resolved" /\ y.frame = x.frame /\ y.inView = x.inView /\ y.op = x.op
    BY <1>1, <1>5 DEF FetchReply, Replied, CallState
  <2>2. FrameRank(y, x.frame) = FrameRank(x, x.frame)
    BY <2>1 DEF FrameRank
  <2>3. call'[c] = y
    BY <1>2, <1>5 DEF FetchReply
  <2> HIDE DEF y
  <2> QED BY <1>4, <2>1, <2>2, <2>3 DEF Left
<1>6. CASE Reject(c)
  <2> DEFINE y == [Idle EXCEPT !.op = x.op, !.vault = x.vault, !.pc = "reading",
                               !.vk = x.vk, !.overlapped = x.overlapped]
  <2>1. Left(y) = 1
    BY DEF Left, Idle
  <2>2. x.pc # "reading" => Left(x) > 1
    BY <1>1, <1>4 DEF Left, CallState, Frames
  <2>3. call'[c] = Idle \/ (x.pc # "reading" /\ call'[c] = y)
    BY <1>2, <1>6 DEF Reject, Thrown
  <2> HIDE DEF y
  <2> QED BY <1>3, <2>1, <2>2, <2>3
<1>7. ASSUME NEW s \in Sigs, SignReply(c, s) PROVE Left(call'[c]) < Left(x)
  <2> DEFINE y == Return([x EXCEPT !.got = EncryptionKeyOf(x.vault, s)], "enc", "haveSk")
  <2>1. /\ x.pc = "signing" /\ x.frame = "enc"
        /\ y.pc = "haveSk" /\ y.inView = x.inView /\ y.op = x.op
    BY <1>1, <1>7 DEF SignReply, Replied, WellFormed, Return, CallState
  <2>2. FrameRank(y, "enc") = FrameRank(x, "enc") /\ FrameRank(x, "enc") \in 2..7
    BY <2>1 DEF FrameRank
  <2>3. call'[c] = y
    BY <1>2, <1>7 DEF SignReply
  <2> HIDE DEF y
  <2> QED BY <2>1, <2>2, <2>3 DEF Left
<1>8. CASE DirectoryReply(c)
  <2> DEFINE y == Return([x EXCEPT !.isRegistered = Registered(x.vault)], "check", "answered")
  <2>1. Left(x) = 32
    BY <1>1, <1>8 DEF DirectoryReply, Replied, WellFormed, Left, FrameRank
  <2>2. Left(y) = 31
    BY <1>1 DEF Return, CallState, Left
  <2>3. call'[c] = y
    BY <1>2, <1>8 DEF DirectoryReply
  <2> QED BY <2>1, <2>2, <2>3
<1>9. CASE SubmitReply(c) \/ SubmitReplyLost(c) \/ ReadReply(c)
  BY <1>2, <1>3, <1>9 DEF SubmitReply, SubmitReplyLost, ReadReply
<1> QED BY <1>5, <1>6, <1>7, <1>8, <1>9 DEF Reply

(* The other calls, shutdown() and the chain leave a call that has begun as *)
(* many.                                                                    *)
LEMMA OthersLeaveAsMany ==
    ASSUME TypeInv, NEW c \in Calls, call[c].pc # "idle", Next, ~Step(c)
    PROVE  Left(call'[c]) = Left(call[c])
<1>1. ASSUME NEW d \in Calls \ {c}, NEW y, Becomes(d, y) PROVE Left(call'[c]) = Left(call[c])
  BY <1>1 DEF Becomes, TypeInv, TypeOK
<1>2. CASE \E d \in Calls, o \in Ops, v \in Vaults : Call(d, o, v)
  BY <1>1, <1>2 DEF Call
<1>3. CASE \E d \in Calls \ {c} : Step(d)
  BY <1>1, <1>3
     DEF Step, Continue, ResumeOwn, ReadEncryptionKey, ReadViewingKey, StoreViewingKey,
         ResumeWithEncryptionKey, ResumeWithViewingKey, ReadRegistered, ResumeAnswered,
         Reply, FetchReply, Reject, SignReply, DirectoryReply, SubmitReply,
         SubmitReplyLost, ReadReply
<1>4. CASE Shutdown
  <2>1. call'[c] = [call[c] EXCEPT !.overlapped = call[c].pc # "idle"]
    BY <1>4 DEF Shutdown
  <2>2. /\ call'[c].pc = call[c].pc /\ call'[c].frame = call[c].frame
        /\ call'[c].inView = call[c].inView /\ call'[c].op = call[c].op
    BY <2>1 DEF TypeInv, TypeOK, CallState
  <2> QED BY <2>2 DEF Left, FrameRank
<1>5. CASE \E r \in pool : Mine(r) \/ Drop(r)
  BY <1>5 DEF Mine, Drop
<1> QED BY <1>2, <1>3, <1>4, <1>5 DEF Next

(* No call has more than 39 steps ahead of it, and only one that has ended  *)
(* has none.                                                                *)
CallsBounded ==
    \A c \in Calls : Left(call[c]) \in 0..39 /\ (Left(call[c]) = 0 <=> call[c].pc = "idle")

(* Each step of a call takes some from it, and no other step of the calls,  *)
(* the chain or shutdown() gives a running call any.                        *)
CallsRunOut ==
    \A c \in Calls :
        call[c].pc # "idle" => IF Step(c) THEN Left(call'[c]) < Left(call[c])
                                          ELSE Left(call'[c]) = Left(call[c])

(* What EveryCallSettles rests on: every path of continuations and replies, *)
(* through whichever caches, failures and shutdowns, comes to its end.      *)
THEOREM CallStepsRunOut == Spec => []CallsBounded /\ [][CallsRunOut]_vars
<1>1. TypeInv => CallsBounded
  BY LeftBounded DEF CallsBounded, TypeInv, TypeOK
<1>2. TypeInv /\ [Next]_vars => [CallsRunOut]_vars
  <2> SUFFICES ASSUME TypeInv, Next PROVE CallsRunOut
    OBVIOUS
  <2> QED BY ContinueLeavesFewer, ReplyLeavesFewer, OthersLeaveAsMany DEF CallsRunOut, Step
<1>3. Inv => TypeInv
  BY DEF Inv
<1> QED BY <1>1, <1>2, <1>3, InvAlways, PTL DEF Spec
=============================================================================
