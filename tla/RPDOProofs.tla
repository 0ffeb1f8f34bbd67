----------------------------- MODULE RPDOProofs -----------------------------
(***************************************************************************)
(* Proofs about RPDO, for every dictionary, every set of identifiers,      *)
(* mappings and messages.  Some need a careful client (see Configurable);  *)
(* each theorem names what it needs.                                       *)
(***************************************************************************)
EXTENDS RPDO, SequenceTheorems, WellFoundedInduction, TLAPS

(* What the operations take is of the type of the fields. *)
LEMMA ConstantTypes ==
    /\ \A m \in Mappings : m \in Seq(Var)
    /\ \A m \in Messages : m \in Seq(Value)
    /\ Types \subseteq 0..255
    /\ DefaultId \in CanId /\ ForeignId \subseteq CanId \ {DefaultId}
  BY MappingsAssumption, MessagesAssumption, TypesAssumption,
     DefaultIdAssumption, ForeignIdAssumption

-----------------------------------------------------------------------------
(* Types *)

LEMMA MappingTypes ==
    ASSUME NEW r \in Fields, NEW s \in [CanId -> Owners], NEW state
    PROVE  /\ Deactivated(r) \in Fields /\ Activated(r, state) \in Fields
           /\ Unsubscribed(r, s) \in [CanId -> Owners]
           /\ Subscribed(r, s, state) \in [CanId -> Owners]
<1>1. Synchronous(r.type) \in BOOLEAN
  BY DEF Synchronous
<1>2. Deactivated(r) \in Fields /\ Activated(r, state) \in Fields
  BY <1>1 DEF Deactivated, Activated, Fields
<1> QED
  BY <1>2 DEF Unsubscribed, Subscribed, Owners

LEMMA ReplaceTypes ==
    ASSUME rp \in Fields, subs \in [CanId -> Owners],
           NEW new \in Fields, Replace(new)
    PROVE  rp' \in Fields /\ subs' \in [CanId -> Owners]
<1>1. /\ Deactivated(rp) \in Fields
      /\ Unsubscribed(rp, subs) \in [CanId -> Owners]
  BY MappingTypes
<1>2. /\ Activated(new, nmt) \in Fields
      /\ Subscribed(new, Unsubscribed(rp, subs), nmt) \in [CanId -> Owners]
  BY <1>1, MappingTypes
<1> QED
  BY <1>1, <1>2 DEF Replace, Activate, Deactivate

(* A set of positions in a message has a last one. *)
LEMMA PositionsHaveLast ==
    ASSUME NEW n \in Nat, NEW S \in SUBSET (1..n), S # {}
    PROVE  \E m \in S : \A i \in S : i <= m
<1> DEFINE T == {n - i : i \in S}
<1>1. T \subseteq Nat /\ T # {}
  OBVIOUS
<1>2. PICK k \in T : \A l \in T : <<l, k>> \notin OpToRel(<, Nat)
  <2> HIDE DEF T
  <2> QED
    BY <1>1, NatLessThanWellFounded, WFMin
<1>3. \A l \in T : ~(l < k)
  BY <1>1, <1>2 DEF OpToRel
<1>4. PICK m \in S : k = n - m
  OBVIOUS
<1>5. \A i \in S : ~(n - i < n - m)
  BY <1>3, <1>4
<1> QED
  BY <1>5

(* What a message writes to a variable is one of its values for it. *)
LEMMA WrittenValue ==
    ASSUME NEW msg \in Seq(Value), NEW v, Writes(msg, v) # {}
    PROVE  (CHOOSE i \in Writes(msg, v) : \A j \in Writes(msg, v) : j <= i)
             \in Writes(msg, v)
<1>1. Writes(msg, v) \in SUBSET (1..Len(msg)) /\ Len(msg) \in Nat
  BY LenProperties DEF Writes
<1>2. \E i \in Writes(msg, v) : \A j \in Writes(msg, v) : j <= i
  BY <1>1, PositionsHaveLast
<1> QED
  BY <1>2

LEMMA WriteDataTypes ==
    ASSUME TypeOK, NEW msg \in Seq(Value), WriteData(msg)
    PROVE  data' \in [Known -> Value] /\ report' \in BOOLEAN
<1>1. report' \in BOOLEAN
  BY DEF WriteData
<1>2. data \in [Known -> Value]
  BY DEF TypeOK, PDOTypeOK
<1>3. \A i \in DOMAIN msg : msg[i] \in Value
  BY ElementOfSeq, LenProperties
<1>4. ASSUME NEW v \in Known, Writes(msg, v) # {}
      PROVE  msg[CHOOSE i \in Writes(msg, v) :
                   \A j \in Writes(msg, v) : j <= i] \in Value
  BY <1>3, <1>4, WrittenValue DEF Writes
<1> QED
  BY <1>1, <1>2, <1>4 DEF WriteData

LEMMA ConfigureTypes ==
    ASSUME TypeOK, Configure
    PROVE  TypeOK'
<1>1. rp \in Fields /\ subs \in [CanId -> Owners]
  BY DEF TypeOK
<1>2. UNCHANGED <<nmt, data>> /\ report' = FALSE
  BY DEF Configure, DownloadCobId, SetEnable, Map, SetTransmissionType
<1>3. ASSUME NEW cob \in CobId, DownloadCobId(cob) PROVE TypeOK'
  <2> DEFINE r == [rp EXCEPT !.cob = cob]
  <2>1. r \in Fields
    BY <1>1 DEF Fields
  <2>2. rp' \in Fields /\ subs' \in [CanId -> Owners]
    BY <1>1, <1>3, <2>1, MappingTypes DEF DownloadCobId, Activate, Deactivate
  <2> QED
    BY <1>2, <1>3, <2>2 DEF TypeOK, PDOTypeOK, DownloadCobId
<1>4. ASSUME NEW value \in BOOLEAN, SetEnable(value) PROVE TypeOK'
  <2> DEFINE r == [rp EXCEPT !.cob.off = ~value]
  <2>1. r \in Fields /\ r.cob \in CobId
    BY <1>1 DEF Fields, CobId
  <2>2. rp' \in Fields /\ subs' \in [CanId -> Owners]
    BY <1>1, <1>4, <2>1, MappingTypes DEF SetEnable, Activate, Deactivate
  <2>3. odCob' = odCob \/ odCob' = r.cob
    BY <1>4 DEF SetEnable
  <2> QED
    BY <1>2, <2>1, <2>2, <2>3 DEF TypeOK, PDOTypeOK
<1>5. ASSUME NEW mapping \in Mappings, Map(mapping) PROVE TypeOK'
  <2>0. Deactivated(rp) \in Fields
    BY <1>1, MappingTypes
  <2>1. [Deactivated(rp) EXCEPT !.map = mapping] \in Fields
    BY <2>0, ConstantTypes DEF Fields
  <2>2. rp' \in Fields /\ subs' \in [CanId -> Owners]
    BY <1>1, <1>5, <2>1, ReplaceTypes DEF Map
  <2> QED
    BY <1>2, <1>5, <2>2 DEF TypeOK, PDOTypeOK, Map
<1>6. ASSUME NEW type \in Types, SetTransmissionType(type) PROVE TypeOK'
  <2>0. Deactivated(rp) \in Fields /\ type \in 0..255
    BY <1>1, MappingTypes, ConstantTypes
  <2>1. [Deactivated(rp) EXCEPT !.type = type] \in Fields
    BY <2>0 DEF Fields
  <2>2. rp' \in Fields /\ subs' \in [CanId -> Owners]
    BY <1>1, <1>6, <2>1, ReplaceTypes DEF SetTransmissionType
  <2> QED
    BY <1>2, <1>6, <2>2 DEF TypeOK, PDOTypeOK, SetTransmissionType
<1> QED
  BY <1>3, <1>4, <1>5, <1>6 DEF Configure

LEMMA NextTypes ==
    ASSUME TypeOK, [Next]_vars
    PROVE  TypeOK'
<1>1. rp \in Fields /\ subs \in [CanId -> Owners]
  BY DEF TypeOK
<1>2. ASSUME NEW state \in NmtStates, SetNmtState(state) PROVE TypeOK'
  <2> DEFINE r == [rp EXCEPT !.cob = OperationalCobId(@)]
  <2>0. OperationalCobId(rp.cob) \in CobId
    BY <1>1, ConstantTypes DEF Fields, OperationalCobId, CobId
  <2>1. r \in Fields
    BY <1>1, <2>0 DEF Fields
  <2>2. rp' \in Fields /\ subs' \in [CanId -> Owners]
    <3>1. \/ Activate(r, subs, state)
          \/ Deactivate(rp)
      BY <1>2 DEF SetNmtState
    <3> HIDE DEF r
    <3> QED
      BY <1>1, <2>1, <3>1, MappingTypes DEF Activate, Deactivate
  <2> QED
    BY <1>2, <2>2 DEF TypeOK, PDOTypeOK, SetNmtState
<1>3. ASSUME NEW id \in CanId, NEW msg \in Messages, HandleMsg(id, msg)
      PROVE  TypeOK'
  <2>1. rp' = rp \/ rp' = [rp EXCEPT !.pending = <<msg>>]
    BY <1>3 DEF HandleMsg
  <2>2. rp' \in Fields
    BY <1>1, <2>1 DEF Fields
  <2>3. \/ WriteData(msg)
        \/ report' = FALSE /\ UNCHANGED data
    BY <1>3 DEF HandleMsg
  <2>4. data' \in [Known -> Value] /\ report' \in BOOLEAN
    BY <2>3, WriteDataTypes, ConstantTypes DEF TypeOK, PDOTypeOK
  <2> QED
    BY <1>3, <2>2, <2>4 DEF TypeOK, PDOTypeOK, HandleMsg
<1>4. ASSUME Sync PROVE TypeOK'
  <2>1. rp' = rp \/ rp' = [rp EXCEPT !.pending = <<>>]
    BY <1>4 DEF Sync
  <2>2. rp' \in Fields
    BY <1>1, <2>1 DEF Fields
  <2>3. \E m \in Messages : rp.pending = <<m>>
    BY <1>1, <1>4 DEF Sync, Fields
  <2>4. PICK m \in Messages : rp.pending = <<m>>
    BY <2>3
  <2>5. data' \in [Known -> Value] /\ report' \in BOOLEAN
    BY <1>4, <2>4, WriteDataTypes, ConstantTypes DEF Sync
  <2> QED
    BY <1>4, <2>2, <2>5 DEF TypeOK, PDOTypeOK, Sync
<1>5. ASSUME NEW v \in Known, NEW value \in Value, Write(v, value)
      PROVE  TypeOK'
  BY <1>5 DEF TypeOK, PDOTypeOK, Write
<1>6. ASSUME NEW id \in ForeignId, NEW owner \in {"nobody", "other"},
             OtherService(id, owner)
      PROVE  TypeOK'
  <2>1. subs' \in [CanId -> Owners]
    BY <1>1, <1>6 DEF OtherService, Owners
  <2> QED
    BY <1>6, <2>1 DEF TypeOK, PDOTypeOK, OtherService
<1>7. CASE UNCHANGED vars
  BY <1>7 DEF TypeOK, PDOTypeOK, vars
<1> QED
  BY <1>2, <1>3, <1>4, <1>5, <1>6, <1>7, ConfigureTypes DEF Next

(* Every field keeps its type, whatever is configured and received.        *)
THEOREM TypeCorrect == Spec => []TypeOK
<1>1. Init => TypeOK
  <2> SUFFICES ASSUME Init PROVE TypeOK
    OBVIOUS
  <2>1. rp \in Fields /\ odCob \in CobId
    BY ConstantTypes, PredefinedAssumption DEF Init, Fields, CobId
  <2>2. subs \in [CanId -> Owners]
    BY DEF Init, Owners
  <2> QED
    BY <2>1, <2>2 DEF Init, PDOInit, NmtStates, TypeOK, PDOTypeOK
<1>2. TypeOK /\ [Next]_vars => TypeOK'
  BY NextTypes
<1> QED
  BY <1>1, <1>2, PTL DEF Spec

-----------------------------------------------------------------------------
(* The mapping.  An active mapping has a usable configuration.  When only  *)
(* the COB-ID of an inactive mapping changes, the RPDO has no subscription *)
(* but that of its COB-ID.  When in addition the identifiers of other      *)
(* services are not configured as valid, it does have that one.            *)

Consistent(r, s, state) ==
    /\ r \in Fields /\ s \in [CanId -> Owners] /\ state \in NmtStates
    /\ r.listening <=> r.active /\ Synchronous(r.type)
    /\ r.active => Usable(r.cob, r.map, state)
    /\ "active" \notin Careless =>
         \A id \in CanId : s[id] = "rpdo" => r.active /\ id = r.cob.id
    /\ Careless = {} => /\ r.active => s[r.cob.id] = "rpdo"
                        /\ r.cob.id \in ForeignId => r.cob.off

(* What both halves of an operation build on: a deactivated mapping leaves *)
(* no subscription.                                                        *)
LEMMA DeactivatedConsistent ==
    ASSUME NEW r, NEW s, NEW state, Consistent(r, s, state)
    PROVE  /\ \A t \in NmtStates :
                Consistent(Deactivated(r), Unsubscribed(r, s), t)
           /\ ~Deactivated(r).active
<1>1. r \in Fields /\ s \in [CanId -> Owners] /\ r.cob.id \in CanId
  BY DEF Consistent, Fields, CobId
<1>2. r.active \in BOOLEAN
  BY <1>1 DEF Fields
<1>3. CASE r.active
  <2> DEFINE d == [r EXCEPT !.active = FALSE, !.listening = FALSE]
             u == [s EXCEPT ![r.cob.id] = "nobody"]
  <2>1. /\ d \in Fields /\ ~d.active /\ ~d.listening
        /\ d.cob = r.cob /\ d.map = r.map
    BY <1>1 DEF Fields
  <2>2. u \in [CanId -> Owners]
    BY <1>1 DEF Owners
  <2>3. "active" \notin Careless => \A id \in CanId : u[id] # "rpdo"
    BY <1>1, <1>3 DEF Consistent
  <2>4. \A t \in NmtStates : Consistent(d, u, t)
    BY <2>1, <2>2, <2>3 DEF Consistent
  <2> QED
    BY <1>3, <2>1, <2>4 DEF Deactivated, Unsubscribed
<1>4. CASE ~r.active
  <2>1. \A t \in NmtStates : Consistent(r, s, t)
    BY <1>4 DEF Consistent
  <2> QED
    BY <1>4, <2>1 DEF Deactivated, Unsubscribed
<1> QED
  BY <1>2, <1>3, <1>4

LEMMA ActivatedConsistent ==
    ASSUME NEW r, NEW s, NEW state, Consistent(r, s, state)
    PROVE  Consistent(Activated(r, state), Subscribed(r, s, state), state)
<1>1. r \in Fields /\ s \in [CanId -> Owners] /\ r.cob.id \in CanId
  BY DEF Consistent, Fields, CobId
<1>2. CASE Activates(r, state)
  <2> DEFINE a == [r EXCEPT !.active = TRUE, !.listening = Synchronous(r.type)]
             u == [s EXCEPT ![r.cob.id] = "rpdo"]
  <2>1. Synchronous(r.type) \in BOOLEAN
    BY DEF Synchronous
  <2>2. /\ a \in Fields /\ a.active /\ a.listening = Synchronous(r.type)
        /\ a.cob = r.cob /\ a.map = r.map /\ a.type = r.type
    BY <1>1, <2>1 DEF Fields
  <2>3. u \in [CanId -> Owners]
    BY <1>1 DEF Owners
  <2>4. ~r.active /\ Usable(r.cob, r.map, state)
    BY <1>2 DEF Activates
  <2>5. "active" \notin Careless =>
          \A id \in CanId : u[id] = "rpdo" => id = r.cob.id
    BY <1>1, <2>4 DEF Consistent
  <2>6. u[r.cob.id] = "rpdo"
    BY <1>1
  <2>7. Consistent(a, u, state)
    BY <2>2, <2>3, <2>4, <2>5, <2>6 DEF Consistent
  <2> QED
    BY <1>2, <2>7 DEF Activated, Subscribed
<1>3. CASE ~Activates(r, state)
  BY <1>3 DEF Activated, Subscribed
<1> QED
  BY <1>2, <1>3

(* A field of an inactive mapping is changed. *)
LEMMA InactiveConsistent ==
    ASSUME NEW r, NEW s, NEW state, Consistent(r, s, state), ~r.active,
           NEW q \in Fields, ~q.active, ~q.listening,
           Careless = {} => (q.cob.id \in ForeignId => q.cob.off)
    PROVE  Consistent(q, s, state)
  BY DEF Consistent

-----------------------------------------------------------------------------
(* Operations.  What the invariant says of the rest of the state.          *)

Ledger == Consistent(rp, subs, nmt)

LEMMA ActivateLedger ==
    ASSUME NEW r, NEW s, NEW state, Consistent(r, s, state),
           Activate(r, s, state), nmt' = state
    PROVE  Ledger'
  BY ActivatedConsistent DEF Activate, Ledger

LEMMA DeactivateLedger ==
    ASSUME NEW r, NEW state \in NmtStates, Consistent(r, subs, nmt),
           Deactivate(r), nmt' = state
    PROVE  Ledger'
  BY DeactivatedConsistent DEF Deactivate, Ledger

LEMMA ReplaceLedger ==
    ASSUME Ledger, NEW new \in Fields, Replace(new), UNCHANGED nmt,
           ~new.active, ~new.listening, new.cob = rp.cob
    PROVE  Ledger'
<1>1. /\ nmt \in NmtStates
      /\ Consistent(Deactivated(rp), Unsubscribed(rp, subs), nmt)
      /\ ~Deactivated(rp).active
  BY DeactivatedConsistent DEF Ledger, Consistent
<1>2. Careless = {} => (new.cob.id \in ForeignId => new.cob.off)
  BY DEF Ledger, Consistent
<1>3. Consistent(new, Unsubscribed(rp, subs), nmt)
  BY <1>1, <1>2, InactiveConsistent
<1>4. CASE RemovalRaises(rp, subs)
  BY <1>1, <1>4, DeactivateLedger DEF Replace, Ledger
<1>5. CASE ~RemovalRaises(rp, subs)
  BY <1>1, <1>3, <1>5, ActivateLedger DEF Replace
<1> QED
  BY <1>4, <1>5

LEMMA SetNmtStateLedger ==
    ASSUME Ledger, NEW state \in NmtStates, SetNmtState(state)
    PROVE  Ledger'
<1> USE DEF Ledger
<1>1. rp \in Fields /\ nmt \in NmtStates /\ nmt' = state /\ state # nmt
  BY DEF Consistent, SetNmtState
<1>2. CASE state = "OPERATIONAL"
  <2> DEFINE r == [rp EXCEPT !.cob = OperationalCobId(@)]
  <2>1. ~rp.active
    BY <1>1, <1>2 DEF Consistent, Usable
  <2>2. /\ OperationalCobId(rp.cob) \in CobId
        /\ Careless = {} =>
             (OperationalCobId(rp.cob).id \in ForeignId => rp.cob.off)
        /\ OperationalCobId(rp.cob).off = rp.cob.off
    BY <1>1, ConstantTypes DEF OperationalCobId, Fields, CobId, Consistent
  <2>3. /\ r \in Fields /\ ~r.active /\ r.listening = rp.listening
        /\ r.cob = OperationalCobId(rp.cob)
    BY <1>1, <2>1, <2>2 DEF Fields
  <2>4. ~rp.listening
    BY <2>1 DEF Consistent
  <2>5. Consistent(r, subs, nmt)
    BY <2>1, <2>2, <2>3, <2>4, InactiveConsistent
  <2>6. Consistent(r, subs, state)
    BY <2>5, <2>3 DEF Consistent
  <2>7. Activate(r, subs, state)
    BY <1>2 DEF SetNmtState
  <2> QED
    BY <1>1, <2>6, <2>7, ActivateLedger
<1>3. CASE state # "OPERATIONAL"
  <2>1. Deactivate(rp)
    BY <1>3 DEF SetNmtState
  <2> QED
    BY <1>1, <2>1, DeactivateLedger
<1> QED
  BY <1>2, <1>3

(* The COB-ID changes: while the mapping is inactive, in its validity      *)
(* only, or, when the client is careless, at any time.                     *)
LEMMA DownloadCobIdLedger ==
    ASSUME Ledger, NEW cob \in CobId, Configurable(cob), DownloadCobId(cob)
    PROVE  Ledger'
<1> USE DEF Ledger
<1> DEFINE r == [rp EXCEPT !.cob = cob]
<1>1. /\ rp \in Fields /\ nmt' = nmt /\ nmt \in NmtStates
      /\ "active" \notin Careless /\ rp.active => cob.id = rp.cob.id
  BY DEF Consistent, DownloadCobId, Configurable
<1>2. /\ r \in Fields /\ r.active = rp.active /\ r.listening = rp.listening
      /\ r.cob = cob /\ r.map = rp.map /\ r.type = rp.type
  BY <1>1 DEF Fields
<1>3. Careless = {} => (cob.id \in ForeignId => cob.off)
  BY DEF Configurable
<1>4. CASE ~rp.active
  <2>1. ~rp.listening
    BY <1>4 DEF Consistent
  <2>2. Consistent(r, subs, nmt)
    BY <1>2, <1>3, <1>4, <2>1, InactiveConsistent
  <2> QED
    BY <1>1, <2>2, ActivateLedger, DeactivateLedger DEF DownloadCobId
<1>5. CASE rp.active /\ ~cob.off
  <2>1. Consistent(r, subs, nmt)
    BY <1>1, <1>2, <1>3, <1>5 DEF Consistent, Usable
  <2> QED
    BY <1>1, <1>5, <2>1, ActivateLedger DEF DownloadCobId
<1>6. CASE rp.active /\ cob.off
  <2>1. Deactivate(r)
    BY <1>6 DEF DownloadCobId
  <2>2. /\ rp' = [r EXCEPT !.active = FALSE, !.listening = FALSE]
        /\ subs' = [subs EXCEPT ![cob.id] = "nobody"]
    BY <1>1, <1>2, <1>6, <2>1 DEF Deactivate, Deactivated, Unsubscribed
  <2>3. /\ rp' \in Fields /\ ~rp'.active /\ ~rp'.listening /\ rp'.cob = cob
    BY <1>2, <2>2 DEF Fields
  <2>4. subs' \in [CanId -> Owners]
    BY <2>2 DEF Consistent, Owners
  <2>5. "active" \notin Careless => \A id \in CanId : subs'[id] # "rpdo"
    BY <1>1, <1>6, <2>2 DEF Consistent
  <2>6. Consistent(rp', subs', nmt)
    BY <1>1, <1>3, <2>3, <2>4, <2>5 DEF Consistent
  <2> QED
    BY <1>1, <2>6
<1> QED
  BY <1>1, <1>4, <1>5, <1>6 DEF Fields

LEMMA SetEnableLedger ==
    ASSUME Ledger, NEW value \in BOOLEAN, SetEnable(value),
           Configurable([rp.cob EXCEPT !.off = ~value])
    PROVE  Ledger'
<1> USE DEF Ledger
<1> DEFINE r == [rp EXCEPT !.cob.off = ~value]
<1>1. rp \in Fields /\ nmt' = nmt /\ nmt \in NmtStates
  BY DEF Consistent, SetEnable
<1>2. /\ r \in Fields /\ r.active = rp.active /\ r.listening = rp.listening
      /\ r.cob.off = ~value /\ r.cob.id = rp.cob.id
      /\ r.map = rp.map /\ r.type = rp.type
      /\ r.cob = [rp.cob EXCEPT !.off = ~value]
  BY <1>1 DEF Fields, CobId
<1> HIDE DEF r
<1>3. CASE value
  <2>1. Consistent(r, subs, nmt)
    BY <1>1, <1>2, <1>3 DEF Consistent, Usable, Configurable
  <2>2. Activate(r, subs, nmt)
    BY <1>3 DEF SetEnable, r
  <2> QED
    BY <1>1, <2>1, <2>2, ActivateLedger
<1>4. CASE ~value
  <2>1. Deactivate(r)
    BY <1>4 DEF SetEnable, r
  <2>2. /\ Consistent(Deactivated(rp), Unsubscribed(rp, subs), nmt)
        /\ ~Deactivated(rp).active
    BY <1>1, DeactivatedConsistent
  <2>3. /\ subs' = Unsubscribed(rp, subs)
        /\ rp' = Deactivated(r)
    BY <1>2, <2>1 DEF Deactivate, Unsubscribed
  <2>4. /\ rp' \in Fields /\ ~rp'.active /\ ~rp'.listening
        /\ rp'.cob.off
    <3>1. ~rp.active => ~rp.listening
      BY DEF Consistent
    <3> QED
      BY <1>2, <1>4, <2>3, <3>1 DEF Deactivated, Fields
  <2>5. Consistent(rp', subs', nmt)
    BY <2>2, <2>3, <2>4, InactiveConsistent
  <2> QED
    BY <1>1, <2>5
<1> QED
  BY <1>3, <1>4

LEMMA MapLedger ==
    ASSUME Ledger, NEW mapping \in Mappings, Map(mapping)
    PROVE  Ledger'
<1> DEFINE new == [Deactivated(rp) EXCEPT !.map = mapping]
<1>1. /\ Deactivated(rp) \in Fields /\ ~Deactivated(rp).active
      /\ ~Deactivated(rp).listening /\ Deactivated(rp).cob = rp.cob
  BY DEF Ledger, Consistent, Deactivated, Fields
<1>2. /\ new \in Fields /\ ~new.active /\ ~new.listening
      /\ new.cob = rp.cob
  BY <1>1, ConstantTypes DEF Fields
<1>3. Replace(new) /\ UNCHANGED nmt
  BY DEF Map
<1> HIDE DEF new
<1> QED
  BY <1>2, <1>3, ReplaceLedger

LEMMA SetTransmissionTypeLedger ==
    ASSUME Ledger, NEW type \in Types, SetTransmissionType(type)
    PROVE  Ledger'
<1> DEFINE new == [Deactivated(rp) EXCEPT !.type = type]
<1>1. /\ Deactivated(rp) \in Fields /\ ~Deactivated(rp).active
      /\ ~Deactivated(rp).listening /\ Deactivated(rp).cob = rp.cob
  BY DEF Ledger, Consistent, Deactivated, Fields
<1>2. type \in 0..255
  BY ConstantTypes
<1>3. /\ new \in Fields /\ ~new.active /\ ~new.listening
      /\ new.cob = rp.cob
  BY <1>1, <1>2 DEF Fields
<1>4. Replace(new) /\ UNCHANGED nmt
  BY DEF SetTransmissionType
<1> HIDE DEF new
<1> QED
  BY <1>3, <1>4, ReplaceLedger

(* Messages and SYNCs change at most the message held back. *)
LEMMA PendingLedger ==
    ASSUME Ledger, UNCHANGED <<nmt, subs>>,
           NEW p \in {<<>>} \cup {<<m>> : m \in Messages},
           rp' = rp \/ rp' = [rp EXCEPT !.pending = p]
    PROVE  Ledger'
<1>1. rp \in Fields
  BY DEF Ledger, Consistent
<1>2. /\ rp' \in Fields /\ rp'.active = rp.active /\ rp'.type = rp.type
      /\ rp'.listening = rp.listening /\ rp'.cob = rp.cob /\ rp'.map = rp.map
  BY <1>1 DEF Fields
<1> QED
  BY <1>2 DEF Ledger, Consistent

LEMMA HandleMsgLedger ==
    ASSUME Ledger, NEW id \in CanId, NEW msg \in Messages, HandleMsg(id, msg)
    PROVE  Ledger'
<1>1. rp' = rp \/ rp' = [rp EXCEPT !.pending = <<msg>>]
  BY DEF HandleMsg
<1>2. UNCHANGED <<nmt, subs>>
  BY DEF HandleMsg
<1> QED
  BY <1>1, <1>2, PendingLedger

LEMMA SyncLedgerKept ==
    ASSUME Ledger, Sync
    PROVE  Ledger'
<1>1. rp' = rp \/ rp' = [rp EXCEPT !.pending = <<>>]
  BY DEF Sync
<1>2. UNCHANGED <<nmt, subs>>
  BY DEF Sync
<1> QED
  BY <1>1, <1>2, PendingLedger

(* Another service changes the subscription of its own identifier. *)
LEMMA OtherServiceLedger ==
    ASSUME Ledger, NEW id \in ForeignId, NEW owner \in {"nobody", "other"},
           OtherService(id, owner)
    PROVE  Ledger'
<1>1. /\ rp \in Fields /\ subs \in [CanId -> Owners] /\ id \in CanId
      /\ rp' = rp /\ nmt' = nmt /\ subs' = [subs EXCEPT ![id] = owner]
  BY ConstantTypes DEF Ledger, Consistent, OtherService
<1>2. subs' \in [CanId -> Owners]
  BY <1>1 DEF Owners
<1>3. \A i \in CanId : subs'[i] = "rpdo" => subs[i] = "rpdo"
  BY <1>1
<1>4. Careless = {} /\ rp.active => subs'[rp.cob.id] = subs[rp.cob.id]
  BY <1>1 DEF Ledger, Consistent, Usable
<1> QED
  BY <1>1, <1>2, <1>3, <1>4 DEF Ledger, Consistent

LEMMA InitLedger ==
    ASSUME Init
    PROVE  Ledger
<1>1. /\ rp.cob = [off |-> ~Predefined, id |-> DefaultId] /\ ~rp.active
      /\ ~rp.listening
  BY DEF Init
<1>2. rp \in Fields
  BY ConstantTypes, PredefinedAssumption DEF Init, Fields, CobId
<1>3. /\ subs \in [CanId -> Owners]
      /\ \A id \in CanId : subs[id] # "rpdo"
  BY DEF Init, Owners
<1>4. nmt \in NmtStates
  BY DEF Init, PDOInit, NmtStates
<1> QED
  BY <1>1, <1>2, <1>3, <1>4, ConstantTypes DEF Ledger, Consistent

LEMMA NextLedger ==
    ASSUME Ledger, [Next]_vars
    PROVE  Ledger'
<1>1. ASSUME NEW state \in NmtStates, SetNmtState(state) PROVE Ledger'
  BY <1>1, SetNmtStateLedger
<1>2. CASE Configure
  BY <1>2, DownloadCobIdLedger, SetEnableLedger, MapLedger,
     SetTransmissionTypeLedger DEF Configure
<1>3. ASSUME NEW id \in CanId, NEW msg \in Messages, HandleMsg(id, msg)
      PROVE  Ledger'
  BY <1>3, HandleMsgLedger
<1>4. CASE Sync
  BY <1>4, SyncLedgerKept
<1>5. ASSUME NEW v \in Known, NEW value \in Value, Write(v, value)
      PROVE  Ledger'
  BY <1>5 DEF Write, Ledger
<1>6. CASE UNCHANGED vars
  BY <1>6 DEF vars, Ledger
<1> QED
  BY <1>1, <1>2, <1>3, <1>4, <1>5, <1>6, OtherServiceLedger DEF Next

LEMMA SpecLedger == Spec => []Ledger
<1>1. Init => Ledger
  BY InitLedger
<1>2. Ledger /\ [Next]_vars => Ledger'
  BY NextLedger
<1> QED
  BY <1>1, <1>2, PTL DEF Spec

-----------------------------------------------------------------------------
(* The subscriptions of the network are those of the configuration.        *)

(* The RPDO is subscribed to its COB-ID while its mapping is active, and   *)
(* to nothing else, if its identifier changes only while the mapping is    *)
(* inactive and is never a valid one of another service.                   *)
THEOREM SubscriptionsFit ==
    ASSUME Careless = {}
    PROVE  Spec => []SubscriptionLedger
<1>1. Ledger => SubscriptionLedger
  BY DEF Ledger, Consistent, SubscriptionLedger
<1> QED
  BY <1>1, SpecLedger, PTL

(* It listens to SYNCs only while a synchronous mapping is active, however *)
(* it is configured.                                                       *)
THEOREM SyncsFit == Spec => []SyncLedger
<1>1. Ledger => SyncLedger
  BY DEF Ledger, Consistent, SyncLedger
<1> QED
  BY <1>1, SpecLedger, PTL

(* The assertion of _write_data holds when the identifier of an active     *)
(* RPDO is left alone, even if it is one of another service; run           *)
(* RPDOAssertion shows that it does not otherwise.                         *)
THEOREM MessagesFindMapping ==
    ASSUME "active" \notin Careless
    PROVE  Spec => []AssertionHolds
<1>1. Ledger => AssertionHolds
  BY DEF Ledger, Consistent, AssertionHolds
<1> QED
  BY <1>1, SpecLedger, PTL

-----------------------------------------------------------------------------
(* Other services *)

LEMMA ActivateSpares ==
    ASSUME Careless = {}, NEW r, NEW s, NEW state, Consistent(r, s, state),
           Activate(r, s, state), NEW id \in ForeignId
    PROVE  subs'[id] = s[id]
<1>1. /\ s \in [CanId -> Owners]
      /\ Activates(r, state) => r.cob.id # id
  BY DEF Consistent, Activates, Usable
<1> QED
  BY <1>1 DEF Activate, Subscribed

LEMMA UnsubscribedSpares ==
    ASSUME Careless = {}, NEW r, NEW s, NEW state, Consistent(r, s, state),
           NEW id \in ForeignId
    PROVE  Unsubscribed(r, s)[id] = s[id]
<1>1. /\ s \in [CanId -> Owners]
      /\ r.active => r.cob.id # id
  BY DEF Consistent, Usable
<1> QED
  BY <1>1 DEF Unsubscribed

LEMMA ReplaceSpares ==
    ASSUME Careless = {}, Ledger, NEW new \in Fields, Replace(new),
           ~new.active, ~new.listening, new.cob = rp.cob, NEW id \in ForeignId
    PROVE  subs'[id] = subs[id]
<1>1. /\ nmt \in NmtStates
      /\ Consistent(Deactivated(rp), Unsubscribed(rp, subs), nmt)
      /\ ~Deactivated(rp).active
  BY DeactivatedConsistent DEF Ledger, Consistent
<1>2. new.cob.id \in ForeignId => new.cob.off
  BY DEF Ledger, Consistent
<1>3. Consistent(new, Unsubscribed(rp, subs), nmt)
  BY <1>1, <1>2, InactiveConsistent
<1>4. Unsubscribed(rp, subs)[id] = subs[id]
  BY UnsubscribedSpares DEF Ledger
<1>5. CASE RemovalRaises(rp, subs)
  BY <1>4, <1>5 DEF Replace, Deactivate
<1>6. CASE ~RemovalRaises(rp, subs)
  <2>1. subs'[id] = Unsubscribed(rp, subs)[id]
    BY <1>3, <1>6, ActivateSpares DEF Replace
  <2> QED
    BY <1>4, <2>1
<1> QED
  BY <1>5, <1>6

(* A valid COB-ID is not one of another service, and one that is not valid *)
(* comes with the identifier of the active mapping.                        *)
LEMMA CobIdSpares ==
    ASSUME Careless = {}, Ledger, NEW cob \in CobId, Configurable(cob),
           NEW id \in ForeignId,
           \/ Activate([rp EXCEPT !.cob = cob], subs, nmt) /\ ~cob.off
           \/ Deactivate([rp EXCEPT !.cob = cob])
    PROVE  subs'[id] = subs[id]
<1> DEFINE r == [rp EXCEPT !.cob = cob]
<1>1. rp \in Fields /\ subs \in [CanId -> Owners]
  BY DEF Ledger, Consistent
<1>2. /\ r.cob = cob /\ r.active = rp.active
      /\ rp.active => cob.id = rp.cob.id /\ rp.cob.id \notin ForeignId
      /\ ~cob.off => cob.id \notin ForeignId
  BY <1>1 DEF Ledger, Consistent, Configurable, Usable, Fields
<1>3. \/ subs' = Subscribed(r, subs, nmt) /\ ~cob.off
      \/ subs' = Unsubscribed(r, subs)
  BY DEF Activate, Deactivate
<1> HIDE DEF r
<1>4. id \in CanId /\ (r.active => cob.id # id) /\ (~cob.off => cob.id # id)
  BY <1>2, ConstantTypes
<1> QED
  BY <1>1, <1>2, <1>3, <1>4 DEF Subscribed, Unsubscribed

LEMMA ConfigureSpares ==
    ASSUME Careless = {}, Ledger, Configure, NEW id \in ForeignId
    PROVE  subs'[id] = subs[id]
<1>1. rp \in Fields
  BY DEF Ledger, Consistent
<1>2. ASSUME NEW cob \in CobId, Configurable(cob), DownloadCobId(cob)
      PROVE  subs'[id] = subs[id]
  BY <1>2, CobIdSpares DEF DownloadCobId
<1>3. ASSUME NEW value \in BOOLEAN, SetEnable(value),
             Configurable([rp.cob EXCEPT !.off = ~value])
      PROVE  subs'[id] = subs[id]
  <2> DEFINE cob == [rp.cob EXCEPT !.off = ~value]
  <2>1. cob \in CobId /\ cob.off = ~value
    BY <1>1 DEF Fields, CobId
  <2>2. [rp EXCEPT !.cob.off = ~value] = [rp EXCEPT !.cob = cob]
    BY <1>1 DEF Fields
  <2>3. \/ Activate([rp EXCEPT !.cob = cob], subs, nmt) /\ value
        \/ Deactivate([rp EXCEPT !.cob = cob])
    BY <1>3, <2>2 DEF SetEnable
  <2> HIDE DEF cob
  <2>4. Configurable(cob)
    BY <1>3 DEF cob
  <2> QED
    BY <2>1, <2>3, <2>4, CobIdSpares
<1>4. /\ Deactivated(rp) \in Fields /\ ~Deactivated(rp).active
      /\ ~Deactivated(rp).listening /\ Deactivated(rp).cob = rp.cob
  BY DEF Ledger, Consistent, Deactivated, Fields
<1>5. ASSUME NEW mapping \in Mappings, Map(mapping)
      PROVE  subs'[id] = subs[id]
  <2> DEFINE new == [Deactivated(rp) EXCEPT !.map = mapping]
  <2>1. new \in Fields /\ ~new.active /\ ~new.listening /\ new.cob = rp.cob
    BY <1>4, ConstantTypes DEF Fields
  <2>2. Replace(new)
    BY <1>5 DEF Map
  <2> HIDE DEF new
  <2> QED
    BY <2>1, <2>2, ReplaceSpares
<1>6. ASSUME NEW type \in Types, SetTransmissionType(type)
      PROVE  subs'[id] = subs[id]
  <2> DEFINE new == [Deactivated(rp) EXCEPT !.type = type]
  <2>1. type \in 0..255
    BY ConstantTypes
  <2>2. new \in Fields /\ ~new.active /\ ~new.listening /\ new.cob = rp.cob
    BY <1>4, <2>1 DEF Fields
  <2>3. Replace(new)
    BY <1>6 DEF SetTransmissionType
  <2> HIDE DEF new
  <2> QED
    BY <2>2, <2>3, ReplaceSpares
<1> QED
  BY <1>2, <1>3, <1>5, <1>6 DEF Configure

LEMMA SetNmtStateSpares ==
    ASSUME Careless = {}, Ledger, NEW state \in NmtStates, SetNmtState(state),
           NEW id \in ForeignId
    PROVE  subs'[id] = subs[id]
<1>1. rp \in Fields /\ subs \in [CanId -> Owners] /\ state # nmt
  BY DEF Ledger, Consistent, SetNmtState
<1>2. CASE state = "OPERATIONAL"
  <2> DEFINE r == [rp EXCEPT !.cob = OperationalCobId(@)]
  <2>1. r.cob = OperationalCobId(rp.cob)
    BY <1>1 DEF Fields
  <2>2. ~r.cob.off => r.cob.id \notin ForeignId
    BY <1>1, <2>1, ConstantTypes
       DEF OperationalCobId, Ledger, Consistent, Fields, CobId
  <2>3. subs' = Subscribed(r, subs, state)
    BY <1>2 DEF SetNmtState, Activate
  <2> HIDE DEF r
  <2> QED
    BY <1>1, <2>2, <2>3 DEF Subscribed, Activates, Usable
<1>3. CASE state # "OPERATIONAL"
  BY <1>3, UnsubscribedSpares DEF SetNmtState, Deactivate, Ledger
<1> QED
  BY <1>2, <1>3

(* No step of the RPDO replaces or removes another service's subscription, *)
(* whatever the NMT master, the application and a client do, if the client *)
(* never makes another service's identifier the RPDO's valid one and       *)
(* changes the identifier only while the mapping is inactive.  The code    *)
(* checks neither.                                                         *)
THEOREM OthersStaySubscribed == ASSUME Careless = {} PROVE Spec => OthersKept
<1> DEFINE Others(id) == \E owner \in {"nobody", "other"} : OtherService(id, owner)
<1>1. ASSUME Ledger, Next, NEW id \in ForeignId
      PROVE  subs'[id] = subs[id] \/ Others(id)
  <2>1. ASSUME NEW i \in CanId, NEW msg \in Messages, HandleMsg(i, msg)
        PROVE  subs' = subs
    BY <2>1 DEF HandleMsg
  <2>2. ASSUME Sync PROVE subs' = subs
    BY <2>2 DEF Sync
  <2>3. ASSUME NEW v \in Known, NEW value \in Value, Write(v, value)
        PROVE  subs' = subs
    BY <2>3 DEF Write
  <2>4. ASSUME NEW i \in ForeignId, NEW owner \in {"nobody", "other"},
               OtherService(i, owner)
        PROVE  subs'[id] = subs[id] \/ Others(id)
    <3>1. CASE i = id
      BY <2>4, <3>1
    <3>2. CASE i # id
      BY <2>4, <3>2 DEF OtherService
    <3> QED
      BY <3>1, <3>2
  <2> QED
    BY <1>1, <2>1, <2>2, <2>3, <2>4, ConfigureSpares, SetNmtStateSpares
       DEF Next
<1>2. Ledger /\ [Next]_vars =>
        [\A id \in ForeignId :
           \/ subs'[id] = subs[id]
           \/ \E owner \in {"nobody", "other"} : OtherService(id, owner)]_vars
  BY <1>1
<1> QED
  BY <1>2, SpecLedger, PTL DEF Spec, OthersKept

-----------------------------------------------------------------------------
(* What messages write *)

(* A message is written through an active mapping and to what it maps.     *)
LEMMA WriteDataMapped ==
    ASSUME Ledger, NEW msg \in Seq(Value), WriteData(msg),
           NEW v \in Known, data'[v] # data[v]
    PROVE  /\ Usable(rp.cob, rp.map, nmt)
           /\ \E i \in DOMAIN rp.map : rp.map[i] = v
<1>1. rp.active /\ Len(msg) = Len(rp.map)
  BY DEF WriteData
<1>2. Writes(msg, v) = {} => data'[v] = data[v]
  BY <1>1 DEF WriteData
<1>3. \E i \in DOMAIN msg : rp.map[i] = v
  BY <1>2 DEF Writes
<1>4. DOMAIN msg = DOMAIN rp.map
  BY <1>1, LenProperties DEF Ledger, Consistent, Fields
<1> QED
  BY <1>1, <1>3, <1>4 DEF Ledger, Consistent

LEMMA NextOnlyMapped ==
    ASSUME Ledger, [Next]_vars, NEW v \in Known, data'[v] # data[v]
    PROVE  \/ UNCHANGED rp /\ \E value \in Value : Write(v, value)
           \/ /\ Usable(rp.cob, rp.map, nmt)
              /\ \E i \in DOMAIN rp.map : rp.map[i] = v
<1>1. data' # data
  OBVIOUS
<1>2. ASSUME NEW id \in CanId, NEW msg \in Messages, HandleMsg(id, msg)
      PROVE  WriteData(msg) /\ msg \in Seq(Value)
  BY <1>1, <1>2, ConstantTypes DEF HandleMsg
<1>3. ASSUME Sync
      PROVE  \E msg \in Seq(Value) : WriteData(msg)
  <2>1. \E m \in Messages : rp.pending = <<m>>
    BY <1>3 DEF Sync, Ledger, Consistent, Fields
  <2>2. PICK m \in Messages : rp.pending = <<m>>
    BY <2>1
  <2>3. WriteData(m)
    BY <1>3, <2>2 DEF Sync
  <2> QED
    BY <2>3, ConstantTypes
<1>4. ASSUME NEW u \in Known, NEW value \in Value, Write(u, value)
      PROVE  UNCHANGED rp /\ u = v
  BY <1>4 DEF Write
<1>5. ~\E state \in NmtStates : SetNmtState(state)
  BY <1>1 DEF SetNmtState
<1>6. ~Configure
  BY <1>1 DEF Configure, DownloadCobId, SetEnable, Map, SetTransmissionType
<1>7. ~\E id \in ForeignId, owner \in {"nobody", "other"} :
         OtherService(id, owner)
  BY <1>1 DEF OtherService
<1>8. ~UNCHANGED vars
  BY <1>1 DEF vars
<1> QED
  BY <1>2, <1>3, <1>4, <1>5, <1>6, <1>7, <1>8, WriteDataMapped DEF Next

(* Messages change variables only while the RPDO is valid and the node is  *)
(* operational, and only mapped ones, however it is configured.            *)
THEOREM OnlyMappedWritten == Spec => OnlyMappedChange
<1>1. Ledger /\ [Next]_vars =>
        [\A v \in Known :
           data'[v] # data[v] =>
             \/ UNCHANGED rp /\ \E value \in Value : Write(v, value)
             \/ /\ Usable(rp.cob, rp.map, nmt)
                /\ \E i \in DOMAIN rp.map : rp.map[i] = v]_vars
  BY NextOnlyMapped
<1> QED
  BY <1>1, SpecLedger, PTL DEF Spec, OnlyMappedChange
=============================================================================
