----------------------------- MODULE TPDOProofs -----------------------------
(***************************************************************************)
(* Proofs about TPDO, for every dictionary, every set of mappings, types   *)
(* and values.                                                             *)
(***************************************************************************)
EXTENDS TPDO, SequenceTheorems, WellFoundedInduction, TLAPS

-----------------------------------------------------------------------------
(* Mappings *)

(* A mapping is followed up to the first object the dictionary lacks.      *)
LEMMA FoundPrefix ==
    ASSUME NEW m \in Seq(Var)
    PROVE  /\ Found(m) \in 0..Len(m)
           /\ \A i \in 1..Found(m) : m[i] \in Known
           /\ Found(m) < Len(m) => m[Found(m) + 1] \notin Known
<1> DEFINE Ends == {n \in 0..Len(m) : n < Len(m) => m[n + 1] \notin Known}
<1>1. Len(m) \in Nat
  BY LenProperties
<1>2. Ends \subseteq Nat /\ Ends # {}
  <2>1. Len(m) \in Ends
    BY <1>1
  <2> QED
    BY <1>1, <2>1
<1>3. PICK n \in Ends : \A k \in Ends : <<k, n>> \notin OpToRel(<, Nat)
  <2> HIDE DEF Ends
  <2> QED
    BY <1>2, NatLessThanWellFounded, WFMin
<1>4. \A k \in Ends : ~(k < n)
  BY <1>2, <1>3 DEF OpToRel
<1>5. \A i \in 1..n : m[i] \in Known
  <2> TAKE i \in 1..n
  <2>1. n \in 0..Len(m) /\ i - 1 \in 0..Len(m) /\ i - 1 < n /\ i - 1 < Len(m)
    BY <1>1
  <2>2. i - 1 \notin Ends
    BY <1>4, <2>1
  <2>3. m[(i - 1) + 1] \in Known
    BY <2>1, <2>2
  <2> QED
    BY <2>1, <2>3
<1>6. \E k \in 0..Len(m) : /\ \A i \in 1..k : m[i] \in Known
                           /\ k < Len(m) => m[k + 1] \notin Known
  BY <1>5
<1> QED
  BY <1>6 DEF Found

LEMMA MappingTypes ==
    ASSUME NEW m \in Mappings
    PROVE  m \in Seq(Var) /\ Len(m) <= 8
  BY MappingsAssumption

LEMMA CountedType ==
    ASSUME NEW n \in 0..MaxDivider
    PROVE  Counted(n) \in 1..MaxDivider
  BY TypesAssumption DEF Counted

-----------------------------------------------------------------------------
(* The cache and the callbacks fit the mapping and the dictionary.  t are  *)
(* the fields, w the callbacks, d the values of the dictionary.            *)

Watches == [Known \X Slots -> Int]

Blank(w) == \A v \in Known, i \in Slots : w[<<v, i>>] = 0

(* The first n slots of the mapping m are registered once. *)
Marks(w, m, n) ==
    \A v \in Known, i \in Slots :
      w[<<v, i>>] = IF i <= n /\ m[i] = v THEN 1 ELSE 0

WatchesOf(t, w) ==
    /\ w \in Watches
    /\ t.active => Marks(w, t.map, Len(t.cache))
    /\ ~t.active => Blank(w)

CacheOf(t, d) ==
    /\ Len(t.cache) <= Len(t.map)
    /\ \A i \in 1..Len(t.cache) : /\ t.map[i] \in Known
                                  /\ t.cache[i] = d[t.map[i]]

Coherent(t, w, d, state) ==
    /\ t \in Fields /\ Len(t.map) <= 8
    /\ d \in [Known -> Value]
    /\ state \in NmtStates
    /\ t.active => Usable(t.cob, t.map, state)
    /\ ~t.active => t.cache = <<>>
    /\ t.running => t.inhibited
    /\ CacheOf(t, d)
    /\ WatchesOf(t, w)

(* A change that leaves the mapping alone. *)
LEMMA SameMapping ==
    ASSUME NEW t, NEW w, NEW d, NEW state, Coherent(t, w, d, state),
           NEW q \in Fields, NEW next \in NmtStates,
           q.active = t.active, q.cache = t.cache, q.map = t.map,
           q.running => q.inhibited,
           q.active => Usable(q.cob, q.map, next)
    PROVE  Coherent(q, w, d, next)
  BY DEF Coherent, CacheOf, WatchesOf

(* Registering is undone by removing, callback by callback. *)
LEMMA RegisteredMarks ==
    ASSUME NEW w \in Watches, Blank(w), NEW m, NEW n \in Nat
    PROVE  /\ Registered(w, m, n, 1) \in Watches
           /\ Marks(Registered(w, m, n, 1), m, n)
<1> DEFINE r == Registered(w, m, n, 1)
<1>1. \A p \in Known \X Slots : w[p] = 0
  BY DEF Blank
<1>2. r = [p \in Known \X Slots |-> IF p[2] <= n /\ m[p[2]] = p[1] THEN 1 ELSE 0]
  BY <1>1 DEF Registered
<1> QED
  BY <1>2 DEF Watches, Marks

LEMMA RegisteredBlank ==
    ASSUME NEW w \in Watches, NEW m, NEW n \in Nat, Marks(w, m, n)
    PROVE  /\ Registered(w, m, n, -1) \in Watches
           /\ Blank(Registered(w, m, n, -1))
<1> DEFINE r == Registered(w, m, n, -1)
<1>1. \A p \in Known \X Slots :
        w[p] = IF p[2] <= n /\ m[p[2]] = p[1] THEN 1 ELSE 0
  BY DEF Marks
<1>2. r = [p \in Known \X Slots |-> 0]
  BY <1>1 DEF Registered
<1> QED
  BY <1>2 DEF Watches, Blank

LEMMA DeactivatedCoherent ==
    ASSUME NEW t, NEW w, NEW d, NEW state, Coherent(t, w, d, state),
           NEW next \in NmtStates
    PROVE  /\ Coherent(Deactivated(t), Unwatched(t, w), d, next)
           /\ ~Deactivated(t).active
<1>1. t \in Fields /\ t.active \in BOOLEAN
  BY DEF Coherent, Fields
<1>2. CASE t.active
  <2> DEFINE q == [t EXCEPT !.active = FALSE, !.cache = <<>>,
                            !.running = FALSE]
             u == Registered(w, t.map, Len(t.cache), -1)
  <2>1. /\ q \in Fields /\ ~q.active /\ q.cache = <<>> /\ ~q.running
        /\ q.map = t.map
    BY <1>1, EmptySeq DEF Fields
  <2>2. Len(t.cache) \in Nat
    BY <1>1, LenProperties DEF Fields
  <2>3. w \in Watches /\ Marks(w, t.map, Len(t.cache))
    BY <1>2 DEF Coherent, WatchesOf
  <2>4. u \in Watches /\ Blank(u)
    BY <2>2, <2>3, RegisteredBlank
  <2>5. WatchesOf(q, u)
    BY <2>1, <2>4 DEF WatchesOf
  <2>6. Len(q.cache) = 0 /\ Len(q.map) \in Nat
    BY <2>1, LenProperties, EmptySeq DEF Fields
  <2>7. CacheOf(q, d)
    BY <2>6 DEF CacheOf
  <2>8. Coherent(q, u, d, next)
    BY <2>1, <2>5, <2>7 DEF Coherent
  <2> QED
    BY <1>2, <2>1, <2>8 DEF Deactivated, Unwatched
<1>3. CASE ~t.active
  <2>1. Coherent(t, w, d, next)
    BY <1>1, <1>3, SameMapping DEF Coherent
  <2> QED
    BY <1>3, <2>1 DEF Deactivated, Unwatched
<1> QED
  BY <1>1, <1>2, <1>3

(* _activate_mapping fills the cache and registers the callbacks, as far   *)
(* as it gets.                                                             *)
LEMMA FilledCoherent ==
    ASSUME NEW t, NEW w, NEW state, Coherent(t, w, data, state),
           Activates(t, state)
    PROVE  LET n == Found(t.map)
               u == [t EXCEPT !.active = TRUE,
                              !.cache = [i \in 1..n |-> data[t.map[i]]]]
           IN  /\ Coherent(u, Registered(w, t.map, n, 1), data, state)
               /\ u.active /\ Len(u.cache) = n
<1> DEFINE n == Found(t.map)
           c == [i \in 1..n |-> data[t.map[i]]]
           u == [t EXCEPT !.active = TRUE, !.cache = c]
           r == Registered(w, t.map, n, 1)
<1>1. t \in Fields /\ t.map \in Seq(Var) /\ ~t.active
  BY DEF Coherent, Fields, Activates
<1>2. /\ n \in 0..Len(t.map) /\ Len(t.map) \in Nat
      /\ \A i \in 1..n : t.map[i] \in Known
  BY <1>1, FoundPrefix, LenProperties
<1>3. \A i \in 1..n : data[t.map[i]] \in Value
  BY <1>2 DEF Coherent
<1>4. c \in Seq(Value) /\ Len(c) = n /\ \A i \in 1..n : c[i] = data[t.map[i]]
  <2> HIDE DEF n
  <2>1. n \in Nat
    BY <1>2
  <2> QED
    BY <1>3, <2>1
<1>5. /\ u \in Fields /\ u.active /\ u.cache = c /\ u.map = t.map
      /\ u.running = t.running /\ u.inhibited = t.inhibited
      /\ u.cob = t.cob
  <2> HIDE DEF c
  <2> QED
    BY <1>1, <1>4 DEF Fields
<1>6. CacheOf(u, data)
  <2> HIDE DEF n, c, u
  <2> QED
    BY <1>2, <1>4, <1>5 DEF CacheOf
<1>7. WatchesOf(u, r)
  <2>1. n \in Nat /\ w \in Watches /\ Blank(w)
    BY <1>1, <1>2 DEF Coherent, WatchesOf
  <2> HIDE DEF n, c, u
  <2>2. r \in Watches /\ Marks(r, t.map, n)
    BY <2>1, RegisteredMarks
  <2> HIDE DEF r
  <2> QED
    BY <1>4, <1>5, <2>2 DEF WatchesOf
<1>8. Usable(u.cob, u.map, state)
  BY <1>5 DEF Activates
<1>9. Coherent(u, r, data, state)
  <2> HIDE DEF n, c, u, r
  <2> QED
    BY <1>5, <1>6, <1>7, <1>8 DEF Coherent
<1> QED
  BY <1>4, <1>5, <1>9

(* Another mapping is taken over while none is active. *)
LEMMA OtherMapping ==
    ASSUME NEW t, NEW w, NEW d, NEW state, Coherent(t, w, d, state),
           ~t.active, NEW q \in Fields, ~q.active, q.cache = <<>>,
           Len(q.map) <= 8, q.running => q.inhibited
    PROVE  Coherent(q, w, d, state)
<1>1. Len(q.cache) = 0 /\ Len(q.map) \in Nat
  BY LenProperties, EmptySeq DEF Fields
<1>2. CacheOf(q, d)
  BY <1>1 DEF CacheOf
<1>3. WatchesOf(q, w)
  BY DEF Coherent, WatchesOf
<1> QED
  BY <1>2, <1>3 DEF Coherent

-----------------------------------------------------------------------------
(* Sending *)

(* What a step puts on the bus is the cache of an active mapping ... *)
Sends ==
    /\ \A f \in sent' : tp'.active /\ f = Frame(tp')
    /\ last' = last \/ last' \in sent'

(* ... or, in between two pack functions of a variable, nearly so. *)
SendsCurrent ==
    /\ \A f \in sent' : /\ tp'.active /\ f \in Frames /\ f.id = tp'.cob.id
                        /\ \A i \in DOMAIN f.data : CurrentIn(f, i)
    /\ last' = last \/ last' \in sent'

LEMMA QuietCoherent ==
    ASSUME NEW t, NEW w, NEW d, NEW state, Coherent(t, w, d, state), Quiet(t)
    PROVE  Coherent(tp', w, d, state) /\ Sends
  BY DEF Quiet, Silent, Sends

LEMMA TriggeredFields ==
    ASSUME NEW t \in Fields, t.running => t.inhibited
    PROVE  /\ Triggered(t) \in Fields
           /\ Triggered(t).running => Triggered(t).inhibited
           /\ Triggered(t).active = t.active /\ Triggered(t).cache = t.cache
           /\ Triggered(t).map = t.map /\ Triggered(t).cob = t.cob
           /\ Triggered(t).type = t.type /\ Triggered(t).count = t.count
           /\ Withheld(t) => Triggered(t).running /\ Triggered(t).again
<1>1. CASE ~t.inhibited
  BY <1>1 DEF Triggered, Withheld, Fields
<1>2. CASE t.inhibited /\ t.running
  <2>1. Triggered(t) = [t EXCEPT !.again = TRUE]
    BY <1>2 DEF Triggered
  <2> QED
    BY <1>2, <2>1 DEF Fields
<1>3. CASE t.inhibited /\ ~t.running
  <2>1. Triggered(t) = [t EXCEPT !.running = TRUE] /\ ~Withheld(t)
    BY <1>3 DEF Triggered, Withheld
  <2> QED
    BY <1>3, <2>1 DEF Fields
<1> QED
  BY <1>1, <1>2, <1>3 DEF Fields

LEMMA TransmitCoherent ==
    ASSUME NEW t, NEW w, NEW d, NEW state, Coherent(t, w, d, state),
           Transmit(t)
    PROVE  Coherent(tp', w, d, state) /\ Sends
<1>1. /\ t \in Fields /\ state \in NmtStates
      /\ t.running => t.inhibited
      /\ t.active => Usable(t.cob, t.map, state)
  BY DEF Coherent
<1>2. tp' = Triggered(t)
  BY DEF Transmit
<1>3. Coherent(tp', w, d, state)
  BY <1>1, <1>2, TriggeredFields, SameMapping
<1>4. \/ Silent
      \/ t.active /\ Send(t)
  BY <1>1 DEF Transmit, Raises, Fields
<1>5. Frame(tp') = Frame(t)
  BY <1>1, <1>2, TriggeredFields DEF Frame
<1>6. Sends
  BY <1>1, <1>2, <1>4, <1>5, TriggeredFields DEF Sends, Silent, Send
<1> QED
  BY <1>3, <1>6

LEMMA UpdatedCoherent ==
    ASSUME NEW t, NEW w, NEW d, NEW state, Coherent(t, w, d, state)
    PROVE  Coherent(Updated(t), w, d, state)
<1>1. /\ t \in Fields /\ state \in NmtStates
      /\ t.running => t.inhibited
      /\ t.active => Usable(t.cob, t.map, state)
  BY DEF Coherent
<1>2. Counted(t.count) \in 0..MaxDivider
  BY <1>1, CountedType DEF Fields
<1>3. /\ Updated(t) \in Fields /\ Updated(t).active = t.active
      /\ Updated(t).cache = t.cache /\ Updated(t).map = t.map
      /\ Updated(t).cob = t.cob /\ Updated(t).running = t.running
      /\ Updated(t).inhibited = t.inhibited
  BY <1>1, <1>2 DEF Updated, Fields
<1> QED
  BY <1>1, <1>3, SameMapping

LEMMA AnnounceCoherent ==
    ASSUME NEW t, NEW w, NEW d, NEW state, Coherent(t, w, d, state),
           Announce(t)
    PROVE  Coherent(tp', w, d, state) /\ Sends
  BY QuietCoherent, TransmitCoherent, UpdatedCoherent DEF Announce

LEMMA ActivateCoherent ==
    ASSUME NEW t, NEW w, NEW state, Coherent(t, w, data, state),
           Activate(t, w, state)
    PROVE  Coherent(tp', watch', data, state) /\ Sends
<1> DEFINE n == Found(t.map)
           u == [t EXCEPT !.active = TRUE,
                          !.cache = [i \in 1..n |-> data[t.map[i]]]]
           r == Registered(w, t.map, n, 1)
<1>1. CASE ~Activates(t, state)
  BY <1>1, QuietCoherent DEF Activate
<1>2. CASE Activates(t, state)
  <2>1. Coherent(u, r, data, state)
    BY <1>2, FilledCoherent
  <2>2. watch' = r /\ (Quiet(u) \/ Announce(u))
    BY <1>2 DEF Activate
  <2> HIDE DEF u, r
  <2> QED
    BY <2>1, <2>2, QuietCoherent, AnnounceCoherent
<1> QED
  BY <1>1, <1>2

-----------------------------------------------------------------------------
(* Operations *)

Inv ==
    /\ Coherent(tp, watch, data, nmt)
    /\ odCob \in CobId /\ last \in Frames
    /\ sent \subseteq Frames /\ syncs \in 0..MaxDivider

(* What each operation establishes. *)
Kept == Inv' /\ SendsCurrent

LEMMA KeptBySending ==
    ASSUME Inv, Coherent(tp', watch', data', nmt'), SendsCurrent,
           odCob' \in CobId, syncs' \in 0..MaxDivider
    PROVE  Kept
  BY DEF Kept, Inv, SendsCurrent

(* The cache of an active mapping is a frame of current values. *)
LEMMA KeptBy ==
    ASSUME Inv, Coherent(tp', watch', data', nmt'), Sends,
           odCob' \in CobId, syncs' \in 0..MaxDivider
    PROVE  Kept
<1>1. tp' \in Fields /\ tp'.cache \in Seq(Value)
  BY DEF Coherent, Fields
<1>2. Frame(tp') \in Frames /\ Frame(tp').id = tp'.cob.id
      /\ Frame(tp').data = tp'.cache
  BY <1>1 DEF Fields, CobId, Frame, Frames
<1>3. \A i \in DOMAIN tp'.cache : tp'.cache[i] = data'[tp'.map[i]]
  BY <1>1, LenProperties DEF Coherent, CacheOf
<1>4. SendsCurrent
  BY <1>2, <1>3 DEF Sends, SendsCurrent, CurrentIn
<1> QED
  BY <1>4, KeptBySending

(* The mapping is deactivated after its COB-ID has changed. *)
LEMMA WithdrawnCoherent ==
    ASSUME Inv, NEW cob \in CobId, Deactivate([tp EXCEPT !.cob = cob])
    PROVE  Coherent(tp', watch', data, nmt) /\ Sends
<1> DEFINE t == [tp EXCEPT !.cob = cob]
           q == Deactivated(tp)
<1>1. /\ tp \in Fields /\ nmt \in NmtStates
      /\ tp.running => tp.inhibited
  BY DEF Inv, Coherent
<1>2. /\ t \in Fields /\ t.active = tp.active /\ t.cache = tp.cache
      /\ t.map = tp.map /\ t.running = tp.running
      /\ t.inhibited = tp.inhibited
  BY <1>1 DEF Fields
<1>3. Coherent(q, Unwatched(tp, watch), data, nmt) /\ ~q.active
  BY <1>1, DeactivatedCoherent DEF Inv
<1>4. Unwatched(t, watch) = Unwatched(tp, watch)
  BY <1>2 DEF Unwatched
<1> HIDE DEF t
<1> DEFINE r == Deactivated(t)
<1>5. /\ r \in Fields /\ r.active = q.active
      /\ r.cache = q.cache /\ r.map = q.map
      /\ r.running => r.inhibited
  <2>1. CASE tp.active
    <3>1. q = [tp EXCEPT !.active = FALSE, !.cache = <<>>, !.running = FALSE]
      BY <2>1 DEF Deactivated
    <3>2. r = [t EXCEPT !.active = FALSE, !.cache = <<>>, !.running = FALSE]
      BY <1>2, <2>1 DEF Deactivated
    <3> HIDE DEF q, r
    <3>3. q.active = FALSE /\ q.cache = <<>> /\ q.map = tp.map
      BY <1>1, <3>1 DEF Fields
    <3>4. /\ r \in Fields /\ r.active = FALSE /\ r.cache = <<>>
          /\ r.map = t.map /\ r.running = FALSE
      BY <1>2, <3>2, EmptySeq DEF Fields
    <3> QED
      BY <1>2, <3>3, <3>4
  <2>2. CASE ~tp.active
    <3>1. q = tp /\ r = t
      BY <1>2, <2>2 DEF Deactivated
    <3> HIDE DEF q, r
    <3> QED
      BY <1>1, <1>2, <2>2, <3>1
  <2> QED
    BY <1>1, <2>1, <2>2 DEF Fields
<1>6. Coherent(r, Unwatched(tp, watch), data, nmt)
  <2> HIDE DEF q, r
  <2> QED
    BY <1>1, <1>3, <1>5, SameMapping DEF Coherent
<1>7. Quiet(r) /\ watch' = Unwatched(tp, watch)
  BY <1>4 DEF Deactivate, t
<1> HIDE DEF q, r
<1> QED
  BY <1>6, <1>7, QuietCoherent

(* Its COB-ID changes and is valid. *)
LEMMA ReleasedCoherent ==
    ASSUME Inv, NEW cob \in CobId, ~cob.off,
           Activate([tp EXCEPT !.cob = cob], watch, nmt)
    PROVE  Coherent(tp', watch', data, nmt) /\ Sends
<1> DEFINE t == [tp EXCEPT !.cob = cob]
<1>1. /\ tp \in Fields /\ nmt \in NmtStates
      /\ tp.running => tp.inhibited
      /\ tp.active => Usable(tp.cob, tp.map, nmt)
  BY DEF Inv, Coherent
<1>2. /\ t \in Fields /\ t.active = tp.active /\ t.cache = tp.cache
      /\ t.map = tp.map /\ t.running = tp.running
      /\ t.inhibited = tp.inhibited /\ t.cob = cob
  BY <1>1 DEF Fields
<1>3. t.active => Usable(t.cob, t.map, nmt)
  BY <1>1, <1>2 DEF Usable
<1> HIDE DEF t
<1>4. Coherent(t, watch, data, nmt)
  BY <1>1, <1>2, <1>3, SameMapping DEF Inv
<1> QED
  BY <1>4, ActivateCoherent DEF t

LEMMA SetNmtStateKept ==
    ASSUME Inv, NEW state \in NmtStates, SetNmtState(state)
    PROVE  Kept
<1>1. /\ tp \in Fields
      /\ tp.running => tp.inhibited
      /\ state # nmt /\ nmt' = state
      /\ UNCHANGED <<data, odCob, syncs>>
  BY DEF Inv, Coherent, SetNmtState
<1>2. Coherent(tp', watch', data, state) /\ Sends
  <2>1. CASE state = "OPERATIONAL"
    <3> DEFINE t == [tp EXCEPT !.cob = OperationalCobId(@)]
    <3>1. ~tp.active
      BY <1>1, <2>1 DEF Inv, Coherent, Usable
    <3>2. OperationalCobId(tp.cob) \in CobId
      BY <1>1, DefaultIdAssumption DEF OperationalCobId, Fields, CobId
    <3>3. /\ t \in Fields /\ t.active = tp.active /\ t.cache = tp.cache
          /\ t.map = tp.map /\ t.running = tp.running
          /\ t.inhibited = tp.inhibited
      BY <1>1, <3>2 DEF Fields
    <3>4. Activate(t, watch, state)
      BY <2>1 DEF SetNmtState
    <3> HIDE DEF t
    <3>5. Coherent(t, watch, data, state)
      BY <1>1, <3>1, <3>3, SameMapping DEF Inv
    <3> QED
      BY <3>4, <3>5, ActivateCoherent
  <2>2. CASE state # "OPERATIONAL"
    <3>1. Quiet(Deactivated(tp)) /\ watch' = Unwatched(tp, watch)
      BY <2>2 DEF SetNmtState, Deactivate
    <3>2. Coherent(Deactivated(tp), Unwatched(tp, watch), data, state)
      BY DeactivatedCoherent DEF Inv
    <3> QED
      BY <3>1, <3>2, QuietCoherent
  <2> QED
    BY <2>1, <2>2
<1> QED
  BY <1>1, <1>2, KeptBy DEF Inv

LEMMA DownloadCobIdKept ==
    ASSUME Inv, NEW cob \in CobId, DownloadCobId(cob)
    PROVE  Kept
<1>1. Coherent(tp', watch', data, nmt) /\ Sends
  BY WithdrawnCoherent, ReleasedCoherent DEF DownloadCobId
<1> QED
  BY <1>1, KeptBy DEF DownloadCobId, Inv

LEMMA SetEnableKept ==
    ASSUME Inv, NEW value \in BOOLEAN, SetEnable(value)
    PROVE  Kept
<1> DEFINE cob == [tp.cob EXCEPT !.off = ~value]
<1>1. tp \in Fields
  BY DEF Inv, Coherent
<1>2. cob \in CobId /\ cob.off = ~value
  BY <1>1 DEF Fields, CobId
<1>3. [tp EXCEPT !.cob.off = ~value] = [tp EXCEPT !.cob = cob]
  BY <1>1 DEF Fields
<1>4. /\ [tp EXCEPT !.cob = cob].cob = cob
      /\ UNCHANGED <<nmt, data, syncs>>
  BY <1>1 DEF Fields, SetEnable
<1>5. /\ IF value THEN Activate([tp EXCEPT !.cob = cob], watch, nmt)
         ELSE Deactivate([tp EXCEPT !.cob = cob])
      /\ odCob' = odCob \/ odCob' = cob
  BY <1>3, <1>4 DEF SetEnable
<1> HIDE DEF cob
<1>6. Coherent(tp', watch', data, nmt) /\ Sends
  BY <1>2, <1>5, WithdrawnCoherent, ReleasedCoherent
<1> QED
  BY <1>2, <1>4, <1>5, <1>6, KeptBy DEF Inv

LEMMA MapKept ==
    ASSUME Inv, NEW mapping \in Mappings, Map(mapping)
    PROVE  Kept
<1> DEFINE q == Deactivated(tp)
           t == [q EXCEPT !.map = mapping]
<1>1. /\ Coherent(q, Unwatched(tp, watch), data, nmt) /\ ~q.active
      /\ UNCHANGED <<nmt, data, odCob, syncs>>
  BY DeactivatedCoherent DEF Inv, Coherent, Map
<1>2. Activate(t, Unwatched(tp, watch), nmt)
  BY DEF Map
<1> HIDE DEF q
<1>3. /\ q \in Fields /\ q.cache = <<>>
      /\ q.running => q.inhibited
  BY <1>1 DEF Coherent
<1>4. /\ t \in Fields /\ t.active = q.active /\ t.cache = q.cache
      /\ t.map = mapping /\ t.running = q.running
      /\ t.inhibited = q.inhibited
  BY <1>3, MappingTypes DEF Fields
<1> HIDE DEF t
<1>5. Coherent(t, Unwatched(tp, watch), data, nmt)
  BY <1>1, <1>3, <1>4, MappingTypes, OtherMapping
<1>6. Coherent(tp', watch', data, nmt) /\ Sends
  BY <1>2, <1>5, ActivateCoherent
<1> QED
  BY <1>1, <1>6, KeptBy DEF Inv

(* New settings leave the mapping alone and send nothing. *)
LEMMA SettingsKept ==
    ASSUME Inv, NEW q \in Fields, Quiet(q),
           q.active = tp.active, q.cache = tp.cache, q.map = tp.map,
           q.cob = tp.cob, q.running => q.inhibited,
           UNCHANGED <<nmt, data, watch, odCob>>, syncs' \in 0..MaxDivider
    PROVE  Kept
<1>1. /\ nmt \in NmtStates
      /\ tp.active => Usable(tp.cob, tp.map, nmt)
  BY DEF Inv, Coherent
<1>2. Coherent(q, watch, data, nmt)
  BY <1>1, SameMapping DEF Inv
<1>3. Coherent(tp', watch', data', nmt') /\ Sends
  BY <1>2, QuietCoherent
<1> QED
  BY <1>3, KeptBy DEF Inv

LEMMA SetTransmissionTypeKept ==
    ASSUME Inv, NEW type \in Types, SetTransmissionType(type)
    PROVE  Kept
<1> DEFINE q == [tp EXCEPT !.type = type, !.count = 0]
<1>1. /\ tp \in Fields
      /\ tp.running => tp.inhibited
  BY DEF Inv, Coherent
<1>2. type \in 0..255 /\ 0 \in 0..MaxDivider
  BY TypesAssumption
<1>3. /\ q \in Fields /\ q.active = tp.active /\ q.cache = tp.cache
      /\ q.map = tp.map /\ q.cob = tp.cob /\ q.running = tp.running
      /\ q.inhibited = tp.inhibited
  BY <1>1, <1>2 DEF Fields
<1>4. /\ Quiet(q) /\ syncs' = 0
      /\ UNCHANGED <<nmt, data, watch, odCob>>
  BY DEF SetTransmissionType
<1> HIDE DEF q
<1> QED
  BY <1>1, <1>2, <1>3, <1>4, SettingsKept

LEMMA UpdateInhibitTimeKept ==
    ASSUME Inv, NEW timed \in Timed, UpdateInhibitTime(timed)
    PROVE  Kept
<1> DEFINE q == [tp EXCEPT !.inhibited = timed, !.running = FALSE,
                           !.again = FALSE]
<1>1. tp \in Fields
  BY DEF Inv, Coherent
<1>2. timed \in BOOLEAN
  BY TimedAssumption
<1>3. /\ q \in Fields /\ q.active = tp.active /\ q.cache = tp.cache
      /\ q.map = tp.map /\ q.cob = tp.cob /\ ~q.running
  BY <1>1, <1>2 DEF Fields
<1>4. /\ Quiet(q)
      /\ UNCHANGED <<nmt, data, watch, odCob, syncs>>
  BY DEF UpdateInhibitTime
<1> HIDE DEF q
<1> QED
  BY <1>3, <1>4, SettingsKept DEF Inv

(* A set of slots has a last one. *)
LEMMA SlotsHaveLast ==
    ASSUME NEW S \in SUBSET Slots, S # {}
    PROVE  \E m \in S : \A i \in S : i <= m
<1>1. CASE \E i \in 5..8 : i \in S
  <2>1. CASE 8 \in S
    BY <2>1 DEF Slots
  <2>2. CASE 8 \notin S /\ 7 \in S
    BY <2>2 DEF Slots
  <2>3. CASE 8 \notin S /\ 7 \notin S /\ 6 \in S
    BY <2>3 DEF Slots
  <2>4. CASE 8 \notin S /\ 7 \notin S /\ 6 \notin S /\ 5 \in S
    BY <2>4 DEF Slots
  <2> QED
    BY <1>1, <2>1, <2>2, <2>3, <2>4
<1>2. CASE S \subseteq 1..4
  <2>1. CASE 4 \in S
    BY <1>2, <2>1
  <2>2. CASE 4 \notin S /\ 3 \in S
    BY <1>2, <2>2
  <2>3. CASE 2 \in S /\ S \subseteq 1..2
    BY <2>3
  <2>4. CASE S \subseteq {1}
    <3>1. 1 \in S
      BY <2>4, Zenon
    <3> QED
      BY <2>4, <3>1
  <2> QED
    BY <1>2, <2>1, <2>2, <2>3, <2>4
<1> QED
  BY <1>1, <1>2 DEF Slots

(* Packing changes values of the cache and nothing else. *)
LEMMA PackedFields ==
    ASSUME tp \in Fields, NEW v \in Known, NEW value \in Value, NEW n
    PROVE  LET q == Packed(v, value, n)
           IN  /\ q \in Fields /\ q.active = tp.active /\ q.map = tp.map
               /\ q.cob = tp.cob /\ q.running = tp.running
               /\ q.inhibited = tp.inhibited
               /\ Len(q.cache) = Len(tp.cache)
               /\ \A i \in 1..Len(tp.cache) :
                    q.cache[i] = IF i \in Watching(v) /\ i <= n THEN value
                                 ELSE tp.cache[i]
<1> DEFINE c == [i \in DOMAIN tp.cache |->
                   IF i \in Watching(v) /\ i <= n THEN value ELSE tp.cache[i]]
<1>1. /\ tp.cache \in Seq(Value) /\ Len(tp.cache) \in Nat
      /\ DOMAIN tp.cache = 1..Len(tp.cache)
  BY LenProperties DEF Fields
<1>2. \A i \in 1..Len(tp.cache) :
        /\ c[i] = IF i \in Watching(v) /\ i <= n THEN value ELSE tp.cache[i]
        /\ c[i] \in Value
  BY <1>1
<1>3. c \in Seq(Value) /\ Len(c) = Len(tp.cache)
  BY <1>1, <1>2
<1>4. Packed(v, value, n) = [tp EXCEPT !.cache = c]
  BY DEF Packed
<1> DEFINE q == Packed(v, value, n)
<1> HIDE DEF c
<1>5. q.cache = c
  BY <1>4 DEF Fields
<1>6. /\ q.active = tp.active /\ q.map = tp.map /\ q.cob = tp.cob
      /\ q.running = tp.running /\ q.inhibited = tp.inhibited
  BY <1>4 DEF Fields
<1>7. q \in Fields
  BY <1>3, <1>4 DEF Fields
<1> HIDE DEF q
<1>8. Len(q.cache) = Len(tp.cache)
  BY <1>3, <1>5
<1>9. \A i \in 1..Len(tp.cache) :
        q.cache[i] = IF i \in Watching(v) /\ i <= n THEN value ELSE tp.cache[i]
  BY <1>2, <1>5
<1> QED
  BY <1>6, <1>7, <1>8, <1>9 DEF q

(* When the last slot of the variable is filled, all are. *)
LEMMA AllPacked ==
    ASSUME NEW v, NEW value, NEW n, \A i \in Watching(v) : i <= n
    PROVE  Packed(v, value, n) = Packed(v, value, 8)
<1>1. \A i : i \in Watching(v) => i <= n /\ i <= 8
  BY DEF Watching, Slots
<1> DEFINE c(k) == [i \in DOMAIN tp.cache |->
                      IF i \in Watching(v) /\ i <= k THEN value
                      ELSE tp.cache[i]]
<1>2. c(n) = c(8)
  BY <1>1
<1>3. /\ Packed(v, value, n) = [tp EXCEPT !.cache = c(n)]
      /\ Packed(v, value, 8) = [tp EXCEPT !.cache = c(8)]
  BY DEF Packed
<1> QED
  BY <1>2, <1>3

(* The slots of a variable are those the active mapping gives it. *)
LEMMA WatchingSlots ==
    ASSUME Inv, tp.active, NEW v \in Known
    PROVE  Watching(v) = {i \in 1..Len(tp.cache) : tp.map[i] = v}
<1>1. /\ Len(tp.cache) \in Nat /\ Len(tp.map) \in Nat
      /\ Len(tp.cache) <= Len(tp.map) /\ Len(tp.map) <= 8
  BY LenProperties DEF Inv, Coherent, Fields, CacheOf
<1>2. \A i \in Slots :
        watch[<<v, i>>] = IF i <= Len(tp.cache) /\ tp.map[i] = v THEN 1 ELSE 0
  BY DEF Inv, Coherent, WatchesOf, Marks
<1>3. Watching(v) = {i \in Slots : i <= Len(tp.cache) /\ tp.map[i] = v}
  BY <1>2 DEF Watching
<1> QED
  BY <1>1, <1>3 DEF Slots

(* A frame sent after n slots have been filled: the slots of v that are    *)
(* still to come have the old value, and there are others of v.            *)
LEMMA PackedIsCurrent ==
    ASSUME Inv, tp.active, NEW v \in Known, NEW value \in Value,
           data' = [data EXCEPT ![v] = value], NEW n \in Watching(v),
           tp'.map = tp.map, tp'.cob = tp.cob
    PROVE  LET f == Frame(Packed(v, value, n))
           IN  /\ f \in Frames /\ f.id = tp'.cob.id
               /\ \A i \in DOMAIN f.data : CurrentIn(f, i)
<1> DEFINE q == Packed(v, value, n)
           f == Frame(q)
<1>1. /\ tp \in Fields /\ data \in [Known -> Value]
      /\ Len(tp.cache) \in Nat /\ Len(tp.map) \in Nat
      /\ Len(tp.cache) <= Len(tp.map) /\ DOMAIN tp.map = 1..Len(tp.map)
      /\ \A i \in 1..Len(tp.cache) : /\ tp.map[i] \in Known
                                     /\ tp.cache[i] = data[tp.map[i]]
  BY LenProperties DEF Inv, Coherent, Fields, CacheOf
<1>2. n \in 1..8 /\ n \in 1..Len(tp.cache) /\ tp.map[n] = v
  BY WatchingSlots DEF Watching, Slots
<1>3. /\ q \in Fields /\ q.cob = tp.cob /\ Len(q.cache) = Len(tp.cache)
      /\ \A i \in 1..Len(tp.cache) :
           q.cache[i] = IF i \in Watching(v) /\ i <= n THEN value
                        ELSE tp.cache[i]
  <2>1. tp \in Fields
    BY <1>1
  <2> QED
    BY <2>1, PackedFields, Zenon
<1> HIDE DEF q
<1>4. /\ f \in Frames /\ f.id = tp'.cob.id /\ f.data = q.cache
      /\ DOMAIN f.data = 1..Len(tp.cache)
  BY <1>3, LenProperties DEF Frame, Frames, Fields, CobId
<1>5. ASSUME NEW i \in 1..Len(tp.cache) PROVE CurrentIn(f, i)
  <2>1. CASE tp.map[i] # v
    BY <1>1, <1>3, <1>4, <2>1, WatchingSlots DEF CurrentIn
  <2>2. CASE tp.map[i] = v /\ i <= n
    BY <1>1, <1>3, <1>4, <2>2, WatchingSlots DEF CurrentIn
  <2>3. CASE tp.map[i] = v /\ ~(i <= n)
    <3>1. n # i /\ n \in DOMAIN tp.map
      BY <1>1, <1>2, <2>3
    <3>2. Repeated(tp'.map, i)
      BY <1>2, <2>3, <3>1 DEF Repeated
    <3> QED
      BY <1>1, <1>3, <1>4, <2>3, <3>2 DEF CurrentIn
  <2> QED
    BY <2>1, <2>2, <2>3
<1>6. \A i \in DOMAIN f.data : CurrentIn(f, i)
  BY <1>4, <1>5
<1> QED
  BY <1>4, <1>6 DEF q

(* All slots of a variable are filled. *)
LEMMA PackedCoherent ==
    ASSUME Inv, tp.active, NEW v \in Known, NEW value \in Value,
           data' = [data EXCEPT ![v] = value]
    PROVE  Coherent(Packed(v, value, 8), watch, data', nmt)
<1> DEFINE q == Packed(v, value, 8)
<1>1. /\ tp \in Fields /\ data \in [Known -> Value] /\ nmt \in NmtStates
      /\ Len(tp.cache) \in Nat /\ Len(tp.map) <= 8
      /\ Len(tp.cache) <= Len(tp.map) /\ Len(tp.map) \in Nat
      /\ tp.running => tp.inhibited
      /\ Usable(tp.cob, tp.map, nmt)
      /\ \A i \in 1..Len(tp.cache) : /\ tp.map[i] \in Known
                                     /\ tp.cache[i] = data[tp.map[i]]
  BY LenProperties DEF Inv, Coherent, Fields, CacheOf
<1>2. /\ q \in Fields /\ q.active = tp.active /\ q.map = tp.map
      /\ q.cob = tp.cob /\ q.running = tp.running
      /\ q.inhibited = tp.inhibited
      /\ Len(q.cache) = Len(tp.cache)
      /\ \A i \in 1..Len(tp.cache) :
           q.cache[i] = IF i \in Watching(v) /\ i <= 8 THEN value
                        ELSE tp.cache[i]
  BY <1>1, PackedFields
<1> HIDE DEF q
<1>3. data' \in [Known -> Value]
  BY <1>1
<1>4. \A i \in 1..Len(tp.cache) : q.cache[i] = data'[tp.map[i]]
  BY <1>1, <1>2, WatchingSlots
<1>5. CacheOf(q, data')
  BY <1>1, <1>2, <1>4 DEF CacheOf
<1>6. WatchesOf(q, watch)
  BY <1>2 DEF Inv, Coherent, WatchesOf
<1> QED
  BY <1>1, <1>2, <1>3, <1>5, <1>6 DEF Coherent, q

(* What the pack functions of an event-driven TPDO do to its fields. *)
LEMMA TransmitsPacked ==
    ASSUME tp \in Fields, tp.running => tp.inhibited,
           NEW v \in Known, NEW value \in Value, PackAndTransmit(v, value)
    PROVE  LET q == Packed(v, value, 8)
           IN  /\ tp' \in Fields /\ (tp'.running => tp'.inhibited)
               /\ tp'.active = q.active /\ tp'.cache = q.cache
               /\ tp'.map = q.map /\ tp'.cob = q.cob
<1> DEFINE q == Packed(v, value, 8)
<1>1. q \in Fields /\ (q.running => q.inhibited)
  BY PackedFields
<1>2. tp' \in {q, Triggered(q), Triggered(Triggered(q))}
  BY DEF PackAndTransmit
<1> HIDE DEF q
<1>3. /\ Triggered(q) \in Fields
      /\ Triggered(q).running => Triggered(q).inhibited
      /\ Triggered(q).active = q.active /\ Triggered(q).cache = q.cache
      /\ Triggered(q).map = q.map /\ Triggered(q).cob = q.cob
  BY <1>1, TriggeredFields
<1>4. /\ Triggered(Triggered(q)) \in Fields
      /\ Triggered(Triggered(q)).running => Triggered(Triggered(q)).inhibited
      /\ Triggered(Triggered(q)).active = q.active
      /\ Triggered(Triggered(q)).cache = q.cache
      /\ Triggered(Triggered(q)).map = q.map
      /\ Triggered(Triggered(q)).cob = q.cob
  BY <1>3, TriggeredFields
<1>5. /\ tp' \in Fields /\ (tp'.running => tp'.inhibited)
      /\ tp'.active = q.active /\ tp'.cache = q.cache
      /\ tp'.map = q.map /\ tp'.cob = q.cob
  BY <1>1, <1>2, <1>3, <1>4
<1> QED
  BY <1>5 DEF q

(* The callbacks of the other slots do not touch the cache, those of the   *)
(* variable's slots put the new value in.                                  *)
LEMMA WriteKept ==
    ASSUME Inv, NEW v \in Known, NEW value \in Value, Write(v, value)
    PROVE  Kept
<1> DEFINE q == Packed(v, value, 8)
<1>1. /\ tp \in Fields /\ nmt \in NmtStates
      /\ Len(tp.cache) \in Nat
      /\ tp.running => tp.inhibited
      /\ ~tp.active => tp.cache = <<>>
      /\ data \in [Known -> Value]
  BY LenProperties DEF Inv, Coherent, Fields
<1>2. /\ data' = [data EXCEPT ![v] = value]
      /\ UNCHANGED <<nmt, watch, odCob, syncs>>
  BY DEF Write
<1>3. /\ data' \in [Known -> Value]
      /\ \A u \in Known : u # v => data'[u] = data[u]
  BY <1>1, <1>2
<1>4. CASE Watching(v) = {} \/ ~tp.active
  <2>1. Quiet(tp)
    BY <1>4 DEF Write
  <2>2. \A i \in 1..Len(tp.cache) : /\ tp.map[i] \in Known
                                   /\ tp.cache[i] = data'[tp.map[i]]
    <3>1. \A i \in 1..Len(tp.cache) : /\ tp.map[i] \in Known
                                     /\ tp.cache[i] = data[tp.map[i]]
      BY DEF Inv, Coherent, CacheOf
    <3>2. CASE tp.active
      BY <1>3, <1>4, <3>1, <3>2, WatchingSlots
    <3>3. CASE ~tp.active
      BY <1>1, <3>3, EmptySeq
    <3> QED
      BY <3>2, <3>3
  <2>3. CacheOf(tp, data')
    BY <2>2 DEF CacheOf, Inv, Coherent
  <2>4. Coherent(tp, watch, data', nmt)
    BY <1>3, <2>3 DEF Inv, Coherent
  <2>5. Coherent(tp', watch', data', nmt') /\ Sends
    BY <1>2, <2>1, <2>4, QuietCoherent
  <2> QED
    BY <1>2, <2>5, KeptBy DEF Inv
<1>5. CASE Watching(v) # {} /\ tp.active /\ tp.type # EventDriven
  <2>1. Announce(q)
    BY <1>5 DEF Write
  <2>2. Coherent(q, watch, data', nmt)
    BY <1>2, <1>5, PackedCoherent
  <2> HIDE DEF q
  <2>3. Coherent(tp', watch', data', nmt') /\ Sends
    BY <1>2, <2>1, <2>2, AnnounceCoherent
  <2> QED
    BY <1>2, <2>3, KeptBy DEF Inv
<1>6. CASE Watching(v) # {} /\ tp.active /\ tp.type = EventDriven
  <2>1. PackAndTransmit(v, value)
    BY <1>6 DEF Write
  <2>2. Coherent(q, watch, data', nmt)
    BY <1>2, <1>6, PackedCoherent
  <2>3. /\ q.active = tp.active /\ q.map = tp.map /\ q.cob = tp.cob
    BY <1>1, PackedFields
  <2>4. /\ tp' \in Fields /\ (tp'.running => tp'.inhibited)
        /\ tp'.active = q.active /\ tp'.cache = q.cache
        /\ tp'.map = q.map /\ tp'.cob = q.cob
    BY <1>1, <2>1, TransmitsPacked
  <2>5. \A i \in Watching(v) :
          LET f == Frame(Packed(v, value, i))
          IN  /\ f \in Frames /\ f.id = tp'.cob.id
              /\ \A k \in DOMAIN f.data : CurrentIn(f, k)
    BY <1>2, <1>6, <2>3, <2>4, PackedIsCurrent
  <2>6. \A f \in sent' : \E i \in Watching(v) : f = Frame(Packed(v, value, i))
    BY <2>1 DEF PackAndTransmit, Send, Silent
  <2>7. last' = last \/ last' \in sent' \/ ~tp.inhibited
    BY <1>1, <2>1, PackedFields DEF PackAndTransmit, Send, Silent
  <2>8. ASSUME ~tp.inhibited PROVE last' \in sent'
    <3>1. PICK m \in Watching(v) : \A i \in Watching(v) : i <= m
      BY <1>6, SlotsHaveLast DEF Watching
    <3>2. Packed(v, value, m) = q
      BY <3>1, AllPacked
    <3> QED
      BY <1>1, <2>1, <2>8, <3>1, <3>2, PackedFields DEF PackAndTransmit
  <2>9. SendsCurrent
    BY <1>6, <2>3, <2>4, <2>5, <2>6, <2>7, <2>8 DEF SendsCurrent
  <2> HIDE DEF q
  <2>10. Coherent(tp', watch', data', nmt')
    BY <1>1, <1>2, <2>2, <2>4, SameMapping DEF Coherent
  <2> QED
    BY <1>2, <2>9, <2>10, KeptBySending DEF Inv
<1> QED
  BY <1>4, <1>5, <1>6

LEMMA SyncKept ==
    ASSUME Inv, Sync
    PROVE  Kept
<1>1. /\ tp \in Fields /\ nmt \in NmtStates
      /\ tp.running => tp.inhibited
      /\ tp.active => Usable(tp.cob, tp.map, nmt)
  BY DEF Inv, Coherent
<1>2. Coherent([tp EXCEPT !.count = 0], watch, data, nmt)
  <2> DEFINE q == [tp EXCEPT !.count = 0]
  <2>1. 0 \in 0..MaxDivider
    BY TypesAssumption
  <2>2. /\ q \in Fields /\ q.active = tp.active /\ q.cache = tp.cache
        /\ q.map = tp.map /\ q.cob = tp.cob /\ q.running = tp.running
        /\ q.inhibited = tp.inhibited
    BY <1>1, <2>1 DEF Fields
  <2> HIDE DEF q
  <2>3. Coherent(q, watch, data, nmt)
    BY <1>1, <2>2, SameMapping DEF Inv
  <2> QED
    BY <2>3 DEF q
<1>3. Coherent(Updated(tp), watch, data, nmt)
  BY UpdatedCoherent DEF Inv
<1>4. \E t \in {tp, [tp EXCEPT !.count = 0], Updated(tp)} :
        Quiet(t) \/ Transmit(t)
  BY DEF Sync, OnSync
<1>5. Coherent(tp', watch, data, nmt) /\ Sends
  BY <1>2, <1>3, <1>4, QuietCoherent, TransmitCoherent DEF Inv
<1>6. syncs' \in 0..MaxDivider
  BY CountedType, TypesAssumption DEF Sync, Inv
<1> QED
  BY <1>5, <1>6, KeptBy DEF Sync, Inv

LEMMA TimeUpKept ==
    ASSUME Inv, TimeUp
    PROVE  Kept
<1> DEFINE q == [tp EXCEPT !.running = FALSE, !.again = FALSE]
<1>1. /\ tp \in Fields /\ nmt \in NmtStates
      /\ tp.active => Usable(tp.cob, tp.map, nmt)
  BY DEF Inv, Coherent
<1>2. /\ q \in Fields /\ q.active = tp.active /\ q.cache = tp.cache
      /\ q.map = tp.map /\ q.cob = tp.cob /\ ~q.running
  BY <1>1 DEF Fields
<1>3. Quiet(q) \/ Transmit(q)
  BY DEF TimeUp
<1> HIDE DEF q
<1>4. Coherent(q, watch, data, nmt)
  BY <1>1, <1>2, SameMapping DEF Inv
<1>5. Coherent(tp', watch, data, nmt) /\ Sends
  BY <1>3, <1>4, QuietCoherent, TransmitCoherent
<1> QED
  BY <1>5, KeptBy DEF TimeUp, Inv

LEMMA NextKept ==
    ASSUME Inv, Next
    PROVE  Kept
<1>1. CASE Configure
  BY <1>1, DownloadCobIdKept, SetEnableKept, MapKept,
     SetTransmissionTypeKept, UpdateInhibitTimeKept DEF Configure
<1> QED
  BY <1>1, SetNmtStateKept, WriteKept, SyncKept, TimeUpKept DEF Next

LEMMA InitInv ==
    ASSUME Init
    PROVE  Inv
<1>1. tp = [cob |-> [off |-> ~Predefined, id |-> DefaultId],
            type |-> 255, map |-> <<>>, active |-> FALSE,
            cache |-> <<>>, count |-> 0, inhibited |-> FALSE,
            running |-> FALSE, again |-> FALSE]
  BY DEF Init, EventDriven
<1>2. /\ <<>> \in Seq(Var) /\ <<>> \in Seq(Value) /\ Len(<<>>) = 0
      /\ 0 \in 0..MaxDivider
  BY EmptySeq, TypesAssumption
<1>3. tp \in Fields /\ odCob \in CobId
  BY <1>1, <1>2, DefaultIdAssumption, PredefinedAssumption
     DEF Init, Fields, CobId
<1>4. CacheOf(tp, data)
  BY <1>1, <1>2 DEF CacheOf
<1>5. WatchesOf(tp, watch)
  BY <1>1 DEF Init, WatchesOf, Watches, Blank
<1>6. Coherent(tp, watch, data, nmt)
  BY <1>1, <1>2, <1>3, <1>4, <1>5 DEF Init, PDOInit, NmtStates, Coherent
<1>7. last \in Frames
  BY <1>2, DefaultIdAssumption DEF Init, Frames
<1> QED
  BY <1>2, <1>3, <1>6, <1>7 DEF Init, Inv

LEMMA SpecInv == Spec => []Inv
<1>1. Init => Inv
  BY InitInv
<1>2. Inv /\ [Next]_vars => Inv'
  <2> SUFFICES ASSUME Inv, [Next]_vars PROVE Inv'
    OBVIOUS
  <2>1. CASE Next
    BY <2>1, NextKept DEF Kept
  <2>2. CASE UNCHANGED vars
    BY <2>2 DEF vars, Inv
  <2> QED
    BY <2>1, <2>2
<1> QED
  BY <1>1, <1>2, PTL DEF Spec

-----------------------------------------------------------------------------
(* Every field keeps its type, the cache fits the mapping.                 *)
THEOREM TypeCorrect == Spec => []TypeOK
<1>1. Inv => TypeOK
  BY DEF Inv, Coherent, CacheOf, WatchesOf, Watches, TypeOK, PDOTypeOK
<1> QED
  BY <1>1, SpecInv, PTL

(* The pack functions registered with the variables are those of the       *)
(* active mapping, each once.                                              *)
THEOREM CallbacksFit == Spec => []WatchLedger
<1>1. Inv => WatchLedger
  BY DEF Inv, Coherent, WatchesOf, Marks, Blank, WatchLedger
<1> QED
  BY <1>1, SpecInv, PTL

(* A cache that fits is the mapped values. *)
LEMMA CacheIsMapped ==
    ASSUME Inv
    PROVE  tp.cache = Mapped(Len(tp.cache))
<1>1. /\ tp.cache \in Seq(Value)
      /\ \A i \in 1..Len(tp.cache) : tp.cache[i] = data[tp.map[i]]
  BY DEF Inv, Coherent, CacheOf, Fields
<1>2. Len(tp.cache) \in Nat /\ DOMAIN tp.cache = 1..Len(tp.cache)
      /\ tp.cache = [i \in 1..Len(tp.cache) |-> tp.cache[i]]
  BY <1>1, LenProperties
<1> QED
  BY <1>1, <1>2 DEF Mapped

(* What the TPDO would send is what the object dictionary holds.           *)
THEOREM CachesAreCurrent == Spec => []CacheIsCurrent
<1>1. Inv => CacheIsCurrent
  BY CacheIsMapped DEF CacheIsCurrent
<1> QED
  BY <1>1, SpecInv, PTL

(* The mapping is active only while the PDO is valid, maps something and   *)
(* the node is operational.                                                *)
THEOREM ActiveOnlyUsable == Spec => []ActiveIsUsable
<1>1. Inv => ActiveIsUsable
  BY DEF Inv, Coherent, ActiveIsUsable
<1> QED
  BY <1>1, SpecInv, PTL

(* Every frame has the COB-ID in use and the values the dictionary holds   *)
(* when it is sent, and is sent only under ActiveIsUsable's conditions; of *)
(* a variable mapped more than once some slots may have the value before.  *)
THEOREM EveryFrameIsCurrent == Spec => FramesAreCurrent
<1>1. ASSUME Inv, Next, NEW f \in sent'
      PROVE  /\ Usable(tp'.cob, tp'.map, nmt')
             /\ f.id = tp'.cob.id
             /\ \A i \in DOMAIN f.data : CurrentIn(f, i)
  <2>1. Inv' /\ SendsCurrent
    BY <1>1, NextKept DEF Kept
  <2>2. /\ tp'.active /\ f.id = tp'.cob.id
        /\ \A i \in DOMAIN f.data : CurrentIn(f, i)
    BY <1>1, <2>1 DEF SendsCurrent
  <2>3. Usable(tp'.cob, tp'.map, nmt')
    BY <2>1, <2>2 DEF Inv, Coherent
  <2> QED
    BY <2>2, <2>3
<1>2. Inv /\ [Next]_vars =>
        [\A frame \in sent' :
           /\ Usable(tp'.cob, tp'.map, nmt')
           /\ frame.id = tp'.cob.id
           /\ \A i \in DOMAIN frame.data : CurrentIn(frame, i)]_vars
  BY <1>1
<1> QED
  BY <1>2, SpecInv, PTL DEF Spec, FramesAreCurrent

-----------------------------------------------------------------------------
(* The inhibit time *)

LEMMA TransmitHeldBack ==
    ASSUME NEW t, t.running, t.inhibited, Transmit(t)
    PROVE  sent' = {}
  BY DEF Transmit, Withheld, Silent

LEMMA AnnounceHeldBack ==
    ASSUME NEW t, t.running, t.inhibited, Announce(t)
    PROVE  sent' = {}
  BY TransmitHeldBack DEF Announce, Quiet, Silent

(* While the inhibit timer runs, only its end sends a frame, or a new      *)
(* mapping, which cancels the timer.                                       *)
THEOREM InhibitTimesKept == Spec => InhibitTimeKept
<1>1. ASSUME Inv, Next, sent' # {}, tp.running
      PROVE  TimeUp \/ \E m \in Mappings : Map(m)
  <2>1. tp \in Fields /\ tp.inhibited
    BY <1>1 DEF Inv, Coherent
  <2>2. ASSUME NEW cob, Activate([tp EXCEPT !.cob = cob], watch, nmt')
        PROVE  FALSE
    <3> DEFINE t == [tp EXCEPT !.cob = cob]
               u == [t EXCEPT !.active = TRUE,
                              !.cache = [i \in 1..Found(t.map) |->
                                           data[t.map[i]]]]
    <3>1. u.running /\ u.inhibited
      BY <1>1, <2>1 DEF Fields
    <3>2. Quiet(t) \/ Quiet(u) \/ Announce(u)
      BY <2>2 DEF Activate
    <3> HIDE DEF t, u
    <3> QED
      BY <1>1, <3>1, <3>2, AnnounceHeldBack DEF Quiet, Silent
  <2>3. ASSUME NEW t, Deactivate(t) PROVE FALSE
    BY <1>1, <2>3 DEF Deactivate, Quiet, Silent
  <2>4. ASSUME NEW state \in NmtStates, SetNmtState(state) PROVE FALSE
    BY <2>2, <2>3, <2>4 DEF SetNmtState
  <2>5. ASSUME NEW cob \in CobId, DownloadCobId(cob) PROVE FALSE
    BY <2>2, <2>3, <2>5 DEF DownloadCobId
  <2>6. ASSUME NEW value \in BOOLEAN, SetEnable(value) PROVE FALSE
    <3>1. [tp EXCEPT !.cob.off = ~value]
            = [tp EXCEPT !.cob = [tp.cob EXCEPT !.off = ~value]]
      BY <2>1 DEF Fields
    <3> QED
      BY <2>2, <2>3, <2>6, <3>1 DEF SetEnable
  <2>7. ASSUME NEW type \in Types, SetTransmissionType(type) PROVE FALSE
    BY <1>1, <2>7 DEF SetTransmissionType, Quiet, Silent
  <2>8. ASSUME NEW timed \in Timed, UpdateInhibitTime(timed) PROVE FALSE
    BY <1>1, <2>8 DEF UpdateInhibitTime, Quiet, Silent
  <2>9. ASSUME NEW v \in Known, NEW value \in Value, Write(v, value)
        PROVE  FALSE
    <3> DEFINE q == Packed(v, value, 8)
    <3>1. q.running /\ q.inhibited
      BY <1>1, <2>1, PackedFields
    <3>2. Quiet(tp) \/ Announce(q) \/ PackAndTransmit(v, value)
      BY <2>9 DEF Write
    <3>3. PackAndTransmit(v, value) => Silent
      BY <3>1 DEF PackAndTransmit, Withheld
    <3> HIDE DEF q
    <3> QED
      BY <1>1, <3>1, <3>2, <3>3, AnnounceHeldBack DEF Quiet, Silent
  <2>10. ASSUME Sync PROVE FALSE
    <3>1. \E t \in {tp, [tp EXCEPT !.count = 0], Updated(tp)} :
            Quiet(t) \/ Transmit(t)
      BY <2>10 DEF Sync, OnSync
    <3>2. \A t \in {tp, [tp EXCEPT !.count = 0], Updated(tp)} :
            t.running /\ t.inhibited
      BY <1>1, <2>1 DEF Updated, Fields
    <3> QED
      BY <1>1, <3>1, <3>2, TransmitHeldBack DEF Quiet, Silent
  <2> QED
    BY <1>1, <2>4, <2>5, <2>6, <2>7, <2>8, <2>9, <2>10 DEF Next, Configure
<1>2. Inv /\ [Next]_vars =>
        [sent' # {} /\ tp.running => TimeUp \/ \E m \in Mappings : Map(m)]_vars
  BY <1>1
<1> QED
  BY <1>2, SpecInv, PTL DEF Spec, InhibitTimeKept

-----------------------------------------------------------------------------
(* Changes.  Nothing can fail halfway when the dictionary has every object *)
(* a mapping names.                                                        *)

AllKnown == \A m \in Mappings : m \in Seq(Known)

(* A mapping that is complete: it can be, or has been, activated in full.  *)
Full(t) ==
    /\ t.map \in Seq(Known)
    /\ t.active => Len(t.cache) = Len(t.map)

(* The last frame l has what is in the cache, or another frame is due.     *)
Due(t) == \/ t.running /\ t.again
          \/ t.type = Acyclic /\ t.count > 0
UpToDate(t, l) ==
    t.active /\ t.type \in {EventDriven, Acyclic} => Due(t) \/ l.data = t.cache

LEMMA FoundAll ==
    ASSUME NEW m \in Seq(Known)
    PROVE  Found(m) = Len(m)
<1>1. \A i \in 1..Len(m) : m[i] \in Known
  BY ElementOfSeq
<1>2. m \in Seq(Var) /\ Len(m) \in Nat
  BY <1>1, KnownAssumption, LenProperties
<1>3. Found(m) \in 0..Len(m) /\ (Found(m) < Len(m) => m[Found(m) + 1] \notin Known)
  BY <1>2, FoundPrefix
<1>4. Found(m) < Len(m) => Found(m) + 1 \in 1..Len(m)
  BY <1>2, <1>3
<1> QED
  BY <1>1, <1>2, <1>3, <1>4

LEMMA QuietUpToDate ==
    ASSUME NEW t, Quiet(t), Full(t), UpToDate(t, last)
    PROVE  Full(tp') /\ UpToDate(tp', last')
  BY DEF Quiet, Silent

LEMMA TransmitUpToDate ==
    ASSUME NEW t \in Fields, t.running => t.inhibited, Transmit(t), Full(t)
    PROVE  Full(tp') /\ UpToDate(tp', last')
<1>1. /\ tp'.active = t.active /\ tp'.cache = t.cache /\ tp'.map = t.map
      /\ Withheld(t) => tp'.running /\ tp'.again
  <2>1. tp' = Triggered(t)
    BY DEF Transmit
  <2> QED
    BY <2>1, TriggeredFields
<1>2. Full(tp')
  BY <1>1 DEF Full
<1>3. CASE ~t.active
  BY <1>1, <1>2, <1>3 DEF UpToDate
<1>4. CASE Withheld(t)
  BY <1>1, <1>2, <1>4 DEF UpToDate, Due
<1>5. CASE t.active /\ ~Withheld(t)
  <2>1. last'.data = t.cache
    BY <1>5 DEF Transmit, Raises, Send, Frame
  <2> QED
    BY <1>1, <1>2, <2>1 DEF UpToDate
<1> QED
  BY <1>3, <1>4, <1>5

LEMMA AnnounceUpToDate ==
    ASSUME NEW t \in Fields, t.running => t.inhibited, Announce(t), Full(t)
    PROVE  Full(tp') /\ UpToDate(tp', last')
<1>1. CASE t.type = EventDriven
  BY <1>1, TransmitUpToDate DEF Announce
<1>2. CASE t.type = Acyclic
  <2>1. Quiet(Updated(t))
    BY <1>2 DEF Announce, EventDriven, Acyclic
  <2>2. Counted(t.count) \in 1..MaxDivider
    BY CountedType DEF Fields
  <2>3. /\ Updated(t).count > 0 /\ Updated(t).type = Acyclic
        /\ Full(Updated(t))
    BY <1>2, <2>2 DEF Updated, Fields, Full
  <2> QED
    BY <2>1, <2>3, QuietUpToDate DEF UpToDate, Due
<1>3. CASE t.type \notin {EventDriven, Acyclic}
  BY <1>3, QuietUpToDate DEF Announce, UpToDate
<1> QED
  BY <1>1, <1>2, <1>3

LEMMA ActivateUpToDate ==
    ASSUME NEW t, NEW w, NEW state, Coherent(t, w, data, state),
           Activate(t, w, state), Full(t), UpToDate(t, last)
    PROVE  Full(tp') /\ UpToDate(tp', last') /\ ~Halfway(t, state)
<1> DEFINE n == Found(t.map)
           u == [t EXCEPT !.active = TRUE,
                          !.cache = [i \in 1..n |-> data[t.map[i]]]]
<1>1. n = Len(t.map) /\ n \in Nat /\ ~Halfway(t, state)
  BY FoundAll, LenProperties DEF Full, Halfway
<1>2. CASE ~Activates(t, state)
  BY <1>1, <1>2, QuietUpToDate DEF Activate
<1>3. CASE Activates(t, state)
  <2>1. Announce(u)
    BY <1>1, <1>3 DEF Activate
  <2>2. Coherent(u, Registered(w, t.map, n, 1), data, state) /\ Len(u.cache) = n
    BY <1>3, FilledCoherent
  <2>3. u.map = t.map
    BY DEF Coherent, Fields
  <2> HIDE DEF n, u
  <2>4. u \in Fields /\ (u.running => u.inhibited)
    BY <2>2 DEF Coherent
  <2>5. Full(u)
    BY <1>1, <2>2, <2>3 DEF Full
  <2> QED
    BY <1>1, <2>1, <2>4, <2>5, AnnounceUpToDate
<1> QED
  BY <1>2, <1>3

(* An inactive mapping owes nothing. *)
LEMMA InactiveUpToDate ==
    ASSUME NEW t, ~t.active, t.map \in Seq(Known), NEW l
    PROVE  Full(t) /\ UpToDate(t, l)
  BY DEF Full, UpToDate

LEMMA DeactivateUpToDate ==
    ASSUME NEW t \in Fields, Deactivate(t), t.map \in Seq(Known)
    PROVE  Full(tp') /\ UpToDate(tp', last')
<1>1. tp' = Deactivated(t)
  BY DEF Deactivate, Quiet
<1>2. ~tp'.active /\ tp'.map = t.map
  BY <1>1 DEF Deactivated, Fields
<1> QED
  BY <1>2, InactiveUpToDate

(* NMT commands and COB-IDs.  While the mapping is active, a new COB-ID    *)
(* does not make it send again.                                            *)
LEMMA CobIdUpToDate ==
    ASSUME Inv, Full(tp), UpToDate(tp, last), NEW cob \in CobId,
           NEW state \in NmtStates,
           tp.active => Usable(cob, tp.map, state),
           Activate([tp EXCEPT !.cob = cob], watch, state)
    PROVE  /\ Full(tp') /\ UpToDate(tp', last')
           /\ ~Halfway([tp EXCEPT !.cob = cob], state)
<1> DEFINE t == [tp EXCEPT !.cob = cob]
<1>1. /\ tp \in Fields
      /\ tp.running => tp.inhibited
  BY DEF Inv, Coherent
<1>2. /\ t \in Fields /\ t.active = tp.active /\ t.cache = tp.cache
      /\ t.map = tp.map /\ t.running = tp.running /\ t.again = tp.again
      /\ t.inhibited = tp.inhibited /\ t.cob = cob /\ t.type = tp.type
      /\ t.count = tp.count
  BY <1>1 DEF Fields
<1> HIDE DEF t
<1>3. Coherent(t, watch, data, state)
  BY <1>1, <1>2, SameMapping DEF Inv
<1>4. Full(t) /\ UpToDate(t, last)
  BY <1>2 DEF Full, UpToDate, Due
<1>5. Full(tp') /\ UpToDate(tp', last') /\ ~Halfway(t, state)
  BY <1>3, <1>4, ActivateUpToDate DEF t
<1> QED
  BY <1>5 DEF t

LEMMA SetNmtStateUpToDate ==
    ASSUME Inv, Full(tp), UpToDate(tp, last), NEW state \in NmtStates,
           SetNmtState(state)
    PROVE  Full(tp') /\ UpToDate(tp', last')
<1>1. tp \in Fields /\ state # nmt
  BY DEF Inv, Coherent, SetNmtState
<1>2. CASE state = "OPERATIONAL"
  <2>1. ~tp.active
    BY <1>1, <1>2 DEF Inv, Coherent, Usable
  <2>2. OperationalCobId(tp.cob) \in CobId
    BY <1>1, DefaultIdAssumption DEF OperationalCobId, Fields, CobId
  <2> QED
    BY <1>2, <2>1, <2>2, CobIdUpToDate DEF SetNmtState
<1>3. CASE state # "OPERATIONAL"
  BY <1>1, <1>3, DeactivateUpToDate DEF SetNmtState, Full
<1> QED
  BY <1>2, <1>3

LEMMA NewCobIdUpToDate ==
    ASSUME Inv, Full(tp), UpToDate(tp, last), NEW cob \in CobId,
           IF cob.off THEN Deactivate([tp EXCEPT !.cob = cob])
           ELSE Activate([tp EXCEPT !.cob = cob], watch, nmt)
    PROVE  /\ Full(tp') /\ UpToDate(tp', last')
           /\ ~cob.off => ~Halfway([tp EXCEPT !.cob = cob], nmt)
<1>1. /\ tp \in Fields /\ nmt \in NmtStates
      /\ tp.active => Usable(tp.cob, tp.map, nmt)
  BY DEF Inv, Coherent
<1>2. CASE cob.off
  <2>1. /\ [tp EXCEPT !.cob = cob] \in Fields
        /\ [tp EXCEPT !.cob = cob].map \in Seq(Known)
    BY <1>1 DEF Fields, Full
  <2> QED
    BY <1>2, <2>1, DeactivateUpToDate
<1>3. CASE ~cob.off
  <2>1. tp.active => Usable(cob, tp.map, nmt)
    BY <1>1, <1>3 DEF Usable
  <2> QED
    BY <1>1, <1>3, <2>1, CobIdUpToDate
<1> QED
  BY <1>2, <1>3

LEMMA SetEnableUpToDate ==
    ASSUME Inv, Full(tp), UpToDate(tp, last), NEW value \in BOOLEAN,
           SetEnable(value)
    PROVE  /\ Full(tp') /\ UpToDate(tp', last')
           /\ value => ~Halfway([tp EXCEPT !.cob.off = ~value], nmt)
<1> DEFINE cob == [tp.cob EXCEPT !.off = ~value]
<1>1. tp \in Fields
  BY DEF Inv, Coherent
<1>2. cob \in CobId /\ cob.off = ~value
  BY <1>1 DEF Fields, CobId
<1>3. [tp EXCEPT !.cob.off = ~value] = [tp EXCEPT !.cob = cob]
  BY <1>1 DEF Fields
<1>4. IF value THEN Activate([tp EXCEPT !.cob = cob], watch, nmt)
      ELSE Deactivate([tp EXCEPT !.cob = cob])
  BY <1>3 DEF SetEnable
<1> HIDE DEF cob
<1> QED
  BY <1>2, <1>3, <1>4, NewCobIdUpToDate

LEMMA MapUpToDate ==
    ASSUME Inv, AllKnown, NEW mapping \in Mappings, Map(mapping)
    PROVE  Full(tp') /\ UpToDate(tp', last')
<1> DEFINE q == Deactivated(tp)
           t == [q EXCEPT !.map = mapping]
<1>1. /\ Coherent(q, Unwatched(tp, watch), data, nmt) /\ ~q.active
  BY DeactivatedCoherent DEF Inv, Coherent
<1>2. Activate(t, Unwatched(tp, watch), nmt)
  BY DEF Map
<1> HIDE DEF q
<1>3. /\ q \in Fields /\ q.cache = <<>>
      /\ q.running => q.inhibited
  BY <1>1 DEF Coherent
<1>4. /\ t \in Fields /\ t.active = q.active /\ t.cache = q.cache
      /\ t.map = mapping /\ t.running = q.running
      /\ t.inhibited = q.inhibited
  BY <1>3, MappingTypes DEF Fields
<1> HIDE DEF t
<1>5. Coherent(t, Unwatched(tp, watch), data, nmt)
  BY <1>1, <1>3, <1>4, MappingTypes, OtherMapping
<1>6. Full(t) /\ UpToDate(t, last)
  BY <1>1, <1>4, InactiveUpToDate DEF AllKnown
<1> QED
  BY <1>2, <1>5, <1>6, ActivateUpToDate

LEMMA SettingsUpToDate ==
    ASSUME Inv, Full(tp), Online = {},
           \/ \E type \in Types : SetTransmissionType(type)
           \/ \E timed \in Timed : UpdateInhibitTime(timed)
    PROVE  Full(tp') /\ UpToDate(tp', last')
<1>1. tp \in Fields
  BY DEF Inv, Coherent
<1>2. ~tp.active
  BY DEF SetTransmissionType, UpdateInhibitTime
<1>3. tp'.active = tp.active /\ tp'.map = tp.map
  BY <1>1 DEF SetTransmissionType, UpdateInhibitTime, Quiet, Fields
<1> QED
  BY <1>2, <1>3, InactiveUpToDate DEF Full

(* The last of the pack functions has sent all slots, or they are due.     *)
LEMMA PackAndTransmitUpToDate ==
    ASSUME Inv, Full(tp), NEW v \in Known, NEW value \in Value,
           PackAndTransmit(v, value)
    PROVE  Full(tp') /\ UpToDate(tp', last')
<1> DEFINE q == Packed(v, value, 8)
           first == {i \in Watching(v) : \A j \in Watching(v) : i <= j}
<1>1. tp \in Fields /\ (tp.running => tp.inhibited)
  BY DEF Inv, Coherent
<1>2. /\ q \in Fields /\ (q.running => q.inhibited) /\ q.active = tp.active
      /\ q.map = tp.map /\ Len(q.cache) = Len(tp.cache)
  BY <1>1, PackedFields
<1>3. /\ tp'.active = q.active /\ tp'.cache = q.cache /\ tp'.map = q.map
  BY <1>1, TransmitsPacked
<1>4. Full(tp')
  BY <1>2, <1>3 DEF Full
<1>5. CASE ~q.inhibited
  BY <1>3, <1>4, <1>5 DEF PackAndTransmit, UpToDate, Frame
<1>6. CASE Withheld(q) /\ Watching(v) = first
  <2>1. tp' = Triggered(q)
    BY <1>6 DEF PackAndTransmit, Withheld
  <2> HIDE DEF q
  <2> QED
    BY <1>2, <1>4, <1>6, <2>1, TriggeredFields DEF UpToDate, Due
<1>7. CASE q.inhibited /\ ~Withheld(q) /\ Watching(v) = first
  <2>1. PICK i \in first : Send(Packed(v, value, i))
    BY <1>7 DEF PackAndTransmit
  <2>2. Packed(v, value, i) = q
    <3>1. \A j \in Watching(v) : j = i
      BY <1>7, <2>1 DEF Watching, Slots
    <3>2. \A j \in Watching(v) : j <= i
      BY <3>1 DEF Watching, Slots
    <3> QED
      BY <3>2, AllPacked
  <2> QED
    BY <1>3, <1>4, <2>1, <2>2 DEF UpToDate, Send, Frame
<1>8. CASE q.inhibited /\ Watching(v) # first
  <2>1. tp' = Triggered(Triggered(q))
    BY <1>8 DEF PackAndTransmit
  <2> HIDE DEF q
  <2>2. Triggered(q).inhibited /\ Triggered(q).running
    BY <1>2, <1>8 DEF Triggered, Fields
  <2>3. Triggered(q) \in Fields
    BY <1>2, TriggeredFields
  <2>4. tp'.running /\ tp'.again
    BY <2>1, <2>2, <2>3, TriggeredFields DEF Withheld
  <2> QED
    BY <1>4, <2>4 DEF UpToDate, Due
<1> QED
  BY <1>4, <1>5, <1>6, <1>7, <1>8 DEF Withheld

LEMMA WriteUpToDate ==
    ASSUME Inv, Full(tp), UpToDate(tp, last), NEW v \in Known,
           NEW value \in Value, Write(v, value)
    PROVE  Full(tp') /\ UpToDate(tp', last')
<1> DEFINE q == Packed(v, value, 8)
<1>1. tp \in Fields /\ (tp.running => tp.inhibited)
  BY DEF Inv, Coherent
<1>2. Quiet(tp) \/ Announce(q) \/ PackAndTransmit(v, value)
  BY DEF Write
<1>3. /\ q \in Fields /\ q.active = tp.active /\ q.map = tp.map
      /\ q.running => q.inhibited
      /\ Len(q.cache) = Len(tp.cache)
  BY <1>1, PackedFields
<1> HIDE DEF q
<1>4. Full(q)
  BY <1>3 DEF Full
<1> QED
  BY <1>2, <1>3, <1>4, QuietUpToDate, AnnounceUpToDate,
     PackAndTransmitUpToDate

LEMMA SyncUpToDate ==
    ASSUME Inv, Full(tp), UpToDate(tp, last), Sync
    PROVE  Full(tp') /\ UpToDate(tp', last')
<1> DEFINE z == [tp EXCEPT !.count = 0]
           u == Updated(tp)
<1>1. /\ tp \in Fields
      /\ tp.running => tp.inhibited
  BY DEF Inv, Coherent
<1>2. Counted(tp.count) \in 0..MaxDivider /\ 0 \in 0..MaxDivider
  BY <1>1, CountedType, TypesAssumption DEF Fields
<1>3. \A t \in {z, u} :
        /\ t \in Fields /\ Full(t)
        /\ t.running => t.inhibited
        /\ t.active = tp.active /\ t.type = tp.type
  BY <1>1, <1>2 DEF Fields, Updated, Full
<1>4. CASE tp.type = Acyclic
  <2>1. Quiet(tp) \/ Transmit(tp) \/ Transmit(z)
    BY <1>4 DEF Sync, OnSync
  <2> HIDE DEF z, u
  <2> QED
    BY <1>1, <1>3, <2>1, QuietUpToDate, TransmitUpToDate
<1>5. CASE tp.type # Acyclic
  <2>1. Quiet(u) \/ Transmit(u)
    BY <1>5 DEF Sync, OnSync
  <2>2. tp.type # EventDriven
    BY <1>1 DEF Sync, Synchronous, EventDriven, Fields
  <2> HIDE DEF z, u
  <2>3. UpToDate(u, last)
    BY <1>3, <1>5, <2>2 DEF UpToDate
  <2> QED
    BY <1>3, <2>1, <2>3, QuietUpToDate, TransmitUpToDate
<1> QED
  BY <1>4, <1>5

LEMMA TimeUpUpToDate ==
    ASSUME Inv, Full(tp), UpToDate(tp, last), TimeUp
    PROVE  Full(tp') /\ UpToDate(tp', last')
<1> DEFINE q == [tp EXCEPT !.running = FALSE, !.again = FALSE]
<1>1. tp \in Fields
  BY DEF Inv, Coherent
<1>2. /\ q \in Fields /\ q.active = tp.active /\ q.cache = tp.cache
      /\ q.map = tp.map /\ q.type = tp.type /\ q.count = tp.count
      /\ ~q.running
  BY <1>1 DEF Fields
<1>3. IF tp.again THEN Transmit(q) ELSE Quiet(q)
  BY DEF TimeUp
<1> HIDE DEF q
<1>4. Full(q)
  BY <1>2 DEF Full
<1>5. ~tp.again => UpToDate(q, last)
  BY <1>2 DEF UpToDate, Due
<1> QED
  BY <1>2, <1>3, <1>4, <1>5, QuietUpToDate, TransmitUpToDate

LEMMA NextUpToDate ==
    ASSUME Online = {}, AllKnown, Inv, Full(tp), UpToDate(tp, last), Next
    PROVE  Full(tp') /\ UpToDate(tp', last')
<1>1. ASSUME NEW cob \in CobId, DownloadCobId(cob)
      PROVE  Full(tp') /\ UpToDate(tp', last')
  BY <1>1, NewCobIdUpToDate DEF DownloadCobId
<1>2. CASE Configure
  BY <1>1, <1>2, SetEnableUpToDate, MapUpToDate, SettingsUpToDate
     DEF Configure
<1> QED
  BY <1>2, SetNmtStateUpToDate, WriteUpToDate, SyncUpToDate, TimeUpUpToDate
     DEF Next

Complete == Inv /\ Full(tp) /\ UpToDate(tp, last)

LEMMA NextComplete ==
    ASSUME Online = {}, AllKnown
    PROVE  Complete /\ [Next]_vars => Complete'
<1> SUFFICES ASSUME Complete, [Next]_vars PROVE Complete'
  OBVIOUS
<1>1. CASE Next
  BY <1>1, NextKept, NextUpToDate DEF Kept, Complete
<1>2. CASE UNCHANGED vars
  BY <1>2 DEF vars, Complete, Inv, Full, UpToDate, Due
<1> QED
  BY <1>1, <1>2

LEMMA InitComplete == Init => Complete
<1> SUFFICES ASSUME Init PROVE Complete
  OBVIOUS
<1>1. ~tp.active /\ tp.map \in Seq(Known)
  BY EmptySeq DEF Init
<1> QED
  BY <1>1, InitInv, InactiveUpToDate DEF Complete

(* No change of a mapped variable is lost: an event-driven or acyclic TPDO *)
(* has sent the current values or still owes the frame with them, when its *)
(* type and inhibit time are set before it is activated.                   *)
THEOREM ChangesAreKept ==
    ASSUME Online = {}, AllKnown
    PROVE  Spec => []NoChangeLost
<1>1. Complete => NoChangeLost
  <2> SUFFICES ASSUME Complete PROVE NoChangeLost
    OBVIOUS
  <2>1. tp.active => tp.cache = Mapped(Len(tp.map))
    BY CacheIsMapped DEF Full, Complete
  <2> QED
    BY <2>1 DEF NoChangeLost, UpToDate, Due, Owed, Complete
<1> QED
  BY <1>1, InitComplete, NextComplete, PTL DEF Spec

-----------------------------------------------------------------------------
(* The published COB-ID *)

LEMMA TransmitCob ==
    ASSUME NEW t \in Fields, t.running => t.inhibited,
           Quiet(t) \/ Transmit(t)
    PROVE  tp'.cob = t.cob
<1>1. Triggered(t).cob = t.cob
  BY TriggeredFields
<1> QED
  BY <1>1 DEF Quiet, Transmit

LEMMA AnnounceCob ==
    ASSUME NEW t \in Fields, t.running => t.inhibited,
           Quiet(t) \/ Announce(t)
    PROVE  tp'.cob = t.cob
<1>1. Updated(t).cob = t.cob
  BY DEF Updated, Fields
<1>2. Quiet(t) \/ Transmit(t) \/ tp' = Updated(t)
  BY DEF Announce, Quiet
<1> QED
  BY <1>1, <1>2, TransmitCob

LEMMA ActivateCob ==
    ASSUME NEW t, NEW w, NEW state, Coherent(t, w, data, state),
           Activate(t, w, state)
    PROVE  tp'.cob = t.cob
<1> DEFINE n == Found(t.map)
           u == [t EXCEPT !.active = TRUE,
                          !.cache = [i \in 1..n |-> data[t.map[i]]]]
<1>1. t \in Fields /\ (t.running => t.inhibited) /\ u.cob = t.cob
  BY DEF Coherent, Fields
<1>2. CASE ~Activates(t, state)
  BY <1>1, <1>2, AnnounceCob DEF Activate
<1>3. CASE Activates(t, state)
  <2>1. Coherent(u, Registered(w, t.map, n, 1), data, state)
    BY <1>3, FilledCoherent
  <2>2. Quiet(u) \/ Announce(u)
    BY <1>3 DEF Activate
  <2> HIDE DEF u
  <2> QED
    BY <1>1, <2>1, <2>2, AnnounceCob DEF Coherent
<1> QED
  BY <1>2, <1>3

LEMMA DeactivateCob ==
    ASSUME NEW t \in Fields, Deactivate(t)
    PROVE  tp'.cob = t.cob
  BY DEF Deactivate, Deactivated, Quiet, Fields

(* A COB-ID that is put in place is the one the step ends with. *)
LEMMA NewCob ==
    ASSUME Inv, NEW cob \in CobId,
           IF cob.off THEN Deactivate([tp EXCEPT !.cob = cob])
           ELSE Activate([tp EXCEPT !.cob = cob], watch, nmt)
    PROVE  tp'.cob = cob
<1> DEFINE t == [tp EXCEPT !.cob = cob]
<1>1. /\ tp \in Fields /\ nmt \in NmtStates
      /\ tp.running => tp.inhibited
      /\ tp.active => Usable(tp.cob, tp.map, nmt)
  BY DEF Inv, Coherent
<1>2. /\ t \in Fields /\ t.active = tp.active /\ t.cache = tp.cache
      /\ t.map = tp.map /\ t.running = tp.running
      /\ t.inhibited = tp.inhibited /\ t.cob = cob
  BY <1>1 DEF Fields
<1> HIDE DEF t
<1>3. CASE cob.off
  BY <1>2, <1>3, DeactivateCob DEF t
<1>4. CASE ~cob.off
  <2>1. tp.active => Usable(cob, tp.map, nmt)
    BY <1>1, <1>4 DEF Usable
  <2>2. Coherent(t, watch, data, nmt)
    BY <1>1, <1>2, <2>1, SameMapping DEF Inv
  <2>3. Activate(t, watch, nmt)
    BY <1>4 DEF t
  <2> QED
    BY <1>2, <2>2, <2>3, ActivateCob
<1> QED
  BY <1>3, <1>4

LEMMA EnabledCob ==
    ASSUME Complete, NEW value \in BOOLEAN, SetEnable(value)
    PROVE  odCob' = tp'.cob
<1> DEFINE cob == [tp.cob EXCEPT !.off = ~value]
<1>1. tp \in Fields
  BY DEF Complete, Inv, Coherent
<1>2. cob \in CobId /\ cob.off = ~value
  BY <1>1 DEF Fields, CobId
<1>3. /\ [tp EXCEPT !.cob.off = ~value] = [tp EXCEPT !.cob = cob]
      /\ [tp EXCEPT !.cob = cob].cob = cob
  BY <1>1 DEF Fields
<1>4. value => ~Halfway([tp EXCEPT !.cob.off = ~value], nmt)
  BY SetEnableUpToDate DEF Complete
<1>5. /\ IF value THEN Activate([tp EXCEPT !.cob = cob], watch, nmt)
         ELSE Deactivate([tp EXCEPT !.cob = cob])
      /\ odCob' = cob
  BY <1>3, <1>4 DEF SetEnable
<1> HIDE DEF cob
<1> QED
  BY <1>2, <1>5, NewCob DEF Complete

LEMMA MapCob ==
    ASSUME Inv, NEW mapping \in Mappings, Map(mapping)
    PROVE  tp'.cob = tp.cob
<1> DEFINE q == Deactivated(tp)
           t == [q EXCEPT !.map = mapping]
<1>1. /\ Coherent(q, Unwatched(tp, watch), data, nmt) /\ ~q.active
  BY DeactivatedCoherent DEF Inv, Coherent
<1>2. q.cob = tp.cob
  BY DEF Inv, Coherent, Deactivated, Fields
<1>3. Activate(t, Unwatched(tp, watch), nmt)
  BY DEF Map
<1> HIDE DEF q
<1>4. /\ q \in Fields /\ q.cache = <<>>
      /\ q.running => q.inhibited
  BY <1>1 DEF Coherent
<1>5. /\ t \in Fields /\ t.active = q.active /\ t.cache = q.cache
      /\ t.map = mapping /\ t.running = q.running
      /\ t.inhibited = q.inhibited /\ t.cob = q.cob
  BY <1>4, MappingTypes DEF Fields
<1> HIDE DEF t
<1>6. Coherent(t, Unwatched(tp, watch), data, nmt)
  BY <1>1, <1>4, <1>5, MappingTypes, OtherMapping
<1> QED
  BY <1>2, <1>3, <1>5, <1>6, ActivateCob

LEMMA SentCob ==
    ASSUME Inv, \/ \E v \in Known, value \in Value : Write(v, value)
                \/ Sync
                \/ TimeUp
    PROVE  tp'.cob = tp.cob
<1>1. tp \in Fields /\ (tp.running => tp.inhibited)
  BY DEF Inv, Coherent
<1>2. ASSUME NEW v \in Known, NEW value \in Value, Write(v, value)
      PROVE  tp'.cob = tp.cob
  <2> DEFINE q == Packed(v, value, 8)
  <2>1. Quiet(tp) \/ Announce(q) \/ PackAndTransmit(v, value)
    BY <1>2 DEF Write
  <2>2. /\ q \in Fields /\ q.cob = tp.cob
        /\ q.running => q.inhibited
    BY <1>1, PackedFields
  <2>3. PackAndTransmit(v, value) => tp'.cob = q.cob
    BY <1>1, TransmitsPacked
  <2> HIDE DEF q
  <2> QED
    BY <1>1, <2>1, <2>2, <2>3, AnnounceCob
<1>3. ASSUME Sync PROVE tp'.cob = tp.cob
  <2> DEFINE z == [tp EXCEPT !.count = 0]
             u == Updated(tp)
  <2>1. \E t \in {tp, z, u} : Quiet(t) \/ Transmit(t)
    BY <1>3 DEF Sync, OnSync
  <2>2. Counted(tp.count) \in 0..MaxDivider /\ 0 \in 0..MaxDivider
    BY <1>1, CountedType, TypesAssumption DEF Fields
  <2>3. \A t \in {tp, z, u} : /\ t \in Fields /\ t.cob = tp.cob
                              /\ t.running => t.inhibited
    BY <1>1, <2>2 DEF Fields, Updated
  <2> QED
    BY <2>1, <2>3, TransmitCob
<1>4. ASSUME TimeUp PROVE tp'.cob = tp.cob
  <2> DEFINE q == [tp EXCEPT !.running = FALSE, !.again = FALSE]
  <2>1. Quiet(q) \/ Transmit(q)
    BY <1>4 DEF TimeUp
  <2>2. q \in Fields /\ q.cob = tp.cob /\ (q.running => q.inhibited)
    BY <1>1 DEF Fields
  <2> HIDE DEF q
  <2> QED
    BY <2>1, <2>2, TransmitCob
<1> QED
  BY <1>2, <1>3, <1>4

LEMMA StateCob ==
    ASSUME Inv, ~Predefined, NEW state \in NmtStates, SetNmtState(state)
    PROVE  tp'.cob = tp.cob
<1>1. tp \in Fields /\ tp.cob \in CobId /\ state # nmt
  BY DEF Inv, Coherent, SetNmtState, Fields
<1>2. CASE state = "OPERATIONAL"
  <2>1. OperationalCobId(tp.cob) = tp.cob
    BY DEF OperationalCobId
  <2>2. [tp EXCEPT !.cob = OperationalCobId(@)] = tp
    BY <1>1, <2>1 DEF Fields
  <2>3. Activate(tp, watch, state)
    BY <1>2, <2>2 DEF SetNmtState
  <2>4. /\ ~tp.active
        /\ tp.running => tp.inhibited
    BY <1>1, <1>2 DEF Inv, Coherent, Usable
  <2>5. Coherent(tp, watch, data, state)
    BY <1>1, <2>4, SameMapping DEF Inv
  <2> QED
    BY <2>3, <2>5, ActivateCob
<1>3. CASE state # "OPERATIONAL"
  BY <1>1, <1>3, DeactivateCob DEF SetNmtState
<1> QED
  BY <1>2, <1>3

(* What a client reads as the COB-ID of a TPDO above the first four is the *)
(* COB-ID in use, whichever of the application and the client set it and   *)
(* whatever NMT commands came between.                                     *)
THEOREM CobIdsPublished ==
    ASSUME Online = {}, AllKnown, ~Predefined
    PROVE  Spec => []CobIdPublished
<1>1. Init => CobIdPublished
  BY DEF Init, CobIdPublished
<1>2. Complete /\ CobIdPublished /\ [Next]_vars => CobIdPublished'
  <2> SUFFICES ASSUME Complete, CobIdPublished, [Next]_vars
               PROVE  odCob' = tp'.cob
    BY DEF CobIdPublished
  <2>1. Inv /\ odCob = tp.cob /\ tp \in Fields
    BY DEF Complete, CobIdPublished, Inv, Coherent
  <2>2. ASSUME NEW cob \in CobId, DownloadCobId(cob)
        PROVE  odCob' = tp'.cob
    BY <2>1, <2>2, NewCob DEF DownloadCobId
  <2>3. ASSUME NEW type \in Types, SetTransmissionType(type)
        PROVE  odCob' = tp'.cob
    BY <2>1, <2>3 DEF SetTransmissionType, Quiet, Fields
  <2>4. ASSUME NEW timed \in Timed, UpdateInhibitTime(timed)
        PROVE  odCob' = tp'.cob
    BY <2>1, <2>4 DEF UpdateInhibitTime, Quiet, Fields
  <2>5. ASSUME NEW mapping \in Mappings, Map(mapping)
        PROVE  odCob' = tp'.cob
    BY <2>1, <2>5, MapCob DEF Map
  <2>6. CASE Configure
    BY <2>2, <2>3, <2>4, <2>5, <2>6, EnabledCob DEF Configure
  <2>7. ASSUME NEW state \in NmtStates, SetNmtState(state)
        PROVE  odCob' = tp'.cob
    BY <2>1, <2>7, StateCob DEF SetNmtState
  <2>8. CASE \/ \E v \in Known, value \in Value : Write(v, value)
             \/ Sync
             \/ TimeUp
    BY <2>1, <2>8, SentCob DEF Write, Sync, TimeUp
  <2>9. CASE UNCHANGED vars
    BY <2>1, <2>9 DEF vars
  <2> QED
    BY <2>6, <2>7, <2>8, <2>9 DEF Next
<1> QED
  BY <1>1, <1>2, InitComplete, NextComplete, PTL DEF Spec
=============================================================================
