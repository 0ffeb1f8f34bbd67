------------------------------ MODULE LSSProofs ------------------------------
(***************************************************************************)
(* Theorems about LSSCommissioning, for any number of nodes, any width and *)
(* value of their addresses, any number of ids and faults.                 *)
(***************************************************************************)
EXTENDS LSSCommissioning, FiniteSetTheorems, TLAPS

-----------------------------------------------------------------------------
(* Powers of two, counted as sets of subsets. *)

LEMMA PowerCounts ==
    ASSUME NEW w \in Nat
    PROVE  /\ 2 ^ w \in Nat /\ IsFiniteSet(SUBSET (1..w))
           /\ Cardinality(SUBSET (1..w)) = 2 ^ w
<1>1. IsFiniteSet(1..w) /\ Cardinality(1..w) = w
  BY FS_Interval
<1>2. /\ IsFiniteSet(SUBSET (1..w))
      /\ Cardinality(SUBSET (1..w)) = 2 ^ w
  BY <1>1, FS_SUBSET
<1> QED
  BY <1>2, FS_CardinalityType

LEMMA PowerDoubles ==
    ASSUME NEW w \in Nat
    PROVE  2 ^ (w + 1) = 2 * 2 ^ w
<1> DEFINE low  == SUBSET (1..w)
           high == {t \cup {w + 1} : t \in low}
           f    == [t \in low |-> t \cup {w + 1}]
<1>1. /\ IsFiniteSet(low) /\ Cardinality(low) = 2 ^ w
      /\ Cardinality(SUBSET (1..(w + 1))) = 2 ^ (w + 1)
      /\ 2 ^ w \in Nat /\ 2 ^ (w + 1) \in Nat
  BY PowerCounts
<1>2. SUBSET (1..(w + 1)) = low \cup high
  <2>1. ASSUME NEW t \in SUBSET (1..(w + 1)) PROVE t \in low \cup high
    <3>1. CASE w + 1 \in t
      <4>1. t \ {w + 1} \in low /\ t = (t \ {w + 1}) \cup {w + 1}
        BY <3>1
      <4> QED
        BY <4>1
    <3>2. CASE w + 1 \notin t
      BY <3>2
    <3> QED
      BY <3>1, <3>2
  <2>2. ASSUME NEW t \in low PROVE t \subseteq 1..(w + 1) /\ t \cup {w + 1} \subseteq 1..(w + 1)
    OBVIOUS
  <2>3. \A t : t \in low \cup high <=> t \in SUBSET (1..(w + 1))
    BY <2>1, <2>2
  <2> HIDE DEF low, high
  <2> QED
    BY <2>3
<1>3. low \cap high = {}
  <2>1. \A t \in low : w + 1 \notin t
    OBVIOUS
  <2> QED
    BY <2>1
<1>4. ExistsBijection(low, high)
  <2>1. f \in [low -> high]
    OBVIOUS
  <2>2. \A a, b \in low : f[a] = f[b] => a = b
    <3> SUFFICES ASSUME NEW a \in low, NEW b \in low, a \cup {w + 1} = b \cup {w + 1}
                 PROVE  a = b
      OBVIOUS
    <3>1. w + 1 \notin a /\ w + 1 \notin b
      OBVIOUS
    <3>2. \A c : c \in a <=> c \in b
      BY <3>1
    <3> QED
      BY <3>2
  <2>3. \A u \in high : \E t \in low : f[t] = u
    OBVIOUS
  <2> HIDE DEF f, low, high
  <2> QED
    BY <2>1, <2>2, <2>3
    DEF ExistsBijection, Bijection, Injection, Surjection, IsInjective, Range
<1> HIDE DEF low, high
<1>5. IsFiniteSet(high) /\ Cardinality(high) = 2 ^ w
  BY <1>1, <1>4, FS_Bijection
<1>6. Cardinality(low \cup high) = 2 ^ w + 2 ^ w - Cardinality(low \cap high)
  BY <1>1, <1>5, FS_Union
<1>7. Cardinality(low \cap high) = 0
  BY <1>3, FS_EmptySet
<1> QED
  BY <1>1, <1>2, <1>6, <1>7

-----------------------------------------------------------------------------
(* What a command does to a slave *)

LEMMA NumbersApart == Numbers \subseteq Nat /\ None \notin Numbers
<1>1. 2 ^ Width \in Nat
  BY WidthAssumption, PowerCounts
<1> QED
  BY <1>1 DEF Numbers, None

LEMMA PartsAreCounts == \A n \in Node : Address[n] \in [Parts -> Nat]
<1> SUFFICES ASSUME NEW n \in Node PROVE Address[n] \in [Parts -> Nat]
  OBVIOUS
<1>1. Address[n] \in [Parts -> Numbers]
  BY AddressAssumption
<1> QED
  BY <1>1, NumbersApart

Blank    == [i \in Parts |-> None]
IdsOf(s) == {s.id, s.pending, s.stored} \ {Unset}

(* Only a node that never got an id has none pending.                      *)
Sound(s) == s \in Slave /\ (s.pending = Unset => s.id = Unset)

(* t follows s without being selected, given an id or led on in a scan.    *)
Quiet(s, t) ==
    /\ Sound(t)
    /\ t.mode \in {s.mode, "WAITING"}
    /\ t.selective \in {s.selective, Blank}
    /\ IdsOf(t) \subseteq IdsOf(s)
    /\ t.id = Unset => t.fastscan = 0 \/ (s.id = Unset /\ t.fastscan = s.fastscan)

SameRate(s, t) ==
    t.rate = s.rate /\ t.timers = s.timers /\ t.started = s.started

LEMMA ResetQuiet ==
    ASSUME NEW s, Sound(s)
    PROVE  LET t == Reset(s)
           IN  Quiet(s, t) /\ SameRate(s, t) /\ t.mode = "WAITING"
<1> DEFINE t == Reset(s)
<1>1. Blank \in [Parts -> Numbers \cup {None}]
  BY DEF Blank
<1>2. s \in Slave
  BY DEF Sound
<1>3. t = [s EXCEPT !.id = s.pending, !.mode = "WAITING", !.selective = Blank]
  BY DEF Reset, Blank
<1> HIDE DEF t
<1>4. t \in Slave
  BY <1>1, <1>2, <1>3 DEF Slave
<1>5. /\ t.id = s.pending /\ t.pending = s.pending /\ t.stored = s.stored
      /\ t.mode = "WAITING" /\ t.selective = Blank /\ t.fastscan = s.fastscan
      /\ t.rate = s.rate /\ t.timers = s.timers /\ t.started = s.started
  BY <1>2, <1>3 DEF Slave
<1> QED
  BY <1>4, <1>5 DEF Sound, Quiet, SameRate, IdsOf, t

LEMMA SwitchQuiet ==
    ASSUME NEW s, Sound(s)
    PROVE  LET t == SwitchToWaiting(s)
           IN  Quiet(s, t) /\ SameRate(s, t) /\ t.mode = "WAITING"
<1> DEFINE r == IF s.id = Unset /\ s.pending # Unset THEN Reset(s) ELSE s
           t == [r EXCEPT !.mode = "WAITING"]
<1>1. Quiet(s, r) /\ SameRate(s, r)
  <2>1. Quiet(s, Reset(s)) /\ SameRate(s, Reset(s))
    BY ResetQuiet
  <2>2. Quiet(s, s) /\ SameRate(s, s)
    BY DEF Quiet, Sound, SameRate
  <2> QED
    BY <2>1, <2>2
<1>2. SwitchToWaiting(s) = t
  BY DEF SwitchToWaiting
<1> HIDE DEF r
<1>3. /\ t \in Slave /\ t.mode = "WAITING" /\ t.selective = r.selective
      /\ t.id = r.id /\ t.pending = r.pending /\ t.stored = r.stored
      /\ t.fastscan = r.fastscan /\ t.rate = r.rate /\ t.timers = r.timers
      /\ t.started = r.started
  BY <1>1 DEF Quiet, Sound, Slave
<1> HIDE DEF t
<1> QED
  BY <1>1, <1>2, <1>3 DEF Quiet, Sound, SameRate, IdsOf

LEMMA PowerQuiet ==
    ASSUME NEW s, Sound(s)
    PROVE  LET t == PoweredOn(s.stored)
           IN  Quiet(s, t) /\ t.timers = 0
<1> DEFINE t == PoweredOn(s.stored)
<1>1. s.stored \in NodeIds \cup {Unset}
  BY DEF Sound, Slave
<1>2. t \in Slave
  BY <1>1 DEF PoweredOn, Slave, Rates
<1>3. /\ t.mode = "WAITING" /\ t.selective = Blank /\ t.fastscan = 0
      /\ t.id = s.stored /\ t.pending = s.stored /\ t.stored = s.stored
      /\ t.timers = 0
  BY DEF PoweredOn, Blank
<1> HIDE DEF t
<1> QED
  BY <1>2, <1>3 DEF Quiet, Sound, IdsOf, t

(* The commands that leave mode, scan and ids as they are.                 *)
LEMMA StoreQuiet ==
    ASSUME NEW s, Sound(s)
    PROVE  Quiet(s, StoreConfiguration(s)) /\ SameRate(s, StoreConfiguration(s))
  BY DEF Sound, Slave, StoreConfiguration, Quiet, SameRate, IdsOf

LEMMA RateQuiet ==
    ASSUME NEW s, Sound(s), NEW m, m.rate \in Rates
    PROVE  LET t == ConfigureBitTiming(s, m)
           IN  Quiet(s, t) /\ t.timers = s.timers
  BY DEF Sound, Slave, ConfigureBitTiming, Quiet, IdsOf

LEMMA SelfQuiet ==
    ASSUME NEW s, Sound(s)
    PROVE  Quiet(s, s) /\ SameRate(s, s)
  BY DEF Quiet, SameRate

LEMMA ActivateQuiet ==
    ASSUME NEW s, Sound(s)
    PROVE  LET t == ActivateBitTiming(s)
           IN  /\ Quiet(s, t) /\ t.rate = s.rate
               /\ t.timers = IF s.rate = "none" THEN s.timers ELSE s.timers + 1
               /\ t.started = IF s.rate = "none" THEN s.started ELSE s.rate
<1> DEFINE t == ActivateBitTiming(s)
<1>1. CASE s.rate = "none"
  <2>1. t = s
    BY <1>1 DEF ActivateBitTiming
  <2> QED
    BY <1>1, <2>1, SelfQuiet
<1>2. CASE s.rate # "none"
  <2>0. s \in Slave /\ s.timers + 1 \in Nat /\ s.rate \in Rates
    BY DEF Sound, Slave
  <2> DEFINE more == s.timers + 1
             rate == s.rate
  <2>1. t = [s EXCEPT !.timers = more, !.started = rate]
    BY <1>2 DEF ActivateBitTiming
  <2> HIDE DEF t, more, rate
  <2>2. /\ t \in Slave /\ t.timers = more /\ t.started = rate /\ t.rate = s.rate
        /\ t.mode = s.mode /\ t.selective = s.selective /\ t.fastscan = s.fastscan
        /\ t.id = s.id /\ t.pending = s.pending /\ t.stored = s.stored
    <3>1. more \in Nat /\ rate \in Rates
      BY <2>0 DEF more, rate
    <3> QED
      BY <2>0, <2>1, <3>1 DEF Slave
  <2> QED
    BY <1>2, <2>2 DEF Sound, Quiet, IdsOf, t, more, rate
<1> QED
  BY <1>1, <1>2

LEMMA TimerQuiet ==
    ASSUME NEW s, Sound(s), s.timers > 0
    PROVE  LET t == ChangeRate(s)
           IN  Quiet(s, t) /\ t.selective = s.selective /\ t.timers = s.timers - 1
<1> DEFINE t == ChangeRate(s)
<1>1. s.timers - 1 \in Nat /\ "none" \in Rates
  BY DEF Sound, Slave, Rates
<1>2. t = [s EXCEPT !.timers = s.timers - 1, !.started = "none", !.rate = "none"]
  BY DEF ChangeRate
<1> HIDE DEF t
<1>3. /\ t \in Slave /\ t.timers = s.timers - 1 /\ t.rate = "none"
      /\ t.mode = s.mode /\ t.selective = s.selective /\ t.fastscan = s.fastscan
      /\ t.id = s.id /\ t.pending = s.pending /\ t.stored = s.stored
  BY <1>1, <1>2 DEF Sound, Slave
<1> QED
  BY <1>3 DEF Sound, Quiet, IdsOf, t

LEMMA IdentifyQuiet ==
    ASSUME NEW s, Sound(s), NEW m, m.part \in Bounds, m.number \in Numbers
    PROVE  Quiet(s, IdentifyRemote(s, m)) /\ SameRate(s, IdentifyRemote(s, m))
<1> DEFINE t == IdentifyRemote(s, m)
<1>1. PICK list \in [Bounds -> Numbers \cup {None}] : t = [s EXCEPT !.remote = list]
  BY DEF Sound, Slave, IdentifyRemote, Collected
<1> HIDE DEF t
<1> QED
  BY <1>1 DEF Sound, Slave, Quiet, SameRate, IdsOf, t

(* A selective switch.                                                     *)
LEMMA SelectiveSlave ==
    ASSUME NEW n \in Node, NEW s, Sound(s), NEW m, m.part \in Parts, m.number \in Numbers
    PROVE  LET t == SwitchSelective(n, s, m)
           IN  /\ Sound(t) /\ SameRate(s, t) /\ IdsOf(t) = IdsOf(s)
               /\ t.id = s.id /\ t.fastscan = s.fastscan
               /\ t.mode = IF Chosen(n, s, m) THEN "CONFIGURATION" ELSE s.mode
               /\ t.selective = IF Complete(Received(s, m)) THEN Blank
                                ELSE Received(s, m)
<1> DEFINE list == IF Complete(Received(s, m)) THEN Blank ELSE Received(s, m)
           mode == IF Chosen(n, s, m) THEN "CONFIGURATION" ELSE s.mode
           t    == SwitchSelective(n, s, m)
<1>1. s \in Slave /\ Received(s, m) \in [Parts -> Numbers \cup {None}]
  BY DEF Sound, Slave, Received
<1>2. list \in [Parts -> Numbers \cup {None}] /\ mode \in {"WAITING", "CONFIGURATION"}
  BY <1>1 DEF Blank, Slave
<1>3. t = [s EXCEPT !.mode = mode, !.selective = list]
  BY DEF SwitchSelective, Blank
<1> HIDE DEF t, list, mode
<1>4. /\ t \in Slave /\ t.mode = mode /\ t.selective = list
      /\ t.id = s.id /\ t.pending = s.pending /\ t.stored = s.stored
      /\ t.fastscan = s.fastscan /\ t.rate = s.rate /\ t.timers = s.timers /\ t.started = s.started
  BY <1>1, <1>2, <1>3 DEF Slave
<1> QED
  BY <1>4 DEF Sound, SameRate, IdsOf, t, list, mode

(* A node id.                                                              *)
LEMMA IdSlave ==
    ASSUME NEW s, Sound(s), NEW m, m.id \in NodeIds
    PROVE  LET t == ConfigureNodeId(s, m)
           IN  /\ Sound(t) /\ SameRate(s, t) /\ IdsOf(t) \subseteq IdsOf(s) \cup {m.id}
               /\ t.mode = s.mode /\ t.selective = s.selective
               /\ t.id = s.id /\ t.fastscan = s.fastscan
  BY DEF Sound, Slave, ConfigureNodeId, AcceptsNodeId, SameRate, IdsOf, NodeIds, Unset

(* A fastscan command.                                                     *)
LEMMA ScanSlave ==
    ASSUME NEW n \in Node, NEW s, Sound(s), NEW m, m.next \in Parts
    PROVE  LET t == Fastscan(n, s, m)
           IN  /\ Sound(t) /\ SameRate(s, t) /\ IdsOf(t) = IdsOf(s)
               /\ t.id = s.id /\ t.selective = s.selective
               /\ \/ /\ s.id = Unset /\ m.bit = ScanReset
                     /\ t.fastscan = 0 /\ t.mode = s.mode
                  \/ /\ Matches(n, s, m) /\ t.fastscan = m.next
                     /\ t.mode = IF m.bit = 0 /\ m.sub = 3 THEN "CONFIGURATION" ELSE s.mode
                  \/ /\ ~(s.id = Unset /\ m.bit = ScanReset) /\ ~Matches(n, s, m)
                     /\ t.fastscan = s.fastscan /\ t.mode = s.mode
<1> DEFINE t == Fastscan(n, s, m)
<1>1. s \in Slave
  BY DEF Sound
<1>2. CASE s.id = Unset /\ m.bit = ScanReset
  <2>1. t = [s EXCEPT !.fastscan = 0]
    BY <1>2 DEF Fastscan
  <2> HIDE DEF t
  <2>2. /\ t \in Slave /\ t.fastscan = 0 /\ t.mode = s.mode /\ t.selective = s.selective
        /\ t.id = s.id /\ t.pending = s.pending /\ t.stored = s.stored
        /\ t.rate = s.rate /\ t.timers = s.timers /\ t.started = s.started
    BY <1>1, <2>1 DEF Slave
  <2> QED
    BY <1>2, <2>2 DEF Sound, SameRate, IdsOf, t
<1>3. CASE ~(s.id = Unset /\ m.bit = ScanReset) /\ Matches(n, s, m)
  <2> DEFINE mode == IF m.bit = 0 /\ m.sub = 3 THEN "CONFIGURATION" ELSE s.mode
  <2>1. t = [s EXCEPT !.fastscan = m.next, !.mode = mode]
    BY <1>3 DEF Fastscan
  <2>2. mode \in {"WAITING", "CONFIGURATION"} /\ m.next \in 0..255
    BY <1>1 DEF Slave, Parts
  <2> HIDE DEF t, mode
  <2>3. /\ t \in Slave /\ t.fastscan = m.next /\ t.mode = mode
        /\ t.selective = s.selective
        /\ t.id = s.id /\ t.pending = s.pending /\ t.stored = s.stored
        /\ t.rate = s.rate /\ t.timers = s.timers /\ t.started = s.started
    BY <1>1, <2>1, <2>2 DEF Slave
  <2> QED
    BY <1>3, <2>3 DEF Sound, SameRate, IdsOf, t, mode
<1>4. CASE ~(s.id = Unset /\ m.bit = ScanReset) /\ ~Matches(n, s, m)
  <2>1. t = s
    BY <1>4 DEF Fastscan
  <2> QED
    BY <1>4, <2>1 DEF SameRate
<1> QED
  BY <1>2, <1>3, <1>4

(* Everyone hears the same; a command that is not taken changes nothing.   *)
LEMMA Hears ==
    ASSUME NEW m, sl' = Delivered(m), NEW n \in Node
    PROVE  sl'[n] = Handled(n, sl[n], m)
  BY DEF Delivered

LEMMA WaitingHeard ==
    ASSUME NEW n \in Node, Sound(sl[n]), sl' = Delivered(Command("globalWaiting"))
    PROVE  Quiet(sl[n], sl'[n]) /\ SameRate(sl[n], sl'[n]) /\ sl'[n].mode = "WAITING"
<1>1. sl'[n] = Handled(n, sl[n], Command("globalWaiting"))
  BY Hears
<1>2. CASE sl[n].mode = "WAITING"
  <2>1. sl'[n] = sl[n]
    BY <1>1, <1>2 DEF Handled, Takes, WaitingCommands, Command
  <2> QED
    BY <1>2, <2>1, SelfQuiet
<1>3. CASE sl[n].mode # "WAITING"
  <2>1. sl'[n] = SwitchToWaiting(sl[n])
    BY <1>1, <1>3 DEF Handled, Takes, ConfigurationCommands, Command
  <2> QED
    BY <2>1, SwitchQuiet
<1> QED
  BY <1>2, <1>3

LEMMA ConfigurationHeard ==
    ASSUME NEW n \in Node, Sound(sl[n]), sl' = Delivered(Command("globalConfiguration"))
    PROVE  /\ Sound(sl'[n]) /\ SameRate(sl[n], sl'[n])
           /\ IdsOf(sl'[n]) = IdsOf(sl[n]) /\ sl'[n].selective = sl[n].selective
<1>1. sl'[n] \in {sl[n], [sl[n] EXCEPT !.mode = "CONFIGURATION"]}
  BY Hears DEF Handled, Command
<1> QED
  BY <1>1 DEF Sound, Slave, SameRate, IdsOf

LEMMA StoreHeard ==
    ASSUME NEW n \in Node, Sound(sl[n]), sl' = Delivered(Command("store"))
    PROVE  Quiet(sl[n], sl'[n]) /\ SameRate(sl[n], sl'[n])
<1>1. sl'[n] = Handled(n, sl[n], Command("store"))
  BY Hears
<1>2. sl'[n] \in {sl[n], StoreConfiguration(sl[n])}
  BY <1>1 DEF Handled, Command
<1> QED
  BY <1>2, StoreQuiet, SelfQuiet

LEMMA UnsetHeard ==
    ASSUME NEW n \in Node, Sound(sl[n]), sl' = Delivered(Command("identifyUnset"))
    PROVE  Quiet(sl[n], sl'[n]) /\ SameRate(sl[n], sl'[n])
<1>1. sl'[n] = Handled(n, sl[n], Command("identifyUnset"))
  BY Hears
<1>2. sl'[n] = sl[n]
  BY <1>1 DEF Handled, Command
<1> QED
  BY <1>2, SelfQuiet

LEMMA ActivateHeard ==
    ASSUME NEW n \in Node, Sound(sl[n]), sl' = Delivered(Command("activateBitTiming"))
    PROVE  /\ Quiet(sl[n], sl'[n]) /\ sl'[n].rate = sl[n].rate
           /\ \/ sl'[n].timers = sl[n].timers /\ sl'[n].started = sl[n].started
              \/ /\ sl[n].rate # "none" /\ sl'[n].timers = sl[n].timers + 1
                 /\ sl'[n].started = sl[n].rate
<1>1. sl'[n] = Handled(n, sl[n], Command("activateBitTiming"))
  BY Hears
<1>2. CASE sl'[n] = sl[n]
  BY <1>2, SelfQuiet
<1>3. CASE sl'[n] = ActivateBitTiming(sl[n])
  BY <1>3, ActivateQuiet
<1> QED
  BY <1>1, <1>2, <1>3 DEF Handled, Command

LEMMA RateHeard ==
    ASSUME NEW n \in Node, Sound(sl[n]), NEW r \in Rates,
           sl' = Delivered([cs |-> "configureBitTiming", rate |-> r])
    PROVE  Quiet(sl[n], sl'[n]) /\ sl'[n].timers = sl[n].timers
<1> DEFINE m == [cs |-> "configureBitTiming", rate |-> r]
<1>1. sl'[n] = Handled(n, sl[n], m) /\ m.cs = "configureBitTiming"
  BY Hears
<1>2. m.rate \in Rates
  OBVIOUS
<1> HIDE DEF m
<1>3. sl'[n] \in {sl[n], ConfigureBitTiming(sl[n], m)}
  BY <1>1 DEF Handled
<1> QED
  BY <1>2, <1>3, RateQuiet, SelfQuiet DEF SameRate

LEMMA IdentifyHeard ==
    ASSUME NEW n \in Node, Sound(sl[n]), NEW part \in Bounds, NEW number \in Numbers,
           sl' = Delivered([cs |-> "identify", part |-> part, number |-> number])
    PROVE  Quiet(sl[n], sl'[n]) /\ SameRate(sl[n], sl'[n])
<1> DEFINE m == [cs |-> "identify", part |-> part, number |-> number]
<1>1. sl'[n] = Handled(n, sl[n], m) /\ m.cs = "identify"
  BY Hears
<1>2. m.part \in Bounds /\ m.number \in Numbers
  OBVIOUS
<1> HIDE DEF m
<1>3. sl'[n] \in {sl[n], IdentifyRemote(sl[n], m)}
  BY <1>1 DEF Handled
<1> QED
  BY <1>2, <1>3, IdentifyQuiet, SelfQuiet

LEMMA IdHeard ==
    ASSUME NEW n \in Node, Sound(sl[n]), NEW id \in NodeIds,
           sl' = Delivered([cs |-> "configureNodeId", id |-> id])
    PROVE  /\ Sound(sl'[n]) /\ SameRate(sl[n], sl'[n])
           /\ sl'[n].selective = sl[n].selective
           /\ IdsOf(sl'[n]) \subseteq IdsOf(sl[n]) \cup {id}
           /\ sl[n].mode = "WAITING" => IdsOf(sl'[n]) = IdsOf(sl[n])
<1> DEFINE m == [cs |-> "configureNodeId", id |-> id]
<1>1. sl'[n] = Handled(n, sl[n], m)
  BY Hears
<1>2. m.id = id /\ m.cs = "configureNodeId"
  OBVIOUS
<1> HIDE DEF m
<1>3. CASE sl[n].mode = "WAITING"
  <2>1. sl'[n] = sl[n]
    BY <1>1, <1>2, <1>3 DEF Handled, Takes, WaitingCommands
  <2> QED
    BY <2>1 DEF SameRate
<1>4. CASE sl[n].mode # "WAITING"
  <2>1. sl'[n] = ConfigureNodeId(sl[n], m)
    BY <1>1, <1>2, <1>4 DEF Handled, Takes, ConfigurationCommands
  <2> QED
    BY <1>2, <1>4, <2>1, IdSlave
<1> QED
  BY <1>3, <1>4

(* Every node takes a fastscan command, in either mode.                    *)
LEMMA ScanHeard ==
    ASSUME NEW n \in Node, NEW m, m.cs = "fastscan", sl' = Delivered(m), Sound(sl[n])
    PROVE  sl'[n] = Fastscan(n, sl[n], m)
<1>1. sl'[n] = Handled(n, sl[n], m) /\ Takes(sl[n], m)
  BY Hears DEF Takes, WaitingCommands, ConfigurationCommands
<1> QED
  BY <1>1 DEF Handled

LEMMA SelectiveHeard ==
    ASSUME NEW n \in Node, NEW m, m.cs = "selective", sl' = Delivered(m), Sound(sl[n])
    PROVE  /\ sl[n].mode = "WAITING" => sl'[n] = SwitchSelective(n, sl[n], m)
           /\ sl[n].mode # "WAITING" => sl'[n] = sl[n]
<1>1. sl'[n] = Handled(n, sl[n], m)
  BY Hears
<1> QED
  BY <1>1 DEF Handled, Takes, WaitingCommands, ConfigurationCommands

-----------------------------------------------------------------------------
(* The invariant *)

(* No two addresses differ only in the last bit of the serial number.      *)
(* While the master asks for this bit, a node that has a zero there is     *)
(* selected already, and stays it when its answer is lost.                 *)
Separable ==
    \A n, k \in Node :
      /\ \A i \in 0..2 : Address[n][i] = Address[k][i]
      /\ Address[n][3] \div 2 = Address[k][3] \div 2
      => n = k

LoosePhases == {"idle", "leave", "rate", "activate", "store", "probe"}

Bits    == 0..Width
Counts  == 1..(MaxId + 1)
Masters == [phase : Phases, sub : Bounds, bit : Bits, id : Counts,
            number : [Parts -> Nat]]

MasterInv ==
    /\ ma \in Masters
    /\ ma.phase \in {"scan", "confirm", "select"} => ma.sub \in Parts
    /\ ma.phase \in {"idle", "reset"} => ma.sub = 0 /\ ma.number = Zeros
    /\ ma.phase \notin LoosePhases => ma.id <= MaxId

(* Every id a node has, is about to take or comes back with was given out, *)
(* and to this node.                                                       *)
SlavesInv ==
    /\ sl = [n \in Node |-> sl[n]]
    /\ \A n \in Node : Sound(sl[n]) /\ IdsOf(sl[n]) \subseteq 1..(ma.id - 1)
    /\ Separable =>
         \A n, k \in Node : n # k => IdsOf(sl[n]) \cap IdsOf(sl[k]) = {}

(* Nobody is selected before the last part was asked for in full.          *)
NoneSelected ==
    ma.phase \in {"reset", "scan", "select"} \/ (ma.phase = "confirm" /\ ma.sub # 3)
      => \A n \in Node : sl[n].mode = "WAITING"

(* A node keeps its place in the scan only while the numbers found so far  *)
(* are its own.                                                            *)
InStep(n) ==
    sl[n].id = Unset =>
      /\ sl[n].fastscan <= ma.sub
      /\ sl[n].fastscan = ma.sub =>
           \A i \in Parts : i < ma.sub => Address[n][i] = ma.number[i]

(* Whether the last bit of the serial number is one is only known when the *)
(* number is confirmed.                                                    *)
Near(n) == /\ \A i \in 0..2 : Address[n][i] = ma.number[i]
           /\ Address[n][3] \div 2 = ma.number[3] \div 2

Even(i) == ma.number[i] % 2 = 0

ScanInv ==
    /\ NoneSelected
    /\ ma.phase \in {"scan", "confirm"} => \A n \in Node : InStep(n)
    /\ ma.phase = "scan" => \A i \in Parts : i >= ma.sub => Even(i)
    /\ ma.phase = "confirm" => \A i \in Parts : i > ma.sub => Even(i)
    /\ ma.phase = "confirm" /\ ma.sub = 3 => \A n \in Selected : Near(n)
    /\ Separable => OnlyFoundIsSelected

(* All slaves have received the same parts of a selective switch.          *)
SelectInv ==
    IF ma.phase = "select"
    THEN /\ ma.number \in [Parts -> Numbers]
         /\ \A n \in Node : \A i \in Parts :
              sl[n].selective[i] = IF i < ma.sub THEN ma.number[i] ELSE None
    ELSE \A n \in Node : sl[n].selective = Blank

(* With a patient master there is one timer at most, of the rate it was    *)
(* started for.                                                            *)
Timed(s) == s.timers > 0 => s.timers = 1 /\ s.rate # "none" /\ s.rate = s.started
RateInv == Patient => \A n \in Node :
                        /\ Timed(sl[n])
                        /\ ma.phase \in {"rate", "activate"} => sl[n].timers = 0

Inv == MasterInv /\ SlavesInv /\ ScanInv /\ SelectInv /\ RateInv

-----------------------------------------------------------------------------
(* Steps that select nobody *)

LEMMA QuietSlaves ==
    ASSUME SlavesInv, sl' = [n \in Node |-> sl'[n]], ma'.id = ma.id,
           \A n \in Node : Sound(sl'[n]) /\ IdsOf(sl'[n]) \subseteq IdsOf(sl[n])
    PROVE  SlavesInv'
<1>1. \A n \in Node : IdsOf(sl'[n]) = IdsOf(sl[n])' /\ Sound(sl'[n]) = Sound(sl[n])'
  BY DEF IdsOf, Sound, Slave
<1>2. \A n \in Node : Sound(sl[n])' /\ IdsOf(sl[n])' \subseteq 1..(ma'.id - 1)
  BY <1>1 DEF SlavesInv
<1>3. Separable => \A n, k \in Node : n # k => IdsOf(sl[n])' \cap IdsOf(sl[k])' = {}
  BY <1>1 DEF SlavesInv
<1> QED
  BY <1>2, <1>3 DEF SlavesInv

LEMMA QuietRates ==
    ASSUME RateInv, \A n \in Node : SameRate(sl[n], sl'[n]),
           ma'.phase \notin {"rate", "activate"} \/ ma.phase \in {"rate", "activate"}
    PROVE  RateInv'
  BY DEF RateInv, SameRate, Timed

(* A phase in which nothing is asked of the nodes' places.                 *)
LEMMA Settles ==
    ASSUME ma'.phase \in LoosePhases, \A n \in Node : sl'[n].selective = Blank
    PROVE  ScanInv' /\ SelectInv'
  BY DEF LoosePhases, ScanInv, SelectInv, NoneSelected, OnlyFoundIsSelected, Blank

LEMMA ToLoose ==
    ASSUME MasterInv, NEW p \in LoosePhases \ {"idle"}, ma' = To(p)
    PROVE  MasterInv' /\ ma'.phase = p /\ ma'.id = ma.id
  BY DEF MasterInv, Masters, To, LoosePhases, Phases

LEMMA ToIdle ==
    ASSUME MasterInv, ma' = Idle
    PROVE  MasterInv' /\ ma'.phase = "idle" /\ ma'.id = ma.id
<1>1. Zeros \in [Parts -> Nat] /\ "idle" \in Phases /\ 0 \in Bits /\ 0 \in Bounds
  BY WidthAssumption DEF Zeros, Phases, Bits, Bounds
<1>2. ma' = [ma EXCEPT !.phase = "idle", !.sub = 0, !.bit = 0, !.number = Zeros]
  BY DEF Idle
<1>3. /\ ma' \in Masters /\ ma'.phase = "idle" /\ ma'.sub = 0 /\ ma'.number = Zeros
      /\ ma'.id = ma.id
  BY <1>1, <1>2 DEF MasterInv, Masters
<1> QED
  BY <1>1, <1>3 DEF MasterInv, LoosePhases

(* An answer the master hears was given.                                   *)
LEMMA Exchanged ==
    ASSUME NEW m, NEW onAnswer, NEW onSilence, Exchange(m, onAnswer, onSilence)
    PROVE  /\ sl' = Delivered(m) /\ sl' = [n \in Node |-> sl'[n]]
           /\ \/ ma' = onAnswer /\ Answering(m) # {}
              \/ ma' = onSilence
  BY DEF Exchange, Delivered

LEMMA Told ==
    ASSUME NEW m, NEW next, Tell(m, next)
    PROVE  sl' = Delivered(m) /\ sl' = [n \in Node |-> sl'[n]] /\ ma' = next
  BY Exchanged DEF Tell

LEMMA StoreStep == ASSUME Inv, Store PROVE Inv'
<1>1. ma.phase = "store" /\ Tell(Command("store"), To("leave"))
  BY DEF Store
<1>2. sl' = Delivered(Command("store")) /\ sl' = [n \in Node |-> sl'[n]]
      /\ ma' = To("leave")
  BY <1>1, Told
<1>3. \A n \in Node : Sound(sl[n]) /\ sl[n].selective = Blank
  BY <1>1 DEF Inv, SlavesInv, SelectInv
<1>4. \A n \in Node : Quiet(sl[n], sl'[n]) /\ SameRate(sl[n], sl'[n])
  BY <1>2, <1>3, StoreHeard
<1>5. MasterInv' /\ ma'.phase = "leave" /\ ma'.id = ma.id
  BY <1>2, ToLoose DEF Inv, LoosePhases
<1>6. SlavesInv'
  BY <1>2, <1>4, <1>5, QuietSlaves DEF Inv, Quiet
<1>7. ScanInv' /\ SelectInv'
  BY <1>3, <1>4, <1>5, Settles DEF Quiet, LoosePhases
<1>8. RateInv'
  BY <1>4, <1>5, QuietRates DEF Inv
<1> QED
  BY <1>5, <1>6, <1>7, <1>8 DEF Inv

LEMMA LeaveStep == ASSUME Inv, Leave PROVE Inv'
<1>1. ma.phase = "leave" /\ Tell(Command("globalWaiting"), Idle)
  BY DEF Leave
<1>2. sl' = Delivered(Command("globalWaiting")) /\ sl' = [n \in Node |-> sl'[n]]
      /\ ma' = Idle
  BY <1>1, Told
<1>3. \A n \in Node : Sound(sl[n]) /\ sl[n].selective = Blank
  BY <1>1 DEF Inv, SlavesInv, SelectInv
<1>4. \A n \in Node : Quiet(sl[n], sl'[n]) /\ SameRate(sl[n], sl'[n])
  BY <1>2, <1>3, WaitingHeard
<1>5. MasterInv' /\ ma'.phase = "idle" /\ ma'.id = ma.id
  BY <1>2, ToIdle DEF Inv
<1>6. SlavesInv'
  BY <1>2, <1>4, <1>5, QuietSlaves DEF Inv, Quiet
<1>7. ScanInv' /\ SelectInv'
  BY <1>3, <1>4, <1>5, Settles DEF Quiet, LoosePhases
<1>8. RateInv'
  BY <1>4, <1>5, QuietRates DEF Inv
<1> QED
  BY <1>5, <1>6, <1>7, <1>8 DEF Inv

LEMMA StartProbeStep == ASSUME Inv, StartProbe PROVE Inv'
<1>1. ma.phase = "idle" /\ Tell(Command("identifyUnset"), To("probe"))
  BY DEF StartProbe
<1>2. sl' = Delivered(Command("identifyUnset")) /\ sl' = [n \in Node |-> sl'[n]]
      /\ ma' = To("probe")
  BY <1>1, Told
<1>3. \A n \in Node : Sound(sl[n]) /\ sl[n].selective = Blank
  BY <1>1 DEF Inv, SlavesInv, SelectInv
<1>4. \A n \in Node : Quiet(sl[n], sl'[n]) /\ SameRate(sl[n], sl'[n])
  BY <1>2, <1>3, UnsetHeard
<1>5. MasterInv' /\ ma'.phase = "probe" /\ ma'.id = ma.id
  BY <1>2, ToLoose DEF Inv, LoosePhases
<1>6. SlavesInv'
  BY <1>2, <1>4, <1>5, QuietSlaves DEF Inv, Quiet
<1>7. ScanInv' /\ SelectInv'
  BY <1>3, <1>4, <1>5, Settles DEF Quiet, LoosePhases
<1>8. RateInv'
  BY <1>4, <1>5, QuietRates DEF Inv
<1> QED
  BY <1>5, <1>6, <1>7, <1>8 DEF Inv

LEMMA ProbePartStep == ASSUME Inv, ProbePart PROVE Inv'
<1>1. PICK n \in Known :
        Tell([cs |-> "identify", part |-> ma.sub, number |-> SerialRange(n)[ma.sub]],
             IF ma.sub = 5 THEN Idle ELSE [ma EXCEPT !.sub = @ + 1])
  BY DEF ProbePart
<1> DEFINE number == SerialRange(n)[ma.sub]
           next   == IF ma.sub = 5 THEN Idle ELSE [ma EXCEPT !.sub = @ + 1]
<1>2. ma.phase = "probe" /\ ma.sub \in Bounds
  BY DEF ProbePart, Inv, MasterInv, Masters
<1>3. number \in Numbers
  <2>1. n \in Node /\ \A i \in Parts : Address[n][i] \in Numbers
    BY KnownAssumption, AddressAssumption
  <2>2. 0 \in Numbers
    <3>1. 2 ^ Width \in Nat /\ Address[n][0] \in 0..(2 ^ Width - 1)
      BY <2>1, WidthAssumption, PowerCounts DEF Numbers, Parts
    <3> QED
      BY <3>1 DEF Numbers
  <2> QED
    BY <1>2, <2>1, <2>2 DEF SerialRange, Bounds, Parts
<1>4. /\ sl' = Delivered([cs |-> "identify", part |-> ma.sub, number |-> number])
      /\ sl' = [k \in Node |-> sl'[k]] /\ ma' = next
  BY <1>1, Told
<1> HIDE DEF number
<1>5. \A k \in Node : Sound(sl[k]) /\ sl[k].selective = Blank
  BY <1>2 DEF Inv, SlavesInv, SelectInv
<1>6. \A k \in Node : Quiet(sl[k], sl'[k]) /\ SameRate(sl[k], sl'[k])
  BY <1>2, <1>3, <1>4, <1>5, IdentifyHeard
<1>7. MasterInv' /\ ma'.phase \in {"idle", "probe"} /\ ma'.id = ma.id
  <2>1. CASE ma.sub = 5
    BY <1>4, <2>1, ToIdle DEF Inv
  <2>2. CASE ma.sub # 5
    <3>1. ma' = [ma EXCEPT !.sub = ma.sub + 1] /\ ma.sub + 1 \in Bounds
      BY <1>2, <1>4, <2>2 DEF Bounds
    <3> QED
      BY <1>2, <3>1 DEF Inv, MasterInv, Masters, LoosePhases
  <2> QED
    BY <2>1, <2>2
<1>8. SlavesInv'
  BY <1>4, <1>6, <1>7, QuietSlaves DEF Inv, Quiet
<1>9. ScanInv' /\ SelectInv'
  BY <1>5, <1>6, <1>7, Settles DEF Quiet, LoosePhases
<1>10. RateInv'
  BY <1>6, <1>7, QuietRates DEF Inv
<1> QED
  BY <1>7, <1>8, <1>9, <1>10 DEF Inv

LEMMA StartRateStep == ASSUME Inv, StartRate PROVE Inv'
<1>1. /\ ma.phase = "idle" /\ (Patient => \A n \in Node : sl[n].timers = 0)
      /\ Tell(Command("globalConfiguration"), To("rate"))
  BY DEF StartRate
<1>2. sl' = Delivered(Command("globalConfiguration")) /\ sl' = [n \in Node |-> sl'[n]]
      /\ ma' = To("rate")
  BY <1>1, Told
<1>3. \A n \in Node : Sound(sl[n]) /\ sl[n].selective = Blank
  BY <1>1 DEF Inv, SlavesInv, SelectInv
<1>4. \A n \in Node : /\ Sound(sl'[n]) /\ SameRate(sl[n], sl'[n])
                      /\ IdsOf(sl'[n]) = IdsOf(sl[n]) /\ sl'[n].selective = Blank
  BY <1>2, <1>3, ConfigurationHeard
<1>5. MasterInv' /\ ma'.phase = "rate" /\ ma'.id = ma.id
  BY <1>2, ToLoose DEF Inv, LoosePhases
<1>6. SlavesInv'
  BY <1>2, <1>4, <1>5, QuietSlaves DEF Inv
<1>7. ScanInv' /\ SelectInv'
  BY <1>4, <1>5, Settles DEF LoosePhases
<1>8. RateInv'
  BY <1>1, <1>4 DEF RateInv, Timed, SameRate
<1> QED
  BY <1>5, <1>6, <1>7, <1>8 DEF Inv

LEMMA GiveRateStep == ASSUME Inv, GiveRate PROVE Inv'
<1>1. PICK r \in Rates : Exchange([cs |-> "configureBitTiming", rate |-> r],
                                  To("activate"), To("leave"))
  BY DEF GiveRate
<1>2. /\ sl' = Delivered([cs |-> "configureBitTiming", rate |-> r])
      /\ sl' = [n \in Node |-> sl'[n]]
      /\ ma' = To("activate") \/ ma' = To("leave")
  BY <1>1, Exchanged
<1>3. \A n \in Node : /\ Sound(sl[n]) /\ sl[n].selective = Blank
                      /\ Patient => sl[n].timers = 0
  BY DEF GiveRate, Inv, SlavesInv, SelectInv, RateInv
<1>4. \A n \in Node : Quiet(sl[n], sl'[n]) /\ sl'[n].timers = sl[n].timers
  BY <1>2, <1>3, RateHeard
<1>5. MasterInv' /\ ma'.phase \in {"activate", "leave"} /\ ma'.id = ma.id
  BY <1>2, ToLoose DEF Inv, LoosePhases
<1>6. SlavesInv'
  BY <1>2, <1>4, <1>5, QuietSlaves DEF Inv, Quiet
<1>7. ScanInv' /\ SelectInv'
  BY <1>3, <1>4, <1>5, Settles DEF Quiet, LoosePhases
<1>8. RateInv'
  BY <1>3, <1>4 DEF RateInv, Timed
<1> QED
  BY <1>5, <1>6, <1>7, <1>8 DEF Inv

LEMMA ActivateStep == ASSUME Inv, Activate PROVE Inv'
<1>1. ma.phase = "activate" /\ Tell(Command("activateBitTiming"), To("leave"))
  BY DEF Activate
<1>2. sl' = Delivered(Command("activateBitTiming")) /\ sl' = [n \in Node |-> sl'[n]]
      /\ ma' = To("leave")
  BY <1>1, Told
<1>3. \A n \in Node : /\ Sound(sl[n]) /\ sl[n].selective = Blank
                      /\ Patient => sl[n].timers = 0
  BY <1>1 DEF Inv, SlavesInv, SelectInv, RateInv
<1>4. \A n \in Node : /\ Quiet(sl[n], sl'[n]) /\ sl'[n].rate = sl[n].rate
                      /\ \/ sl'[n].timers = sl[n].timers
                         \/ /\ sl[n].rate # "none" /\ sl'[n].timers = sl[n].timers + 1
                            /\ sl'[n].started = sl[n].rate
  BY <1>2, <1>3, ActivateHeard
<1>5. MasterInv' /\ ma'.phase = "leave" /\ ma'.id = ma.id
  BY <1>2, ToLoose DEF Inv, LoosePhases
<1>6. SlavesInv'
  BY <1>2, <1>4, <1>5, QuietSlaves DEF Inv, Quiet
<1>7. ScanInv' /\ SelectInv'
  BY <1>3, <1>4, <1>5, Settles DEF Quiet, LoosePhases
<1>8. RateInv'
  BY <1>3, <1>4, <1>5 DEF RateInv, Timed
<1> QED
  BY <1>5, <1>6, <1>7, <1>8 DEF Inv

-----------------------------------------------------------------------------
(* Faults and timers *)

LEMMA Calm ==
    ASSUME Inv, ma' = ma, sl' = [n \in Node |-> sl'[n]],
           \A n \in Node : Quiet(sl[n], sl'[n]),
           ma.phase = "select" => \A n \in Node : sl'[n].selective = sl[n].selective
    PROVE  MasterInv' /\ SlavesInv' /\ ScanInv' /\ SelectInv'
<1>1. MasterInv' /\ ma.sub \in Nat
  BY DEF Inv, MasterInv, Masters, Bounds
<1>2. SlavesInv'
  BY QuietSlaves DEF Inv, Quiet
<1>3. NoneSelected'
  BY DEF Inv, ScanInv, NoneSelected, Quiet
<1>4. Selected' \subseteq Selected
  BY DEF Selected, Quiet
<1>5. ASSUME NEW n \in Node, InStep(n) PROVE InStep(n)'
  <2>1. sl'[n].id = Unset => \/ sl'[n].fastscan = 0
                             \/ sl[n].id = Unset /\ sl'[n].fastscan = sl[n].fastscan
    BY DEF Quiet
  <2>2. ma.sub = 0 => \A i \in Parts : ~(i < ma.sub)
    BY DEF Parts
  <2> QED
    BY <1>1, <1>5, <2>1, <2>2 DEF InStep
<1>6. Separable => OnlyFoundIsSelected'
  BY <1>4 DEF Inv, ScanInv, OnlyFoundIsSelected
<1>7. ma.phase = "confirm" /\ ma.sub = 3 => \A n \in Selected' : Near(n)'
  BY <1>4 DEF Inv, ScanInv, Near
<1>8. ScanInv'
  BY <1>3, <1>5, <1>6, <1>7 DEF Inv, ScanInv, Even
<1>9. SelectInv'
  BY DEF Inv, SelectInv, Quiet, Blank
<1> QED
  BY <1>1, <1>2, <1>8, <1>9

LEMMA BusResetStep == ASSUME Inv, BusReset PROVE Inv'
<1>1. ma' = ma /\ ma.phase # "select" /\ sl' = [n \in Node |-> Reset(sl[n])]
  BY DEF BusReset, Fault, NmtReset
<1>2. \A n \in Node : Quiet(sl[n], sl'[n]) /\ SameRate(sl[n], sl'[n])
  BY <1>1, ResetQuiet DEF Inv, SlavesInv
<1>3. MasterInv' /\ SlavesInv' /\ ScanInv' /\ SelectInv'
  BY <1>1, <1>2, Calm
<1>4. RateInv'
  BY <1>1, <1>2, QuietRates DEF Inv
<1> QED
  BY <1>3, <1>4 DEF Inv

LEMMA PowerFailureStep == ASSUME Inv, PowerFailure PROVE Inv'
<1>1. PICK n \in Node : PowerCycle(n)
  BY DEF PowerFailure
<1>2. ma' = ma /\ ma.phase # "select"
  BY DEF PowerFailure, Fault
<1>3. /\ sl' = [k \in Node |-> sl'[k]]
      /\ \A k \in Node : sl'[k] = IF k = n THEN PoweredOn(sl[n].stored) ELSE sl[k]
  BY <1>1 DEF PowerCycle, Inv, SlavesInv
<1>4. \A k \in Node : /\ Quiet(sl[k], sl'[k])
                      /\ SameRate(sl[k], sl'[k]) \/ sl'[k].timers = 0
  BY <1>3, PowerQuiet, SelfQuiet DEF Inv, SlavesInv
<1>5. MasterInv' /\ SlavesInv' /\ ScanInv' /\ SelectInv'
  BY <1>2, <1>3, <1>4, Calm
<1>6. RateInv'
  BY <1>2, <1>4 DEF Inv, RateInv, Timed, SameRate
<1> QED
  BY <1>5, <1>6 DEF Inv

LEMMA ChangeRatesStep == ASSUME Inv, ChangeRates PROVE Inv'
<1>1. PICK n \in Node : BitTimingTimer(n)
  BY DEF ChangeRates
<1>2. ma' = ma /\ sl[n].timers > 0
  BY <1>1 DEF ChangeRates, BitTimingTimer
<1>3. /\ sl' = [k \in Node |-> sl'[k]]
      /\ \A k \in Node : sl'[k] = IF k = n THEN ChangeRate(sl[n]) ELSE sl[k]
  BY <1>1 DEF BitTimingTimer, Inv, SlavesInv
<1>4. \A k \in Node : Quiet(sl[k], sl'[k]) /\ sl'[k].selective = sl[k].selective
  BY <1>2, <1>3, TimerQuiet, SelfQuiet DEF Inv, SlavesInv
<1>5. MasterInv' /\ SlavesInv' /\ ScanInv' /\ SelectInv'
  BY <1>2, <1>3, <1>4, Calm
<1>6. ASSUME Patient PROVE sl'[n].timers = 0
  <2>1. sl[n].timers = 1 /\ Sound(sl[n])
    BY <1>2, <1>6 DEF Inv, SlavesInv, RateInv, Timed
  <2> QED
    BY <1>2, <1>3, <2>1, TimerQuiet
<1>7. RateInv'
  BY <1>2, <1>3, <1>6 DEF Inv, RateInv, Timed
<1> QED
  BY <1>5, <1>7 DEF Inv

-----------------------------------------------------------------------------
(* The selective switch *)

LEMMA StartSelectStep == ASSUME Inv, StartSelect PROVE Inv'
<1>1. PICK k \in Known :
        Tell(Command("globalWaiting"),
             [ma EXCEPT !.phase = "select", !.number = Address[k]])
  BY DEF StartSelect
<1>2. ma.phase = "idle" /\ ma.id <= Spare
  BY DEF StartSelect
<1>3. /\ sl' = Delivered(Command("globalWaiting")) /\ sl' = [n \in Node |-> sl'[n]]
      /\ ma' = [ma EXCEPT !.phase = "select", !.number = Address[k]]
  BY <1>1, Told
<1>4. \A n \in Node : Sound(sl[n]) /\ sl[n].selective = Blank
  BY <1>2 DEF Inv, SlavesInv, SelectInv
<1>5. \A n \in Node : /\ Quiet(sl[n], sl'[n]) /\ SameRate(sl[n], sl'[n])
                      /\ sl'[n].mode = "WAITING" /\ sl'[n].selective = Blank
  BY <1>3, <1>4, WaitingHeard DEF Quiet
<1>6. Address[k] \in [Parts -> Numbers] /\ Address[k] \in [Parts -> Nat]
  BY KnownAssumption, AddressAssumption, NumbersApart
<1>7. /\ ma' \in Masters /\ ma'.phase = "select" /\ ma'.sub = 0 /\ ma'.id = ma.id
      /\ ma'.number = Address[k]
  BY <1>2, <1>3, <1>6 DEF Inv, MasterInv, Masters, Phases
<1>8. MasterInv'
  BY <1>2, <1>7, IdsAssumption DEF MasterInv, Masters, Counts, Parts
<1>9. SlavesInv'
  BY <1>3, <1>5, <1>7, QuietSlaves DEF Inv, Quiet
<1>10. ScanInv'
  BY <1>5, <1>7 DEF ScanInv, NoneSelected, OnlyFoundIsSelected
<1>11. SelectInv'
  BY <1>5, <1>6, <1>7 DEF SelectInv, Blank, Parts
<1>12. RateInv'
  BY <1>5, <1>7, QuietRates DEF Inv
<1> QED
  BY <1>8, <1>9, <1>10, <1>11, <1>12 DEF Inv

LEMMA SelectPartStep == ASSUME Inv, SelectPart PROVE Inv'
<1> DEFINE m == [cs |-> "selective", part |-> ma.sub, number |-> ma.number[ma.sub]]
           found  == IF ma.sub = 3 THEN [ma EXCEPT !.phase = "configure", !.sub = 0]
                     ELSE To("leave")
           silent == IF ma.sub = 3 THEN Idle ELSE [ma EXCEPT !.sub = @ + 1]
<1>1. ma.phase = "select" /\ Exchange(m, found, silent)
  BY DEF SelectPart
<1>2. /\ ma.sub \in Parts /\ ma.number \in [Parts -> Numbers] /\ ma.id <= MaxId
      /\ \A n \in Node : /\ Sound(sl[n]) /\ sl[n].mode = "WAITING"
                         /\ \A i \in Parts : sl[n].selective[i] =
                              IF i < ma.sub THEN ma.number[i] ELSE None
  BY <1>1 DEF Inv, MasterInv, SlavesInv, ScanInv, NoneSelected, SelectInv, LoosePhases
<1>3. m.cs = "selective" /\ m.part = ma.sub /\ m.number = ma.number[ma.sub]
  OBVIOUS
<1>4. /\ sl' = Delivered(m) /\ sl' = [n \in Node |-> sl'[n]]
      /\ (ma' = found /\ Answering(m) # {}) \/ ma' = silent
  BY <1>1, Exchanged
<1> HIDE DEF m
<1>5. ASSUME NEW n \in Node
      PROVE  /\ Received(sl[n], m) \in [Parts -> Numbers \cup {None}]
             /\ \A i \in Parts : Received(sl[n], m)[i] =
                  IF i <= ma.sub THEN ma.number[i] ELSE None
             /\ Complete(Received(sl[n], m)) <=> ma.sub = 3
             /\ Chosen(n, sl[n], m) => ma.sub = 3 /\ Address[n] = ma.number
  <2>1. sl[n].selective \in [Parts -> Numbers \cup {None}]
    BY <1>2 DEF Sound, Slave
  <2>2. /\ Received(sl[n], m) \in [Parts -> Numbers \cup {None}]
        /\ \A i \in Parts : Received(sl[n], m)[i] =
             IF i <= ma.sub THEN ma.number[i] ELSE None
    BY <1>2, <1>3, <2>1 DEF Received, Parts
  <2>3. \A i \in Parts : ma.number[i] # None
    BY <1>2, NumbersApart
  <2>4. Complete(Received(sl[n], m)) <=> ma.sub = 3
    BY <1>2, <2>2, <2>3 DEF Complete, Parts
  <2>5. ma.sub = 3 => Received(sl[n], m) = ma.number
    BY <1>2, <2>2 DEF Parts
  <2> QED
    BY <2>2, <2>4, <2>5 DEF Chosen
<1>6. \A n \in Node :
        /\ Sound(sl'[n]) /\ SameRate(sl[n], sl'[n]) /\ IdsOf(sl'[n]) = IdsOf(sl[n])
        /\ sl'[n].mode = IF Chosen(n, sl[n], m) THEN "CONFIGURATION" ELSE "WAITING"
        /\ sl'[n].selective = IF ma.sub = 3 THEN Blank ELSE Received(sl[n], m)
  <2> SUFFICES ASSUME NEW n \in Node
               PROVE  /\ Sound(sl'[n]) /\ SameRate(sl[n], sl'[n])
                      /\ IdsOf(sl'[n]) = IdsOf(sl[n])
                      /\ sl'[n].mode = IF Chosen(n, sl[n], m) THEN "CONFIGURATION"
                                       ELSE "WAITING"
                      /\ sl'[n].selective = IF ma.sub = 3 THEN Blank
                                            ELSE Received(sl[n], m)
    OBVIOUS
  <2>1. sl'[n] = SwitchSelective(n, sl[n], m)
    BY <1>2, <1>3, <1>4, SelectiveHeard
  <2>2. m.part \in Parts /\ m.number \in Numbers
    BY <1>2, <1>3
  <2> QED
    BY <1>2, <1>5, <2>1, <2>2, SelectiveSlave
<1>7. ma.sub # 3 => Answering(m) = {}
  <2>1. \A n \in Node : Answers(n, sl[n], m) => Chosen(n, sl[n], m)
    BY <1>3 DEF Answers
  <2> QED
    BY <1>5, <2>1 DEF Answering
<1>8. CASE ma.sub # 3
  <2>1. ma' = [ma EXCEPT !.sub = ma.sub + 1]
    BY <1>4, <1>7, <1>8
  <2>2. ma.sub + 1 \in Parts /\ ma.sub + 1 \in Bounds
    BY <1>2, <1>8 DEF Parts, Bounds
  <2>3. /\ ma' \in Masters /\ ma'.phase = "select" /\ ma'.sub = ma.sub + 1
        /\ ma'.number = ma.number /\ ma'.id = ma.id
    BY <1>1, <2>1, <2>2 DEF Inv, MasterInv, Masters
  <2>4. MasterInv'
    BY <1>2, <2>2, <2>3 DEF MasterInv
  <2>5. SlavesInv'
    BY <1>4, <1>6, <2>3, QuietSlaves DEF Inv
  <2>6. ScanInv'
    BY <1>5, <1>6, <1>8, <2>3 DEF ScanInv, NoneSelected, OnlyFoundIsSelected
  <2>7. SelectInv'
    BY <1>2, <1>5, <1>6, <1>8, <2>3 DEF SelectInv, Parts
  <2>8. RateInv'
    BY <1>6, <2>3, QuietRates DEF Inv
  <2> QED
    BY <2>4, <2>5, <2>6, <2>7, <2>8 DEF Inv
<1>9. CASE ma.sub = 3
  <2>1. CASE ma' = [ma EXCEPT !.phase = "configure", !.sub = 0]
    <3>1. /\ ma' \in Masters /\ ma'.phase = "configure" /\ ma'.number = ma.number
          /\ ma'.id = ma.id
      <4>1. "configure" \in Phases /\ 0 \in Bounds
        BY DEF Phases, Bounds
      <4> QED
        BY <2>1, <4>1 DEF Inv, MasterInv, Masters
    <3>2. MasterInv'
      BY <1>2, <3>1 DEF MasterInv
    <3>3. SlavesInv'
      BY <1>4, <1>6, <3>1, QuietSlaves DEF Inv
    <3>4. ScanInv'
      BY <1>5, <1>6, <3>1 DEF ScanInv, NoneSelected, OnlyFoundIsSelected, Selected
    <3>5. SelectInv'
      BY <1>6, <1>9, <3>1 DEF SelectInv, Blank
    <3>6. RateInv'
      BY <1>6, <3>1, QuietRates DEF Inv
    <3> QED
      BY <3>2, <3>3, <3>4, <3>5, <3>6 DEF Inv
  <2>2. CASE ma' = Idle
    <3>1. MasterInv' /\ ma'.phase = "idle" /\ ma'.id = ma.id
      BY <2>2, ToIdle DEF Inv
    <3>2. SlavesInv'
      BY <1>4, <1>6, <3>1, QuietSlaves DEF Inv
    <3>3. ScanInv' /\ SelectInv'
      BY <1>6, <1>9, <3>1, Settles DEF LoosePhases
    <3>4. RateInv'
      BY <1>6, <3>1, QuietRates DEF Inv
    <3> QED
      BY <3>1, <3>2, <3>3, <3>4 DEF Inv
  <2> QED
    BY <1>4, <1>9, <2>1, <2>2
<1> QED
  BY <1>8, <1>9

-----------------------------------------------------------------------------
(* An id is given to the one node that is selected. *)

LEMMA GiveIdStep == ASSUME Inv, GiveId PROVE Inv'
<1>1. /\ ma.phase = "configure"
      /\ Exchange([cs |-> "configureNodeId", id |-> ma.id],
                  [ma EXCEPT !.phase = "store", !.id = @ + 1],
                  [ma EXCEPT !.phase = "leave", !.id = @ + 1])
  BY DEF GiveId
<1>2. /\ ma.id \in 1..MaxId /\ ma.id \in NodeIds /\ ma.id + 1 \in Counts
      /\ \A n \in Node : Sound(sl[n]) /\ sl[n].selective = Blank
  BY <1>1, IdsAssumption
  DEF Inv, MasterInv, Masters, Counts, NodeIds, LoosePhases, SlavesInv, SelectInv
<1>3. /\ sl' = Delivered([cs |-> "configureNodeId", id |-> ma.id])
      /\ sl' = [n \in Node |-> sl'[n]]
      /\ \E p \in {"store", "leave"} : ma' = [ma EXCEPT !.phase = p, !.id = ma.id + 1]
  BY <1>1, Exchanged
<1>4. \A n \in Node :
        /\ Sound(sl'[n]) /\ SameRate(sl[n], sl'[n]) /\ sl'[n].selective = Blank
        /\ IdsOf(sl'[n]) \subseteq IdsOf(sl[n]) \cup {ma.id}
        /\ sl[n].mode = "WAITING" => IdsOf(sl'[n]) = IdsOf(sl[n])
  BY <1>2, <1>3, IdHeard
<1>5. ma' \in Masters /\ ma'.phase \in {"store", "leave"} /\ ma'.id = ma.id + 1
  <2>1. PICK p \in {"store", "leave"} : ma' = [ma EXCEPT !.phase = p, !.id = ma.id + 1]
    BY <1>3
  <2>2. p \in Phases
    BY DEF Phases
  <2> QED
    BY <1>2, <2>1, <2>2 DEF Inv, MasterInv, Masters
<1>6. MasterInv'
  BY <1>5 DEF MasterInv, LoosePhases
<1>7. \A n \in Node : IdsOf(sl[n]) \subseteq 1..(ma.id - 1)
  BY DEF Inv, SlavesInv
<1>8. ASSUME Separable, NEW n \in Node, NEW k \in Node, n # k
      PROVE  IdsOf(sl'[n]) \cap IdsOf(sl'[k]) = {}
  <2>1. IdsOf(sl[n]) \cap IdsOf(sl[k]) = {}
    BY <1>8 DEF Inv, SlavesInv
  <2>2. sl[n].mode = "WAITING" \/ sl[k].mode = "WAITING"
    <3>1. Address[n] # Address[k]
      BY <1>8, AddressAssumption
    <3>2. \A j \in Node : sl[j].mode # "WAITING" => Address[j] = ma.number
      BY <1>1, <1>2, <1>8
      DEF Inv, ScanInv, OnlyFoundIsSelected, Selected, Sound, Slave
    <3> QED
      BY <3>1, <3>2
  <2>3. ma.id \notin IdsOf(sl[n]) /\ ma.id \notin IdsOf(sl[k])
    BY <1>2, <1>7
  <2> QED
    BY <1>4, <2>1, <2>2, <2>3
<1>9. \A n \in Node : IdsOf(sl'[n]) \subseteq 1..(ma'.id - 1)
  <2>1. 1..(ma.id - 1) \subseteq 1..(ma'.id - 1) /\ ma.id \in 1..(ma'.id - 1)
    BY <1>2, <1>5
  <2> QED
    BY <1>4, <1>7, <2>1
<1>10. SlavesInv'
  <2>1. \A n \in Node : IdsOf(sl'[n]) = IdsOf(sl[n])' /\ Sound(sl'[n]) = Sound(sl[n])'
    BY DEF IdsOf, Sound, Slave
  <2> QED
    BY <1>3, <1>4, <1>8, <1>9, <2>1 DEF SlavesInv, Separable
<1>11. ScanInv' /\ SelectInv'
  BY <1>4, <1>5, Settles DEF LoosePhases
<1>12. RateInv'
  BY <1>4, <1>5, QuietRates DEF Inv
<1> QED
  BY <1>6, <1>10, <1>11, <1>12 DEF Inv

-----------------------------------------------------------------------------
(* The scan *)

LEMMA StartScanStep == ASSUME Inv, StartScan PROVE Inv'
<1>1. /\ ma.phase = "idle" /\ ma.id <= MaxId
      /\ Tell(Command("globalWaiting"), To("reset"))
  BY DEF StartScan
<1>2. /\ sl' = Delivered(Command("globalWaiting")) /\ sl' = [n \in Node |-> sl'[n]]
      /\ ma' = To("reset")
  BY <1>1, Told
<1>3. \A n \in Node : Sound(sl[n]) /\ sl[n].selective = Blank
  BY <1>1 DEF Inv, SlavesInv, SelectInv
<1>4. \A n \in Node : /\ Quiet(sl[n], sl'[n]) /\ SameRate(sl[n], sl'[n])
                      /\ sl'[n].mode = "WAITING" /\ sl'[n].selective = Blank
  BY <1>2, <1>3, WaitingHeard DEF Quiet
<1>5. /\ ma' \in Masters /\ ma'.phase = "reset" /\ ma'.sub = 0 /\ ma'.id = ma.id
      /\ ma'.number = Zeros
  BY <1>1, <1>2 DEF Inv, MasterInv, Masters, Phases, To
<1>6. MasterInv'
  BY <1>1, <1>5 DEF MasterInv
<1>7. SlavesInv'
  BY <1>2, <1>4, <1>5, QuietSlaves DEF Inv, Quiet
<1>8. ScanInv'
  BY <1>4, <1>5 DEF ScanInv, NoneSelected, OnlyFoundIsSelected
<1>9. SelectInv'
  BY <1>4, <1>5 DEF SelectInv, Blank
<1>10. RateInv'
  BY <1>4, <1>5, QuietRates DEF Inv
<1> QED
  BY <1>6, <1>7, <1>8, <1>9, <1>10 DEF Inv

LEMMA ResetScanStep == ASSUME Inv, ResetScan PROVE Inv'
<1> DEFINE m == ScanMessage(0, ScanReset, 0, 0)
<1>1. /\ ma.phase = "reset"
      /\ Exchange(m, [ma EXCEPT !.phase = "scan", !.bit = Width - 1], Idle)
  BY DEF ResetScan
<1>2. /\ sl' = Delivered(m) /\ sl' = [n \in Node |-> sl'[n]]
      /\ ma' = [ma EXCEPT !.phase = "scan", !.bit = Width - 1] \/ ma' = Idle
  BY <1>1, Exchanged
<1>3. m.cs = "fastscan" /\ m.bit = ScanReset /\ m.next \in Parts
  BY DEF ScanMessage, Parts
<1> HIDE DEF m
<1>4. \A n \in Node : /\ Sound(sl[n]) /\ sl[n].selective = Blank
                      /\ sl[n].mode = "WAITING"
  BY <1>1 DEF Inv, SlavesInv, SelectInv, ScanInv, NoneSelected
<1>5. \A n \in Node :
        /\ Sound(sl'[n]) /\ SameRate(sl[n], sl'[n]) /\ IdsOf(sl'[n]) = IdsOf(sl[n])
        /\ sl'[n].selective = Blank /\ sl'[n].mode = "WAITING"
        /\ sl'[n].id = Unset => sl'[n].fastscan = 0
  BY <1>2, <1>3, <1>4, ScanHeard, ScanSlave DEF Matches
<1>6. CASE ma' = Idle
  <2>1. MasterInv' /\ ma'.phase = "idle" /\ ma'.id = ma.id
    BY <1>6, ToIdle DEF Inv
  <2>2. SlavesInv'
    BY <1>2, <1>5, <2>1, QuietSlaves DEF Inv
  <2>3. ScanInv' /\ SelectInv'
    BY <1>5, <2>1, Settles DEF LoosePhases
  <2>4. RateInv'
    BY <1>5, <2>1, QuietRates DEF Inv
  <2> QED
    BY <2>1, <2>2, <2>3, <2>4 DEF Inv
<1>7. CASE ma' = [ma EXCEPT !.phase = "scan", !.bit = Width - 1]
  <2>1. "scan" \in Phases /\ Width - 1 \in Bits
    BY WidthAssumption DEF Phases, Bits
  <2>2. /\ ma' \in Masters /\ ma'.phase = "scan" /\ ma'.sub = 0 /\ ma'.id = ma.id
        /\ ma'.number = Zeros /\ ma.id <= MaxId
    BY <1>1, <1>7, <2>1 DEF Inv, MasterInv, Masters, LoosePhases
  <2>3. MasterInv'
    BY <2>2 DEF MasterInv, Parts
  <2>4. SlavesInv'
    BY <1>2, <1>5, <2>2, QuietSlaves DEF Inv
  <2>5. \A n \in Node : InStep(n)'
    BY <1>5, <2>2 DEF InStep, Parts
  <2>6. \A i \in Parts : Even(i)'
    BY <2>2 DEF Even, Zeros
  <2>7. ScanInv'
    BY <1>5, <2>2, <2>5, <2>6 DEF ScanInv, NoneSelected, OnlyFoundIsSelected
  <2>8. SelectInv'
    BY <1>5, <2>2 DEF SelectInv, Blank
  <2>9. RateInv'
    BY <1>5, <2>2, QuietRates DEF Inv
  <2> QED
    BY <2>3, <2>4, <2>7, <2>8, <2>9 DEF Inv
<1> QED
  BY <1>2, <1>6, <1>7

(* A node whose part has the bits asked for, down to the last one, has the *)
(* number.                                                                 *)
LEMMA LastBit ==
    ASSUME NEW x \in Nat, NEW y \in Nat, SameBits(x, y, 0)
    PROVE  x = y
<1>1. 2 ^ 0 = 1 /\ x \div 1 = x /\ y \div 1 = y
  OBVIOUS
<1> QED
  BY <1>1 DEF SameBits

LEMMA ScanBitStep == ASSUME Inv, ScanBit PROVE Inv'
<1> DEFINE m     == ScanMessage(ma.number[ma.sub], ma.bit, ma.sub, ma.sub)
           phase == IF ma.bit = 0 THEN "confirm" ELSE "scan"
           bit   == IF ma.bit = 0 THEN 0 ELSE ma.bit - 1
           more  == [ma.number EXCEPT ![ma.sub] = @ + 2 ^ ma.bit]
           next  == [ma EXCEPT !.phase = phase, !.bit = bit]
           one   == [next EXCEPT !.number = more]
<1>1. ma.phase = "scan"
  BY DEF ScanBit
<1>2. /\ ma \in Masters /\ ma.sub \in Parts /\ ma.id <= MaxId
      /\ ma.bit \in Nat /\ ma.bit \in Bits /\ ma.number \in [Parts -> Nat]
  BY <1>1, WidthAssumption DEF Inv, MasterInv, Masters, Bits, LoosePhases
<1>3. /\ sl' = Delivered(m) /\ sl' = [n \in Node |-> sl'[n]]
      /\ ma' = next \/ ma' = one
  <2>1. [next EXCEPT !.number[ma.sub] = @ + 2 ^ ma.bit] = one
    BY <1>2 DEF Masters
  <2>2. Exchange(m, next, [next EXCEPT !.number[ma.sub] = @ + 2 ^ ma.bit])
    BY <1>1 DEF ScanBit
  <2> HIDE DEF m, next, one
  <2> QED
    BY <2>1, <2>2, Exchanged
<1>4. /\ m.cs = "fastscan" /\ m.bit = ma.bit /\ m.sub = ma.sub /\ m.next = ma.sub
      /\ m.number = ma.number[ma.sub] /\ m.next \in Parts
  BY <1>2 DEF ScanMessage
<1>5. 2 ^ ma.bit \in Nat /\ more \in [Parts -> Nat]
      /\ \A i \in Parts : more[i] = IF i = ma.sub THEN ma.number[i] + 2 ^ ma.bit
                                    ELSE ma.number[i]
  <2>1. 2 ^ ma.bit \in Nat
    BY <1>2, PowerCounts
  <2>2. PICK p \in Nat : p = 2 ^ ma.bit
    BY <2>1
  <2>3. more = [ma.number EXCEPT ![ma.sub] = ma.number[ma.sub] + p]
    BY <2>2
  <2> HIDE DEF more
  <2> QED
    BY <1>2, <2>2, <2>3
<1>6. /\ phase \in Phases /\ bit \in Bits
      /\ phase = IF ma.bit = 0 THEN "confirm" ELSE "scan"
  <2>1. "scan" \in Phases /\ "confirm" \in Phases
    BY DEF Phases
  <2>2. 0 \in Bits /\ (ma.bit # 0 => ma.bit - 1 \in Bits)
    BY <1>2, WidthAssumption DEF Bits
  <2> QED
    BY <2>1, <2>2
<1> HIDE DEF m, phase, bit, more
<1>7. /\ next \in Masters /\ next.phase = phase /\ next.sub = ma.sub /\ next.id = ma.id
      /\ next.number = ma.number
  BY <1>2, <1>6 DEF Masters
<1> HIDE DEF next
<1>8. /\ one \in Masters /\ one.phase = phase /\ one.sub = ma.sub /\ one.id = ma.id
      /\ one.number = more
  BY <1>5, <1>7 DEF Masters
<1> HIDE DEF one
<1>9. /\ ma' \in Masters /\ ma'.phase = phase /\ ma'.sub = ma.sub /\ ma'.id = ma.id
      /\ ma'.number \in [Parts -> Nat]
      /\ \A i \in Parts : i # ma.sub => ma'.number[i] = ma.number[i]
      /\ ma'.number[ma.sub] \in {ma.number[ma.sub], ma.number[ma.sub] + 2 ^ ma.bit}
  BY <1>2, <1>3, <1>5, <1>7, <1>8
<1>10. \A n \in Node : /\ Sound(sl[n]) /\ sl[n].selective = Blank
                       /\ sl[n].mode = "WAITING" /\ InStep(n)
  BY <1>1 DEF Inv, SlavesInv, SelectInv, ScanInv, NoneSelected
<1>11. \A n \in Node :
        /\ Sound(sl'[n]) /\ SameRate(sl[n], sl'[n]) /\ IdsOf(sl'[n]) = IdsOf(sl[n])
        /\ sl'[n].selective = Blank /\ sl'[n].id = sl[n].id
        /\ sl[n].id = Unset => sl'[n].fastscan \in {0, sl[n].fastscan}
        /\ sl'[n].mode = IF Matches(n, sl[n], m) /\ ma.bit = 0 /\ ma.sub = 3
                         THEN "CONFIGURATION" ELSE "WAITING"
  <2> SUFFICES ASSUME NEW n \in Node
               PROVE  /\ Sound(sl'[n]) /\ SameRate(sl[n], sl'[n])
                      /\ IdsOf(sl'[n]) = IdsOf(sl[n])
                      /\ sl'[n].selective = Blank /\ sl'[n].id = sl[n].id
                      /\ sl[n].id = Unset => sl'[n].fastscan \in {0, sl[n].fastscan}
                      /\ sl'[n].mode = IF Matches(n, sl[n], m) /\ ma.bit = 0 /\ ma.sub = 3
                                       THEN "CONFIGURATION" ELSE "WAITING"
    OBVIOUS
  <2>1. sl'[n] = Fastscan(n, sl[n], m)
    BY <1>3, <1>4, <1>10, ScanHeard
  <2>2. Matches(n, sl[n], m) => m.bit # ScanReset /\ sl[n].fastscan = ma.sub
    BY <1>4 DEF Matches
  <2> QED
    BY <1>4, <1>10, <2>1, <2>2, ScanSlave
<1>12. MasterInv'
  BY <1>2, <1>6, <1>9 DEF MasterInv
<1>13. SlavesInv'
  BY <1>3, <1>9, <1>11, QuietSlaves DEF Inv
<1>14. NoneSelected'
  BY <1>6, <1>9, <1>11 DEF NoneSelected
<1>15. ASSUME NEW n \in Node PROVE InStep(n)'
  <2>1. InStep(n)
    BY <1>10
  <2>2. ma.sub = 0 => \A i \in Parts : ~(i < ma.sub)
    BY DEF Parts
  <2>3. 0 <= ma.sub /\ \A i \in Parts : i < ma.sub => ma'.number[i] = ma.number[i]
    BY <1>2, <1>9 DEF Parts
  <2> QED
    BY <1>9, <1>11, <2>1, <2>2, <2>3 DEF InStep
<1>16. \A i \in Parts : i >= ma.sub => ma.number[i] \in Nat /\ ma.number[i] % 2 = 0
  BY <1>1, <1>2 DEF Inv, ScanInv, Even
<1>17. \A i \in Parts : i > ma.sub => Even(i)'
  BY <1>2, <1>9, <1>16 DEF Even, Parts
<1>18. phase = "scan" => \A i \in Parts : i >= ma.sub => Even(i)'
  <2> SUFFICES ASSUME ma.bit # 0 PROVE ma'.number[ma.sub] % 2 = 0
    BY <1>2, <1>6, <1>17 DEF Even, Parts
  <2>1. ma.bit - 1 \in Nat /\ (ma.bit - 1) + 1 = ma.bit
    BY <1>2
  <2>2. PICK b \in Nat : b + 1 = ma.bit
    BY <2>1
  <2>3. 2 ^ ma.bit = 2 * 2 ^ b /\ 2 ^ b \in Nat
    BY <2>2, PowerDoubles, PowerCounts
  <2>4. PICK h \in Nat : ma.number[ma.sub] = 2 * h
    <3>1. ma.sub >= ma.sub
      BY <1>2 DEF Parts
    <3>2. ma.number[ma.sub] \in Nat /\ ma.number[ma.sub] % 2 = 0
      BY <1>2, <1>16, <3>1
    <3> QED
      BY <3>2
  <2>5. \A x \in Nat : (2 * x) % 2 = 0
    OBVIOUS
  <2>6. PICK p \in Nat : p = 2 ^ b
    BY <2>3
  <2>7. ma'.number[ma.sub] = 2 * h \/ ma'.number[ma.sub] = 2 * (h + p)
    BY <1>9, <2>3, <2>4, <2>6
  <2> QED
    BY <2>5, <2>7
<1>19. ASSUME ma.bit = 0, ma.sub = 3, NEW n \in Selected' PROVE Near(n)'
  <2>1. n \in Node /\ Matches(n, sl[n], m)
    BY <1>11 DEF Selected
  <2>2. Address[n] \in [Parts -> Nat]
    BY <2>1, PartsAreCounts
  <2>3. Address[n][3] = ma.number[3]
    BY <1>2, <1>4, <1>19, <2>1, <2>2, LastBit DEF Matches, Parts
  <2>4. \A i \in 0..2 : Address[n][i] = ma'.number[i]
    <3>1. sl[n].id = Unset /\ sl[n].fastscan = ma.sub
      BY <1>4, <2>1 DEF Matches
    <3>2. \A i \in Parts : i < ma.sub => Address[n][i] = ma.number[i]
      BY <1>10, <2>1, <3>1 DEF InStep
    <3> QED
      BY <1>9, <1>19, <3>2 DEF Parts
  <2>5. ma'.number[3] \in {ma.number[3], ma.number[3] + 1}
    <3>1. 2 ^ 0 = 1
      OBVIOUS
    <3> QED
      BY <1>9, <1>19, <3>1
  <2>6. ma.number[3] \in Nat /\ ma.number[3] % 2 = 0
    BY <1>16, <1>19 DEF Parts
  <2>7. \A x \in Nat : x % 2 = 0 => x \div 2 = (x + 1) \div 2
    OBVIOUS
  <2> QED
    BY <2>3, <2>4, <2>5, <2>6, <2>7 DEF Near
<1>20. ScanInv'
  BY <1>6, <1>9, <1>14, <1>15, <1>17, <1>18, <1>19 DEF ScanInv, OnlyFoundIsSelected
<1>21. SelectInv'
  BY <1>6, <1>9, <1>11 DEF SelectInv, Blank
<1>22. RateInv'
  BY <1>6, <1>9, <1>11, QuietRates DEF Inv
<1> QED
  BY <1>12, <1>13, <1>20, <1>21, <1>22 DEF Inv

LEMMA ConfirmPartStep == ASSUME Inv, ConfirmPart PROVE Inv'
<1> DEFINE m     == ScanMessage(ma.number[ma.sub], 0, ma.sub, (ma.sub + 1) % 4)
           found == [ma EXCEPT !.phase = "configure", !.sub = 0]
           on    == [ma EXCEPT !.phase = "scan", !.sub = ma.sub + 1, !.bit = Width - 1]
<1>1. /\ ma.phase = "confirm"
      /\ Exchange(m, IF ma.sub = 3 THEN found ELSE on, Idle)
  BY DEF ConfirmPart
<1>2. ma \in Masters /\ ma.sub \in Parts /\ ma.id <= MaxId /\ ma.number \in [Parts -> Nat]
  BY <1>1 DEF Inv, MasterInv, Masters, LoosePhases
<1>3. /\ sl' = Delivered(m) /\ sl' = [n \in Node |-> sl'[n]]
      /\ \/ ma.sub = 3 /\ ma' = found /\ Answering(m) # {}
         \/ ma.sub # 3 /\ ma' = on
         \/ ma' = Idle
  BY <1>1, Exchanged
<1>4. /\ m.cs = "fastscan" /\ m.bit = 0 /\ m.sub = ma.sub
      /\ m.next = IF ma.sub = 3 THEN 0 ELSE ma.sub + 1
      /\ m.number = ma.number[ma.sub] /\ m.next \in Parts
  BY <1>2 DEF ScanMessage, Parts
<1> HIDE DEF m
<1>5. \A n \in Node : Sound(sl[n]) /\ sl[n].selective = Blank /\ InStep(n)
  BY <1>1 DEF Inv, SlavesInv, SelectInv, ScanInv
<1>6. \A n \in Node :
        /\ Sound(sl'[n]) /\ SameRate(sl[n], sl'[n]) /\ IdsOf(sl'[n]) = IdsOf(sl[n])
        /\ sl'[n].selective = Blank /\ sl'[n].id = sl[n].id
        /\ sl'[n].fastscan = IF Matches(n, sl[n], m) THEN m.next ELSE sl[n].fastscan
        /\ sl'[n].mode = IF Matches(n, sl[n], m) /\ ma.sub = 3 THEN "CONFIGURATION"
                         ELSE sl[n].mode
  <2>1. m.bit # ScanReset
    BY <1>4 DEF ScanReset
  <2>2. \A n \in Node : sl'[n] = Fastscan(n, sl[n], m)
    BY <1>3, <1>4, <1>5, ScanHeard
  <2> QED
    BY <1>4, <1>5, <2>1, <2>2, ScanSlave
(* Who matches has every part the master found so far. *)
<1>7. ASSUME NEW n \in Node, Matches(n, sl[n], m)
      PROVE  \A i \in Parts : i <= ma.sub => Address[n][i] = ma.number[i]
  <2>1. sl[n].id = Unset /\ sl[n].fastscan = ma.sub
        /\ SameBits(Address[n][ma.sub], ma.number[ma.sub], 0)
    BY <1>4, <1>7 DEF Matches
  <2>2. Address[n] \in [Parts -> Nat]
    BY PartsAreCounts
  <2>3. Address[n][ma.sub] = ma.number[ma.sub]
    BY <1>2, <2>1, <2>2, LastBit
  <2>4. \A i \in Parts : i < ma.sub => Address[n][i] = ma.number[i]
    BY <1>5, <2>1 DEF InStep
  <2> QED
    BY <1>2, <2>3, <2>4 DEF Parts
<1>8. CASE ma' = Idle
  <2>1. MasterInv' /\ ma'.phase = "idle" /\ ma'.id = ma.id
    BY <1>8, ToIdle DEF Inv
  <2>2. SlavesInv'
    BY <1>3, <1>6, <2>1, QuietSlaves DEF Inv
  <2>3. ScanInv' /\ SelectInv'
    BY <1>6, <2>1, Settles DEF LoosePhases
  <2>4. RateInv'
    BY <1>6, <2>1, QuietRates DEF Inv
  <2> QED
    BY <2>1, <2>2, <2>3, <2>4 DEF Inv
<1>9. CASE ma.sub # 3 /\ ma' = on
  <2>1. "scan" \in Phases /\ Width - 1 \in Bits /\ ma.sub + 1 \in Bounds /\ ma.sub + 1 \in Parts
    BY <1>2, <1>9, WidthAssumption DEF Phases, Bits, Bounds, Parts
  <2>2. /\ ma' \in Masters /\ ma'.phase = "scan" /\ ma'.sub = ma.sub + 1 /\ ma'.id = ma.id
        /\ ma'.number = ma.number
    BY <1>2, <1>9, <2>1 DEF Masters
  <2>3. MasterInv'
    BY <1>2, <2>1, <2>2 DEF MasterInv
  <2>4. SlavesInv'
    BY <1>3, <1>6, <2>2, QuietSlaves DEF Inv
  <2>5. NoneSelected'
    BY <1>1, <1>6, <1>9 DEF Inv, ScanInv, NoneSelected
  <2>6. ASSUME NEW n \in Node PROVE InStep(n)'
    <3>1. CASE Matches(n, sl[n], m)
      <4>1. sl'[n].fastscan = ma.sub + 1
        BY <1>4, <1>6, <1>9, <3>1
      <4>2. \A i \in Parts : i < ma.sub + 1 => Address[n][i] = ma.number[i]
        BY <1>2, <1>7, <3>1 DEF Parts
      <4> QED
        BY <1>2, <2>2, <4>1, <4>2 DEF InStep, Parts
    <3>2. CASE ~Matches(n, sl[n], m)
      <4>1. sl'[n].fastscan = sl[n].fastscan /\ sl'[n].id = sl[n].id
        BY <1>6, <3>2
      <4>2. sl[n].id = Unset => sl[n].fastscan <= ma.sub
        BY <1>5 DEF InStep
      <4>3. sl[n].fastscan \in Nat /\ ma.sub \in Nat
        BY <1>2, <1>5 DEF Sound, Slave, Parts
      <4> QED
        BY <2>2, <4>1, <4>2, <4>3 DEF InStep
    <3> QED
      BY <3>1, <3>2
  <2>7. \A i \in Parts : i >= ma.sub + 1 => Even(i)'
    <3>1. \A i \in Parts : i > ma.sub => ma.number[i] % 2 = 0
      BY <1>1 DEF Inv, ScanInv, Even
    <3> QED
      BY <1>2, <2>2, <3>1 DEF Even, Parts
  <2>8. ScanInv'
    BY <2>2, <2>5, <2>6, <2>7 DEF ScanInv, OnlyFoundIsSelected
  <2>9. SelectInv'
    BY <1>6, <2>2 DEF SelectInv, Blank
  <2>10. RateInv'
    BY <1>6, <2>2, QuietRates DEF Inv
  <2> QED
    BY <2>3, <2>4, <2>8, <2>9, <2>10 DEF Inv
<1>10. CASE ma.sub = 3 /\ ma' = found /\ Answering(m) # {}
  <2>1. "configure" \in Phases /\ 0 \in Bounds
    BY DEF Phases, Bounds
  <2>2. /\ ma' \in Masters /\ ma'.phase = "configure" /\ ma'.id = ma.id
        /\ ma'.number = ma.number
    BY <1>2, <1>10, <2>1 DEF Masters
  <2>3. MasterInv'
    BY <1>2, <2>2 DEF MasterInv
  <2>4. SlavesInv'
    BY <1>3, <1>6, <2>2, QuietSlaves DEF Inv
  <2>5. PICK k \in Node : Matches(k, sl[k], m)
    BY <1>4, <1>10 DEF Answering, Answers, ScanReset
  <2>6. ASSUME NEW n \in Node, Matches(n, sl[n], m) PROVE Address[n] = ma.number
    <3>1. \A i \in Parts : Address[n][i] = ma.number[i]
      BY <1>7, <1>10, <2>6 DEF Parts
    <3>2. Address[n] \in [Parts -> Numbers]
      BY AddressAssumption
    <3> QED
      BY <1>2, <3>1, <3>2
  <2>7. ASSUME Separable, NEW n \in Selected' PROVE Address[n] = ma.number
    <3>1. n \in Node
      BY DEF Selected
    <3>2. CASE Matches(n, sl[n], m)
      BY <2>6, <3>1, <3>2
    <3>3. CASE ~Matches(n, sl[n], m)
      <4>1. n \in Selected
        BY <1>6, <3>1, <3>3 DEF Selected
      <4>2. Near(n) /\ Address[k] = ma.number
        BY <1>1, <1>10, <2>5, <2>6, <4>1 DEF Inv, ScanInv
      <4>3. n = k
        BY <2>7, <3>1, <4>2 DEF Separable, Near
      <4> QED
        BY <4>2, <4>3
    <3> QED
      BY <3>2, <3>3
  <2>8. ScanInv'
    BY <2>2, <2>7 DEF ScanInv, NoneSelected, OnlyFoundIsSelected, Separable
  <2>9. SelectInv'
    BY <1>6, <2>2 DEF SelectInv, Blank
  <2>10. RateInv'
    BY <1>6, <2>2, QuietRates DEF Inv
  <2> QED
    BY <2>3, <2>4, <2>8, <2>9, <2>10 DEF Inv
<1> QED
  BY <1>3, <1>8, <1>9, <1>10

-----------------------------------------------------------------------------
(* The theorems *)

LEMMA InitInv == Init => Inv
<1> SUFFICES ASSUME Init PROVE Inv
  OBVIOUS
<1>1. ma = [phase |-> "idle", sub |-> 0, bit |-> 0, id |-> 1, number |-> Zeros]
  BY DEF Init
<1>2. /\ Zeros \in [Parts -> Nat] /\ "idle" \in Phases /\ 0 \in Bits /\ 0 \in Bounds
      /\ 1 \in Counts
  BY WidthAssumption, IdsAssumption DEF Zeros, Phases, Bits, Bounds, Counts
<1>3. MasterInv
  BY <1>1, <1>2 DEF MasterInv, Masters, LoosePhases
<1>4. sl = [n \in Node |-> PoweredOn(Unset)]
  BY DEF Init, LSSInit
<1> DEFINE s == PoweredOn(Unset)
<1>5. /\ s \in Slave /\ s.id = Unset /\ s.pending = Unset /\ s.stored = Unset
      /\ s.selective = Blank /\ s.timers = 0
  BY DEF PoweredOn, Slave, Blank, Rates
<1> HIDE DEF s
<1>6. Sound(s) /\ IdsOf(s) = {}
  BY <1>5 DEF Sound, IdsOf
<1>7. SlavesInv
  BY <1>4, <1>6 DEF SlavesInv, s
<1>8. ScanInv
  BY <1>1 DEF ScanInv, NoneSelected, OnlyFoundIsSelected
<1>9. SelectInv
  BY <1>1, <1>4, <1>5 DEF SelectInv, s
<1>10. RateInv
  BY <1>4, <1>5 DEF RateInv, Timed, s
<1> QED
  BY <1>3, <1>7, <1>8, <1>9, <1>10 DEF Inv

LEMMA NextInv == Inv /\ [Next]_vars => Inv'
<1> SUFFICES ASSUME Inv, [Next]_vars PROVE Inv'
  OBVIOUS
<1>1. CASE UNCHANGED vars
  <2>1. /\ ma' = ma /\ sl' = [n \in Node |-> sl'[n]]
        /\ \A n \in Node : sl'[n] = sl[n] /\ Sound(sl[n])
    BY <1>1 DEF vars, Inv, SlavesInv
  <2>2. \A n \in Node : Quiet(sl[n], sl'[n]) /\ SameRate(sl[n], sl'[n])
    BY <2>1, SelfQuiet
  <2>3. MasterInv' /\ SlavesInv' /\ ScanInv' /\ SelectInv'
    BY <2>1, <2>2, Calm
  <2>4. RateInv'
    BY <2>1, <2>2, QuietRates DEF Inv
  <2> QED
    BY <2>3, <2>4 DEF Inv
<1>2. CASE Work
  BY <1>2, ResetScanStep, ScanBitStep, ConfirmPartStep, SelectPartStep, GiveIdStep,
     StoreStep, LeaveStep, GiveRateStep, ActivateStep, ProbePartStep
  DEF Work, Scan, Finish
<1> QED
  BY <1>1, <1>2, StartScanStep, StartSelectStep, StartRateStep, StartProbeStep,
     ChangeRatesStep, BusResetStep, PowerFailureStep
  DEF Next

(* When the master gives an id, only the node it found listens, for any    *)
(* number of nodes with addresses of any width.                            *)
THEOREM OnlyFoundListens == ASSUME Separable PROVE Spec => []OnlyFoundIsSelected
<1>1. Inv => OnlyFoundIsSelected
  BY DEF Inv, ScanInv
<1> QED
  BY InitInv, NextInv, <1>1, PTL DEF Spec

(* No two nodes get the same id, whatever answers are lost, and however    *)
(* often nodes are reset or lose their power.                              *)
THEOREM IdsStayUnique == ASSUME Separable PROVE Spec => []IdsAreUnique
<1>1. Inv => IdsAreUnique
  BY DEF Inv, SlavesInv, IdsAreUnique, IdsOf
<1> QED
  BY InitInv, NextInv, <1>1, PTL DEF Spec

(* With a master that waits for a change of the bit rate to be over before *)
(* it begins the next, the callback is told the rate its timer was started *)
(* for, whatever answers are lost and however often nodes are reset.       *)
THEOREM RatesAreKnown == ASSUME Patient PROVE Spec => []RateIsKnown
<1>1. Inv => RateIsKnown
  BY DEF Inv, RateInv, Timed, RateIsKnown
<1> QED
  BY InitInv, NextInv, <1>1, PTL DEF Spec
=============================================================================
