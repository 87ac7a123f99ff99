-------------------------- MODULE WorkLimitsProofs --------------------------
(***************************************************************************)
(* What the parts that bound work promise, for every size of the budgets   *)
(* and pools, every table of moves and every behaviour of the clock.       *)
(***************************************************************************)
EXTENDS WorkParts, ListsProofs

-----------------------------------------------------------------------------
(* Tokens and slots: the sums are those of the holders, within the bounds. *)
TokenInv ==
    /\ consumed \in Nat /\ mine \in Nat /\ theirs \in Nat
    /\ used = consumed
    /\ reserved = mine + theirs
    /\ consumed + reserved <= Usable

SlotInv ==
    /\ mySlots \in Nat /\ otherSlots \in Nat
    /\ inUse = mySlots + otherSlots
    /\ inUse <= MaxSlots

(* Tokens: the invariant holds initially, every step keeps it, and it      *)
(* implies what is promised of tokens.                                     *)
LEMMA TokensStart == TokenInit => TokenInv
BY PoolAssumption DEF TokenInit, TokenInv, Usable

(* Every step keeps it.                                                    *)
LEMMA TokensStep ==
    ASSUME TokenInv, [TokenNext]_tokenVars
    PROVE  TokenInv'
<1> USE PoolAssumption DEF TokenInv, Usable, Remaining, Amounts, Hold, Holding, tokenVars
<1>1. ASSUME NEW me \in BOOLEAN, NEW n \in Amounts, Reserve(me, n) PROVE TokenInv'
  BY <1>1 DEF Reserve
<1>2. ASSUME NEW n \in Amounts, Exceeded(n) PROVE TokenInv'
  BY <1>2 DEF Exceeded
<1>3. ASSUME NEW me \in BOOLEAN, NEW n \in Amounts, Release(me, n) PROVE TokenInv'
  BY <1>3 DEF Release
<1>4. ASSUME NEW n \in Amounts, Consume(n) PROVE TokenInv'
  BY <1>4 DEF Consume
<1>5. ASSUME NEW me \in BOOLEAN, NEW r \in Amounts, NEW a \in Amounts, Commit(me, r, a)
      PROVE  TokenInv'
  BY <1>5 DEF Commit, CommitRefused
<1>6. CASE UNCHANGED tokenVars
  BY <1>6
<1> QED
  BY <1>1, <1>2, <1>3, <1>4, <1>5, <1>6 DEF TokenNext

(* It implies the property.                                                *)
LEMMA TokensAreHonoured == TokenInv => TokensHonoured
<1> SUFFICES ASSUME TokenInv
             PROVE  TokensHonoured
  OBVIOUS
<1> USE PoolAssumption DEF TokenInv, Usable, Remaining
<1>1. Remaining >= 0 /\ reserved = mine + theirs /\ consumed = used
  OBVIOUS
<1>2. ASSUME NEW me \in BOOLEAN
      PROVE  Holding(me) \in Nat /\ Holding(me) <= reserved
  BY DEF Holding
<1>3. ASSUME NEW h \in Nat, h <= reserved, NEW r \in 0 .. h, NEW a \in 0 .. r
      PROVE  ~ReleaseRefused(r) /\ ~CommitRefused(r, a)
  BY <1>3 DEF ReleaseRefused, CommitRefused
<1>4. ASSUME NEW me \in BOOLEAN, NEW r \in 0 .. Holding(me)
      PROVE  ~ReleaseRefused(r) /\ \A a \in 0 .. r : ~CommitRefused(r, a)
  <2>1. \A a \in 0 .. r : ~ReleaseRefused(r) /\ ~CommitRefused(r, a)
    BY <1>2, <1>3
  <2>2. 0 \in 0 .. r
    BY <1>2
  <2> QED
    BY <2>1, <2>2
<1> QED
  BY <1>1, <1>4 DEF TokensHonoured

(* Slots: likewise.                                                        *)
LEMMA SlotsStart == SlotInit => SlotInv
BY MaxSlotsAssumption DEF SlotInit, SlotInv

(* Every step keeps it.                                                    *)
LEMMA SlotsStep ==
    ASSUME SlotInv, [SlotNext]_slotVars
    PROVE  SlotInv'
<1> USE MaxSlotsAssumption DEF SlotInv, Claim, Available, slotVars
<1>1. ASSUME NEW me \in BOOLEAN, NEW n \in 1 .. MaxSlots + 1, TryAcquire(me, n)
      PROVE  SlotInv'
  BY <1>1 DEF TryAcquire
<1>2. ASSUME NEW me \in BOOLEAN, NEW n \in 1 .. MaxSlots + 1, AcquireSlots(me, n)
      PROVE  SlotInv'
  BY <1>2 DEF AcquireSlots
<1>3. ASSUME NEW me \in BOOLEAN, NEW n \in 1 .. MaxSlots + 1, ReleaseSlots(me, n)
      PROVE  SlotInv'
  BY <1>3 DEF ReleaseSlots, SlotsOf
<1>4. CASE UNCHANGED slotVars
  BY <1>4
<1> QED
  BY <1>1, <1>2, <1>3, <1>4 DEF SlotNext

(* It implies the property.                                                *)
LEMMA SlotsAreHonoured == SlotInv => SlotsHonoured
BY MaxSlotsAssumption DEF SlotInv, SlotsHonoured, SlotsOf, OverRelease

-----------------------------------------------------------------------------
(* Backpressure: the last switch was on the far side of the band.          *)
PressureInv ==
    /\ engaged \in BOOLEAN
    /\ switched \in Int
    /\ engaged => switched = Unswitched \/ switched >= High
    /\ ~engaged => switched = Unswitched \/ switched <= Low

Band ==
    engaged' # engaged =>
        \/ switched = Unswitched
        \/ engaged' /\ switched' - switched >= High - Low
        \/ ~engaged' /\ switched - switched' >= High - Low

(* Backpressure: the invariant holds initially, and every step keeps it    *)
(* and respects the band.                                                  *)
LEMMA PressureStart == PressureInit => PressureInv
BY DEF PressureInit, PressureInv, Unswitched

(* Every step keeps it and respects the band.                              *)
LEMMA PressureStep ==
    ASSUME PressureInv, [PressureNext]_pressureVars
    PROVE  PressureInv' /\ Band
<1>1. CASE UNCHANGED pressureVars
  BY <1>1 DEF pressureVars, PressureInv, Band
<1>2. ASSUME NEW depth \in 0 .. MaxDepth, ObserveDepth(depth)
      PROVE  \/ ~engaged /\ engaged' = TRUE /\ depth >= High /\ switched' = depth
             \/ engaged /\ engaged' = FALSE /\ depth <= Low /\ switched' = depth
             \/ engaged' = engaged /\ switched' = switched
  BY <1>2 DEF ObserveDepth, Evaluate, PressureInv
<1>3. ASSUME NEW depth \in Int,
             ~engaged, engaged' = TRUE, depth >= High, switched' = depth
      PROVE  PressureInv' /\ Band
  <2>1. switched = Unswitched \/ switched <= Low
    BY <1>3, Zenon DEF PressureInv
  <2>2. switched = Unswitched \/ switched' - switched >= High - Low
    BY <1>3, <2>1, WatermarkAssumption DEF PressureInv
  <2> QED
    BY <1>3, <2>2, Zenon DEF PressureInv, Band
<1>4. ASSUME NEW depth \in Int,
             engaged, engaged' = FALSE, depth <= Low, switched' = depth
      PROVE  PressureInv' /\ Band
  <2>1. switched = Unswitched \/ switched >= High
    BY <1>4, Zenon DEF PressureInv
  <2>2. switched = Unswitched \/ switched - switched' >= High - Low
    BY <1>4, <2>1, WatermarkAssumption DEF PressureInv
  <2> QED
    BY <1>4, <2>2, Zenon DEF PressureInv, Band
<1>5. ASSUME engaged' = engaged, switched' = switched
      PROVE  PressureInv' /\ Band
  BY <1>5, Zenon DEF PressureInv, Band
<1>6. CASE PressureNext
  <2>1. PICK depth \in 0 .. MaxDepth : ObserveDepth(depth)
    BY <1>6 DEF PressureNext
  <2>2. depth \in Int
    OBVIOUS
  <2> QED
    BY <1>2, <1>3, <1>4, <1>5, <2>1, <2>2, Zenon
<1> QED
  BY <1>1, <1>6

-----------------------------------------------------------------------------
(* The cache: an entry is there, with its window, until some operation has *)
(* seen the window end.                                                    *)
CacheInv ==
    /\ expiresAt \in [Keys -> Nat \cup {Absent}]
    /\ window \in [Keys -> Nat \cup {Absent}]
    /\ \A k \in Keys :
          /\ expiresAt[k] \in {Absent, window[k]}
          /\ k \notin passed => expiresAt[k] = window[k]

(* The cache: likewise.                                                    *)
LEMMA CacheStart == CacheInit => CacheInv
BY DEF CacheInit, CacheInv

(* Every step keeps it.                                                    *)
LEMMA CacheStep ==
    ASSUME CacheInv, now \in Nat, [CacheNext]_cacheVars
    PROVE  CacheInv'
<1> USE CacheAssumption DEF CacheInv, Absent, Live, Seen
<1>1. now + CacheTtl \in Nat
  OBVIOUS
<1>2. ASSUME NEW k \in Keys, PutKey(k) PROVE CacheInv'
  BY <1>1, <1>2 DEF PutKey
<1>3. ASSUME NEW k \in Keys, LookUp(k) PROVE CacheInv'
  BY <1>3 DEF LookUp
<1>4. ASSUME NEW k \in Keys, AddKey(k) PROVE CacheInv'
  BY <1>2, <1>3, <1>4, Zenon DEF AddKey
<1>5. CASE Purge
  BY <1>5 DEF Purge
<1>6. CASE Clear
  BY <1>6 DEF Clear
<1>7. CASE UNCHANGED cacheVars
  BY <1>7 DEF cacheVars
<1> QED
  BY <1>2, <1>3, <1>4, <1>5, <1>6, <1>7 DEF CacheNext

(* It implies the property.                                                *)
LEMMA CacheDeduplicates == CacheInv /\ now \in Nat => DedupeWindow
BY DEF CacheInv, DedupeWindow, ActiveKeys, Live, Absent
-----------------------------------------------------------------------------
(* Checkpoints: LatestIsMaximum is inductive once everything is typed.     *)
PositionRecord == [position : Nat, sequence : Nat, label : Labels]

CheckpointInv ==
    /\ records \in Seq(PositionRecord)
    /\ attempted \subseteq Positions
    /\ LatestIsMaximum

(* Checkpoints: the invariant holds initially.                             *)
LEMMA CheckpointStart == CheckpointInit => CheckpointInv
<1> SUFFICES ASSUME CheckpointInit
             PROVE  CheckpointInv
  OBVIOUS
<1>1. records = << >> /\ attempted = {} /\ Len(records) = 0
  BY DEF CheckpointInit
<1>2. LatestIsMaximum
  BY <1>1 DEF LatestIsMaximum
<1> QED
  BY <1>1, <1>2 DEF CheckpointInv

(* The fields of a record.                                                 *)
LEMMA RecordTyped ==
    ASSUME NEW s \in Seq(PositionRecord), NEW i \in 1 .. Len(s)
    PROVE  s[i].position \in Nat /\ s[i].sequence \in Nat
<1>1. s[i] \in PositionRecord
  OBVIOUS
<1> QED
  BY <1>1 DEF PositionRecord

(* The latest checkpoint is ahead of all others. *)
LEMMA LatestIsLast ==
    ASSUME CheckpointInv
    PROVE  /\ Position \in Int
           /\ records # << >> => Position \in Nat /\ Position = records[Len(records)].position
           /\ \A i \in 1 .. Len(records) : records[i].position <= Position
           /\ records = << >> => Position = -1
<1>1. records \in Seq(PositionRecord)
  BY DEF CheckpointInv
<1>2. CASE records = << >>
  BY <1>2 DEF Position, NoPosition
<1>3. CASE records # << >>
  <2>1. Len(records) \in 1 .. Len(records)
    BY <1>1, <1>3
  <2>2. Position = records[Len(records)].position
    BY <1>3 DEF Position
  <2>3. \A i \in 1 .. Len(records) : records[i].position \in Nat
    BY <1>1, RecordTyped
  <2>4. ASSUME NEW i \in 1 .. Len(records) PROVE records[i].position <= Position
    <3>1. CASE i = Len(records)
      BY <2>2, <2>3, <3>1
    <3>2. CASE i < Len(records)
      <4>1. \A j \in i + 1 .. Len(records) : records[i].position < records[j].position
        BY DEF CheckpointInv, LatestIsMaximum
      <4>2. Len(records) \in i + 1 .. Len(records)
        BY <2>1, <3>2
      <4> QED
        BY <2>1, <2>2, <2>3, <4>1, <4>2
    <3> QED
      BY <2>1, <3>1, <3>2
  <2> QED
    BY <1>3, <2>1, <2>2, <2>3, <2>4
<1> QED
  BY <1>2, <1>3

(* A report keeps it, whether it is ahead and recorded or not.             *)
LEMMA ReportStep ==
    ASSUME CheckpointInv, NEW p \in Positions, NEW label \in Labels,
           attempted' = attempted \cup {p},
           IF Ahead(p) THEN AppendRecord(p, label) ELSE records' = records
    PROVE  CheckpointInv'
<1>1. records \in Seq(PositionRecord) /\ attempted \subseteq Positions /\ p \in Nat
  BY PositionsAssumption DEF CheckpointInv
<1>2. attempted' \subseteq Positions
  BY <1>1
<1>3. CASE ~Ahead(p)
  <2>1. records' = records /\ Position' = Position
    BY <1>3 DEF Position
  <2>2. p <= Position /\ records # << >>
    BY <1>1, <1>3, LatestIsLast DEF Ahead
  <2>3. LatestIsMaximum'
    BY <2>1, <2>2 DEF CheckpointInv, LatestIsMaximum
  <2> QED
    BY <1>1, <1>2, <2>1, <2>3 DEF CheckpointInv
<1>4. CASE Ahead(p)
  <2> DEFINE l == Len(records)
             r == [position |-> p, sequence |-> l, label |-> label]
  <2>1. records' = Append(records, r)
    BY <1>4 DEF AppendRecord
  <2>2. l \in Nat /\ r \in PositionRecord
    BY <1>1 DEF PositionRecord
  <2>3. /\ records' \in Seq(PositionRecord) /\ Len(records') = l + 1 /\ records' # << >>
        /\ records'[l + 1] = r
        /\ \A i \in 1 .. l : records'[i] = records[i]
    BY <1>1, <2>1, <2>2
  <2>4. Position' = p
    BY <2>3 DEF Position
  <2>5. Position < p
    BY <1>1, <1>4, LatestIsLast DEF Ahead
  <2>6. ASSUME NEW q \in attempted' PROVE q <= p
    BY <1>1, <2>5, LatestIsLast, PositionsAssumption DEF CheckpointInv, LatestIsMaximum
  <2>7. ASSUME NEW i \in 1 .. l
        PROVE  records[i].position \in Nat /\ records[i].position < p
    <3>1. records[i].position \in Nat
      BY <1>1, RecordTyped
    <3>2. records[i].position <= Position /\ Position \in Int
      BY LatestIsLast
    <3> QED
      BY <1>1, <2>5, <3>1, <3>2
  <2>8. ASSUME NEW i \in 1 .. Len(records')
        PROVE  /\ records'[i].position \in attempted'
               /\ records'[i].sequence = i - 1
               /\ \A j \in i + 1 .. Len(records') :
                     records'[i].position < records'[j].position
    <3>1. CASE i = l + 1
      BY <2>2, <2>3, <3>1
    <3>2. CASE i \in 1 .. l
      <4>1. /\ records[i].position \in attempted
            /\ records[i].sequence = i - 1
            /\ \A j \in i + 1 .. l : records[i].position < records[j].position
        BY <3>2 DEF CheckpointInv, LatestIsMaximum
      <4>2. ASSUME NEW j \in i + 1 .. l + 1
            PROVE  records'[i].position < records'[j].position
        <5>1. CASE j = l + 1
          BY <2>3, <2>7, <3>2, <5>1
        <5>2. CASE j \in i + 1 .. l
          BY <2>2, <2>3, <3>2, <4>1, <5>2
        <5> QED
          BY <2>2, <3>2, <5>1, <5>2
      <4> QED
        BY <2>3, <3>2, <4>1, <4>2
    <3> QED
      BY <2>2, <2>3, <3>1, <3>2
  <2>9. records' # << >> /\ attempted' # {}
    BY <2>3
  <2>10. LatestIsMaximum'
    BY <2>4, <2>6, <2>8, <2>9 DEF LatestIsMaximum
  <2> QED
    BY <1>2, <2>3, <2>10 DEF CheckpointInv
<1> QED
  BY <1>3, <1>4

(* Every step keeps the invariant.                                         *)
LEMMA CheckpointStep ==
    ASSUME CheckpointInv, [CheckpointNext]_checkpointVars
    PROVE  CheckpointInv'
<1>1. CASE CheckpointNext
  <2>1. PICK p \in Positions, label \in Labels : TryAdvance(p, label) \/ Advance(p, label)
    BY <1>1 DEF CheckpointNext
  <2> QED
    BY <2>1, ReportStep DEF TryAdvance, Advance
<1>2. CASE UNCHANGED checkpointVars
  BY <1>2 DEF checkpointVars, CheckpointInv, LatestIsMaximum, Position
<1> QED
  BY <1>1, <1>2

-----------------------------------------------------------------------------
(* The state machine. *)
MachineInv ==
    /\ walked \in Seq(Lifecycle) /\ walked # << >>
    /\ refusal \in {Allowed, NotAllowed, UnknownState}
    /\ MachineOnTable

(* The guarded machine: the invariant holds initially.                     *)
LEMMA MachineStart == MachineInit => MachineInv
<1> SUFFICES ASSUME MachineInit
             PROVE  MachineInv
  OBVIOUS
<1>1. machineState \in DOMAIN Moves /\ refusal = Allowed /\ walked = <<machineState>>
  BY DEF MachineInit
<1>2. machineState \in Lifecycle /\ Len(walked) = 1 /\ walked[1] = machineState
  BY <1>1 DEF Lifecycle
<1>3. MachineOnTable
  BY <1>1, <1>2 DEF MachineOnTable, Allowed, UnknownState, NotAllowed
<1> QED
  BY <1>1, <1>2, <1>3 DEF MachineInv

(* A state that has no row is unknown, whatever the target.                *)
LEMMA Stuck ==
    ASSUME NEW s, s \notin DOMAIN Moves, NEW target
    PROVE  CheckTransition(s, target) = UnknownState
BY DEF CheckTransition

(* A transition keeps the invariant, and so does every step.               *)
LEMMA MoveStep ==
    ASSUME MachineInv, NEW target \in Lifecycle, Transition(target)
    PROVE  MachineInv'
<1> USE DEF Allowed, NotAllowed, UnknownState
<1>1. /\ walked \in Seq(Lifecycle) /\ walked # << >>
      /\ walked[Len(walked)] = machineState
      /\ \A i \in 1 .. Len(walked) - 1 :
            walked[i] \in DOMAIN Moves /\ walked[i + 1] \in Moves[walked[i]]
  BY DEF MachineInv, MachineOnTable
<1>2. refusal' = CheckTransition(machineState, target)
  BY DEF Transition
<1>3. refusal' \in {Allowed, NotAllowed, UnknownState}
  BY <1>2 DEF CheckTransition
<1>4. \/ /\ machineState \in DOMAIN Moves /\ target \in Moves[machineState]
         /\ refusal' = Allowed
         /\ machineState' = target /\ walked' = Append(walked, target)
      \/ machineState' = machineState /\ walked' = walked
         /\ (refusal' = UnknownState => machineState \notin DOMAIN Moves)
         /\ (refusal' = NotAllowed => machineState \in DOMAIN Moves)
  BY DEF Transition, CheckTransition
<1>5. /\ walked' \in Seq(Lifecycle) /\ walked' # << >>
      /\ walked'[Len(walked')] = machineState'
      /\ \A i \in 1 .. Len(walked') - 1 :
            walked'[i] \in DOMAIN Moves /\ walked'[i + 1] \in Moves[walked'[i]]
  <2>1. CASE walked' = walked /\ machineState' = machineState
    BY <1>1, <2>1
  <2>2. CASE /\ machineState \in DOMAIN Moves /\ target \in Moves[machineState]
             /\ machineState' = target /\ walked' = Append(walked, target)
    <3> DEFINE l == Len(walked)
    <3>1. l \in Nat /\ l > 0
      BY <1>1
    <3>2. /\ walked' \in Seq(Lifecycle) /\ Len(walked') = l + 1 /\ walked' # << >>
          /\ walked'[l + 1] = target
          /\ \A i \in 1 .. l : walked'[i] = walked[i]
      BY <1>1, <2>2
    <3>3. ASSUME NEW i \in 1 .. l
          PROVE  walked'[i] \in DOMAIN Moves /\ walked'[i + 1] \in Moves[walked'[i]]
      <4>1. CASE i = l
        BY <1>1, <2>2, <3>1, <3>2, <4>1
      <4>2. CASE i \in 1 .. l - 1
        <5>1. i \in 1 .. l /\ i + 1 \in 1 .. l
          BY <3>1, <4>2
        <5>2. walked'[i] = walked[i] /\ walked'[i + 1] = walked[i + 1]
          BY <3>2, <5>1, Zenon
        <5> QED
          BY <1>1, <4>2, <5>2
      <4> QED
        BY <3>1, <4>1, <4>2
    <3>4. l + 1 - 1 = l
      BY <3>1
    <3> QED
      BY <2>2, <3>2, <3>3, <3>4
  <2> QED
    BY <1>4, <2>1, <2>2
<1>6. (refusal' = UnknownState => machineState' \notin DOMAIN Moves)
      /\ (refusal' = NotAllowed => machineState' \in DOMAIN Moves)
  BY <1>4
<1>7. MachineOnTable'
  BY <1>5, <1>6, Stuck DEF MachineOnTable, CanMove
<1> QED
  BY <1>3, <1>5, <1>7 DEF MachineInv

(* Every step keeps it.                                                    *)
LEMMA MachineStep ==
    ASSUME MachineInv, [MachineNext]_machineVars
    PROVE  MachineInv'
<1>1. CASE MachineNext
  BY <1>1, MoveStep DEF MachineNext
<1>2. CASE UNCHANGED machineVars
  BY <1>2 DEF machineVars, MachineInv, MachineOnTable, CanMove, Lifecycle
<1> QED
  BY <1>1, <1>2
-----------------------------------------------------------------------------
(* Resume tokens.  Base64 in numbers: b bytes make l letters, and only all *)
(* of them give b bytes back; the padding that fills the last group is the *)
(* one decode_token restores, however much of it is left.                  *)
(* The letters and the padding of a text of b bytes. *)
Letters(b) == (4 * b + 2) \div 3
Padding(b) == (3 - (b % 3)) % 3

(* Padding as the receiver restores it, and what it can then decode. *)
Full(l, p) == p + ((-1 * (l + p)) % 4)
Readable(b, l, p) ==
    /\ l + p # 0 /\ (3 * l) \div 4 = b
    /\ l % 4 # 1 /\ (l % 4 > 1 => Full(l, p) >= 4 - (l % 4))

(* An encoded text short of a letter cannot be read without padding; one   *)
(* with all its letters can, whatever is left of its padding.              *)
LEMMA Wire ==
    ASSUME NEW b \in Nat
    PROVE  /\ Letters(b) \in Nat /\ Padding(b) \in 0 .. 2 /\ (b > 0 => Letters(b) > 0)
           /\ \A k \in 0 .. Letters(b) - 1 : ~Readable(b, k, 0)
           /\ b > 0 => \A n \in 0 .. Padding(b) : Readable(b, Letters(b), n)
<1> DEFINE q == b \div 3
<1>1. q \in Nat /\ b % 3 \in 0 .. 2 /\ b = 3 * q + (b % 3)
  OBVIOUS
<1> HIDE DEF q
<1>2. /\ b % 3 = 0 => b = 3 * q /\ Letters(b) = 4 * q /\ Padding(b) = 0
      /\ b % 3 = 1 => b = 3 * q + 1 /\ Letters(b) = 4 * q + 2 /\ Padding(b) = 2
      /\ b % 3 = 2 => b = 3 * q + 2 /\ Letters(b) = 4 * q + 3 /\ Padding(b) = 1
  BY <1>1 DEF Letters, Padding
<1>3. /\ Letters(b) \in Nat /\ Padding(b) \in 0 .. 2 /\ (b > 0 => Letters(b) > 0)
      /\ (3 * Letters(b)) \div 4 = b
  BY <1>1, <1>2
<1>4. ASSUME NEW k \in 0 .. Letters(b) - 1 PROVE ~Readable(b, k, 0)
  <2>1. (3 * k) \div 4 # b
    BY <1>1, <1>2
  <2> QED
    BY <2>1, Zenon DEF Readable
<1>5. ASSUME b > 0, NEW n \in 0 .. Padding(b) PROVE Readable(b, Letters(b), n)
  <2>1. n \in {0, 1, 2} /\ n <= Padding(b)
    BY <1>3
  <2>2. Letters(b) + n # 0
    BY <1>3, <1>5, <2>1
  <2>3. Letters(b) % 4 # 1
    BY <1>1, <1>2
  <2>4. Letters(b) % 4 > 1 => Full(Letters(b), n) >= 4 - (Letters(b) % 4)
    <3>1. CASE b % 3 = 0
      BY <1>1, <1>2, <3>1
    <3>2. CASE b % 3 = 1
      <4>1. Letters(b) % 4 = 2
        BY <1>1, <1>2, <3>2
      <4>2. Full(Letters(b), n) = 2
        <5>1. CASE n = 0
          BY <1>1, <1>2, <3>2, <5>1 DEF Full
        <5>2. CASE n = 1
          BY <1>1, <1>2, <3>2, <5>2 DEF Full
        <5>3. CASE n = 2
          BY <1>1, <1>2, <3>2, <5>3 DEF Full
        <5> QED
          BY <2>1, <5>1, <5>2, <5>3
      <4> QED
        BY <4>1, <4>2
    <3>3. CASE b % 3 = 2
      <4>1. Letters(b) % 4 = 3
        BY <1>1, <1>2, <3>3
      <4>2. Full(Letters(b), n) = 1
        <5>1. CASE n = 0
          BY <1>1, <1>2, <3>3, <5>1 DEF Full
        <5>2. CASE n = 1
          BY <1>1, <1>2, <3>3, <5>2 DEF Full
        <5> QED
          BY <1>2, <2>1, <3>3, <5>1, <5>2
      <4> QED
        BY <4>1, <4>2
    <3> QED
      BY <1>1, <3>1, <3>2, <3>3
  <2> QED
    BY <1>3, <2>2, <2>3, <2>4 DEF Readable
<1> QED
  BY <1>3, <1>4, <1>5, Zenon

(* A token on its way, as a record of its counts. *)
OnWire(payload, b, l, p) == [payload |-> payload, bytes |-> b, letters |-> l, padding |-> p]

(* A text that is cut loses its padding first, then letters.               *)
LEMMA ShortenedWire ==
    ASSUME NEW payload, NEW b, NEW l \in Nat, NEW p \in Nat, NEW n \in Nat
    PROVE  /\ n <= p => Shortened(OnWire(payload, b, l, p), n) = OnWire(payload, b, l, p - n)
           /\ n > p => Shortened(OnWire(payload, b, l, p), n) = OnWire(payload, b, l - (n - p), 0)
<1> DEFINE token == OnWire(payload, b, l, p)
           padding == IF n < token.padding THEN token.padding - n ELSE 0
           shorter == IF n < token.padding THEN token.letters
                      ELSE token.letters - (n - token.padding)
<1>1. Shortened(token, n) = [token EXCEPT !.padding = padding, !.letters = shorter]
  BY DEF Shortened
<1>2. token.padding = p /\ token.letters = l
  BY DEF OnWire
<1>3. n <= p => shorter = l /\ padding = p - n
  BY <1>2
<1>4. n > p => shorter = l - (n - p) /\ padding = 0
  BY <1>2
<1> HIDE DEF shorter, padding
<1>5. [token EXCEPT !.padding = padding, !.letters = shorter]
          = OnWire(payload, b, shorter, padding)
  <2>1. [token EXCEPT !.padding = padding] = OnWire(payload, b, l, padding)
    BY DEF OnWire
  <2>2. [OnWire(payload, b, l, padding) EXCEPT !.letters = shorter]
            = OnWire(payload, b, shorter, padding)
    BY DEF OnWire
  <2> HIDE DEF token
  <2> QED
    BY <2>1, <2>2
<1> HIDE DEF token
<1> QED
  BY <1>1, <1>3, <1>4, <1>5 DEF token

(* The reader restores the padding that the letters call for.              *)
LEMMA RestoredWire ==
    ASSUME NEW payload, NEW b, NEW l, NEW p
    PROVE  Restored(OnWire(payload, b, l, p)) = OnWire(payload, b, l, Full(l, p))
BY DEF Restored, OnWire, Full

(* What the reader makes of a text.                                        *)
LEMMA DecodedWire ==
    ASSUME NEW payload, NEW b \in Nat, NEW l \in Nat, NEW p \in Nat
    PROVE  DecodeToken(OnWire(payload, b, l, p)) =
              IF Readable(b, l, p) /\ payload.v = Version /\ ~(payload.offset < 0)
              THEN [offset |-> payload.offset, state |-> payload.state]
              ELSE Invalid
<1> DEFINE token == OnWire(payload, b, l, p)
           padded == OnWire(payload, b, l, Full(l, p))
<1>1. Restored(token) = padded
  BY RestoredWire, Zenon
<1>2. token.letters = l /\ token.padding = p /\ token.payload = payload
  BY DEF OnWire
<1>3. padded.letters = l /\ padded.padding = Full(l, p) /\ padded.bytes = b
  BY DEF OnWire
<1> HIDE DEF token, padded
<1>4. Decodable(padded) <=> (l % 4 # 1 /\ (l % 4 > 1 => Full(l, p) >= 4 - (l % 4)))
  BY <1>3, Zenon DEF Decodable
<1>5. Complete(padded) <=> (3 * l) \div 4 = b
  BY <1>3, Zenon DEF Complete
<1>6. DecodeToken(token) =
          IF l + p = 0 THEN Invalid
          ELSE IF ~Decodable(padded) \/ ~Complete(padded) THEN Invalid
          ELSE IF payload.v # Version \/ payload.offset < 0 THEN Invalid
          ELSE [offset |-> payload.offset, state |-> payload.state]
  BY <1>1, <1>2, Zenon DEF DecodeToken
<1>7. Readable(b, l, p) <=> l + p # 0 /\ Decodable(padded) /\ Complete(padded)
  BY <1>4, <1>5, Zenon DEF Readable
<1>8. CASE Readable(b, l, p) /\ payload.v = Version /\ ~(payload.offset < 0)
  <2>1. DecodeToken(token) = [offset |-> payload.offset, state |-> payload.state]
    BY <1>6, <1>7, <1>8, Zenon
  <2> QED
    BY <1>8, <2>1, Zenon DEF token
<1>9. CASE ~(Readable(b, l, p) /\ payload.v = Version /\ ~(payload.offset < 0))
  <2>1. DecodeToken(token) = Invalid
    BY <1>6, <1>7, <1>9, Zenon
  <2> QED
    BY <1>9, <2>1, Zenon DEF token
<1> QED
  BY <1>8, <1>9

(* The promise of resume_token.py, for every position and engine state.    *)
LEMMA TokensReadBack ==
    ASSUME NEW offset \in Nat, Digits(offset) \in Nat, NEW state \in Nat \cup {None}
    PROVE  ReadsBack(offset, state)
<1> DEFINE given == IF state = None THEN EmptyState ELSE state
           b == Bytes(offset, given)
           l == Letters(b)
           p == Padding(b)
           payload == [v |-> Version, offset |-> offset, state |-> given]
           token == EncodeToken(offset, state)
<1>1. given \in Nat /\ b \in Nat /\ b > 0
  BY DEF EmptyState, Bytes, None
<1> HIDE DEF given, b
<1>2. /\ l \in Nat /\ p \in 0 .. 2 /\ l > 0
      /\ \A k \in 0 .. l - 1 : ~Readable(b, k, 0)
      /\ \A n \in 0 .. p : Readable(b, l, n)
  BY <1>1, Wire
<1>3. ASSUME NEW x PROVE Base64(x, b) = OnWire(x, b, l, p)
  BY Zenon DEF Base64, OnWire, Letters, Padding
<1>4. ~(offset < 0)
  OBVIOUS
<1>5. token = OnWire(payload, b, l, p)
  <2>1. token = Base64(payload, b)
    BY <1>4, Zenon DEF EncodeToken, given, b
  <2> QED
    BY <1>3, <2>1, Zenon
<1> HIDE DEF l, p
<1>6. token.letters = l /\ token.padding = p
  BY <1>5 DEF OnWire
<1> HIDE DEF token
<1>7. payload.v = Version /\ payload.offset = offset /\ payload.state = given
  OBVIOUS
<1> HIDE DEF payload
<1>8. ASSUME NEW n \in 0 .. token.letters + token.padding
      PROVE  DecodeToken(Shortened(token, n)) =
                IF n <= token.padding THEN [offset |-> offset, state |-> given] ELSE Invalid
  <2>1. n \in 0 .. l + p /\ n \in Nat /\ p \in Nat
    BY <1>2, <1>6
  <2>2. CASE n <= p
    <3>1. Shortened(token, n) = OnWire(payload, b, l, p - n)
      BY <1>2, <1>5, <2>1, <2>2, ShortenedWire
    <3>2. p - n \in Nat /\ p - n \in 0 .. p
      BY <2>1, <2>2
    <3>3. Readable(b, l, p - n)
      BY <1>2, <3>2
    <3>4. DecodeToken(OnWire(payload, b, l, p - n)) = [offset |-> payload.offset, state |-> payload.state]
      BY <1>1, <1>2, <1>4, <1>7, <3>2, <3>3, DecodedWire, Zenon
    <3> QED
      BY <1>6, <1>7, <2>2, <3>1, <3>4, Zenon
  <2>3. CASE n > p
    <3> DEFINE k == l - (n - p)
    <3>1. Shortened(token, n) = OnWire(payload, b, k, 0)
      BY <1>2, <1>5, <2>1, <2>3, ShortenedWire
    <3>2. k \in Nat /\ k \in 0 .. l - 1
      BY <1>2, <2>1, <2>3
    <3> HIDE DEF k
    <3>3. ~Readable(b, k, 0)
      BY <1>2, <3>2, Zenon
    <3>4. 0 \in Nat
      OBVIOUS
    <3>5. DecodeToken(OnWire(payload, b, k, 0)) = Invalid
      BY <1>1, <3>2, <3>3, <3>4, DecodedWire, Zenon
    <3>6. ~(n <= p)
      BY <2>1, <2>3
    <3> QED
      BY <1>6, <3>1, <3>5, <3>6, Zenon
  <2> QED
    BY <2>1, <2>2, <2>3
<1>9. EncodeToken(-1 - offset, state) = Invalid
  <2>1. -1 - offset < 0
    OBVIOUS
  <2> QED
    BY <2>1, Zenon DEF EncodeToken
<1>10. ASSUME NEW x, x.v # Version \/ x.offset < 0
       PROVE  DecodeToken(Base64(x, b)) = Invalid
  <2>1. l \in Nat /\ p \in Nat
    BY <1>2
  <2>2. Base64(x, b) = OnWire(x, b, l, p)
    BY <1>3, Zenon DEF l, p
  <2>3. DecodeToken(OnWire(x, b, l, p)) =
            IF Readable(b, l, p) /\ x.v = Version /\ ~(x.offset < 0)
            THEN [offset |-> x.offset, state |-> x.state]
            ELSE Invalid
    BY <1>1, <2>1, DecodedWire, Zenon
  <2> QED
    BY <1>10, <2>2, <2>3, Zenon
<1>11. DecodeToken(Base64([v |-> Version + 1, offset |-> offset, state |-> given], b)) = Invalid
  <2>1. Version + 1 # Version
    BY DEF Version
  <2> QED
    BY <1>10, <2>1
<1>12. DecodeToken(Base64([v |-> Version, offset |-> -1 - offset, state |-> given], b)) = Invalid
  <2>1. -1 - offset < 0
    OBVIOUS
  <2> QED
    BY <1>10, <2>1
<1> QED
  BY <1>8, <1>9, <1>11, <1>12, Zenon DEF ReadsBack, token, given, b

-----------------------------------------------------------------------------
(* The token bucket.  The marker is the latest reading, and the bucket is  *)
(* what the promised wait says, or full.  Worth is kept closed, so that    *)
(* the multiplication stays in the first lemma.                            *)
Worth(a, b) == Rate * (b - a)

Promised(p) ==
    /\ p.tokens \in 1 .. BucketCapacity
    /\ p.deficit \in Nat
    /\ p.since \in Nat /\ p.since <= lastRefill
    /\ \/ tokens = p.tokens - p.deficit + Worth(p.since, lastRefill)
       \/ tokens = BucketCapacity /\ Worth(p.since, lastRefill) >= p.deficit

BucketInv ==
    /\ tokens \in 0 .. BucketCapacity
    /\ lastRefill \in Nat /\ newest = lastRefill
    /\ opened \in Nat /\ opened <= newest
    /\ admitted \in Nat
    /\ admitted + tokens <= BucketCapacity + Worth(opened, newest)
    /\ promise # NoPromise => Promised(promise)

(* What time is worth adds up over successive spans.                       *)
LEMMA WorthAdds ==
    /\ \A a, b \in Nat : a <= b => Worth(a, b) \in Nat
    /\ \A a \in Nat : Worth(a, a) = 0
    /\ \A a, b, c \in Nat : Worth(a, c) = Worth(a, b) + Worth(b, c)
    /\ \A a, b \in Nat : Worth(a, b) \in Int /\ (b - a) * Rate = Worth(a, b)
<1>1. Rate \in Nat
  BY BucketAssumption
<1>2. ASSUME NEW d \in Nat PROVE Rate * d \in Nat
  BY <1>1
<1>3. ASSUME NEW a \in Nat, NEW b \in Nat, a <= b PROVE Worth(a, b) \in Nat
  <2>1. b - a \in Nat
    BY <1>3
  <2> QED
    BY <1>2, <2>1 DEF Worth
<1>4. ASSUME NEW a \in Nat PROVE Worth(a, a) = 0
  BY <1>1 DEF Worth
<1>5. ASSUME NEW a \in Nat, NEW b \in Nat, NEW c \in Nat
      PROVE  Worth(a, c) = Worth(a, b) + Worth(b, c)
  BY <1>1 DEF Worth
<1>6. ASSUME NEW a \in Nat, NEW b \in Nat
      PROVE  Worth(a, b) \in Int /\ (b - a) * Rate = Worth(a, b)
  BY <1>1 DEF Worth
<1> QED
  BY <1>3, <1>4, <1>5, <1>6

(* The bucket: the invariant holds initially.                              *)
LEMMA BucketStart == BucketInit /\ now \in Nat => BucketInv
BY BucketAssumption, WorthAdds DEF BucketInit, BucketInv

(* What the bucket holds once it is refilled, and where the marker is. *)
LEMMA RefillAccrues ==
    ASSUME BucketInv, now \in Nat
    PROVE  /\ Marker \in Nat /\ Marker >= lastRefill /\ Marker >= now
           /\ Marker = Larger(newest, now) /\ Marker = Larger(now, lastRefill)
           /\ Refilled \in 0 .. BucketCapacity
           /\ Refilled <= tokens + Worth(lastRefill, Marker)
           /\ Refilled \in {BucketCapacity, tokens + Worth(lastRefill, Marker)}
<1> USE BucketAssumption DEF BucketInv
<1>1. /\ Marker \in Nat /\ Marker >= lastRefill /\ Marker >= now
      /\ Marker = Larger(newest, now) /\ Marker = Larger(now, lastRefill)
  BY DEF Marker, Larger
<1>2. CASE now <= lastRefill
  <2>1. Marker = lastRefill /\ Refilled = tokens
    BY <1>2 DEF Marker, Larger, Refilled
  <2>2. Worth(lastRefill, lastRefill) = 0
    BY WorthAdds
  <2> QED
    BY <1>1, <2>1, <2>2
<1>3. CASE now > lastRefill
  <2>1. Marker = now /\ ~(now - lastRefill <= 0)
    BY <1>3 DEF Marker, Larger
  <2>2. Worth(lastRefill, now) \in Nat /\ (now - lastRefill) * Rate = Worth(lastRefill, now)
    <3>1. lastRefill \in Nat /\ lastRefill <= now
      BY <1>3
    <3> QED
      BY <3>1, WorthAdds, Zenon
  <2>3. Refilled = Smaller(BucketCapacity, tokens + Worth(lastRefill, now))
    BY <2>1, <2>2, Zenon DEF Refilled
  <2> QED
    BY <1>1, <2>1, <2>2, <2>3 DEF Smaller
<1> QED
  BY <1>2, <1>3

(* A refill keeps a promise: first in numbers, with w the worth of the     *)
(* time until the marker and v that of the refill.                         *)
LEMMA RefillInNumbers ==
    ASSUME NEW cap \in Nat, NEW t \in 0 .. cap, NEW r \in 0 .. cap,
           NEW n \in 1 .. cap, NEW d \in Nat, NEW w \in Nat, NEW v \in Nat,
           t = n - d + w \/ (t = cap /\ w >= d),
           r <= t + v, r \in {cap, t + v}
    PROVE  \/ r = n - d + (w + v)
           \/ r = cap /\ w + v >= d
<1>1. CASE t = cap /\ w >= d
  BY <1>1
<1>2. CASE t = n - d + w /\ r = t + v
  BY <1>2
<1>3. CASE t = n - d + w /\ r = cap
  BY <1>3
<1> QED
  BY <1>1, <1>2, <1>3

(* While a wait that was told stands, refills keep what it promised.       *)
LEMMA RefillKeepsPromise ==
    ASSUME BucketInv, now \in Nat, NEW p, Promised(p)
    PROVE  /\ \/ Refilled = p.tokens - p.deficit + Worth(p.since, Marker)
              \/ Refilled = BucketCapacity /\ Worth(p.since, Marker) >= p.deficit
           /\ p.since <= Marker
<1> DEFINE n == p.tokens
           d == p.deficit
           since == p.since
           w == Worth(since, lastRefill)
           v == Worth(lastRefill, Marker)
<1>1. /\ n \in 1 .. BucketCapacity /\ d \in Nat /\ since \in Nat
      /\ since <= lastRefill
      /\ tokens = n - d + w \/ (tokens = BucketCapacity /\ w >= d)
  BY DEF Promised
<1> HIDE DEF n, d, since
<1>2. /\ BucketCapacity \in Nat /\ tokens \in 0 .. BucketCapacity /\ lastRefill \in Nat
  BY BucketAssumption DEF BucketInv
<1>3. /\ Marker \in Nat /\ Marker >= lastRefill
      /\ Refilled \in 0 .. BucketCapacity
      /\ Refilled <= tokens + v
      /\ Refilled \in {BucketCapacity, tokens + v}
  BY RefillAccrues
<1>4. w \in Nat /\ v \in Nat /\ Worth(since, Marker) = w + v
  <2>1. lastRefill <= Marker /\ since \in Nat /\ lastRefill \in Nat /\ Marker \in Nat
    BY <1>1, <1>2, <1>3
  <2> QED
    BY <1>1, <2>1, WorthAdds, Zenon
<1> HIDE DEF w, v
<1>5. \/ Refilled = n - d + (w + v)
      \/ Refilled = BucketCapacity /\ w + v >= d
  BY <1>1, <1>2, <1>3, <1>4, RefillInNumbers
<1>6. since <= Marker
  BY <1>1, <1>2, <1>3
<1> QED
  BY <1>4, <1>5, <1>6, Zenon DEF n, d, since

(* The wait that is told is exact. *)
LEMMA WaitIsExact ==
    ASSUME BucketInv, now \in Nat
    PROVE  RateBounded
<1>1. tokens \in 0 .. BucketCapacity
      /\ admitted + tokens <= BucketCapacity + Rate * (newest - opened)
  BY DEF BucketInv, Worth
<1>2. ASSUME promise # NoPromise
      PROVE  Admissible(promise.tokens) <=>
                Rate * (Larger(now, lastRefill) - promise.since) >= promise.deficit
  <2>1. Promised(promise)
    BY <1>2 DEF BucketInv
  <2>2. /\ promise.tokens \in 1 .. BucketCapacity /\ promise.deficit \in Nat
        /\ promise.since \in Nat
    BY <2>1 DEF Promised
  <2>3. /\ \/ Refilled = promise.tokens - promise.deficit + Worth(promise.since, Marker)
           \/ Refilled = BucketCapacity /\ Worth(promise.since, Marker) >= promise.deficit
        /\ promise.since <= Marker
    BY <2>1, RefillKeepsPromise
  <2>4. /\ Refilled \in 0 .. BucketCapacity
        /\ Marker \in Nat /\ Marker = Larger(now, lastRefill)
    BY RefillAccrues
  <2>5. Worth(promise.since, Marker) \in Nat
    BY <2>2, <2>3, <2>4, WorthAdds
  <2>6. Refilled >= promise.tokens <=> Worth(promise.since, Marker) >= promise.deficit
    BY <2>2, <2>3, <2>4, <2>5, BucketAssumption
  <2>7. promise.tokens <= BucketCapacity
    BY <2>2, BucketAssumption
  <2> QED
    BY <2>4, <2>6, <2>7, Zenon DEF Admissible, Worth
<1> QED
  BY <1>1, <1>2, Zenon DEF RateBounded

(* Every step keeps the invariant.                                         *)
LEMMA BucketStep ==
    ASSUME BucketInv, now \in Nat, [BucketNext]_bucketVars
    PROVE  BucketInv'
<1>1. /\ BucketCapacity \in Nat /\ tokens \in 0 .. BucketCapacity
      /\ lastRefill \in Nat /\ newest = lastRefill
      /\ opened \in Nat /\ opened <= newest /\ admitted \in Nat
      /\ admitted + tokens <= BucketCapacity + Worth(opened, newest)
      /\ promise # NoPromise => Promised(promise)
  BY BucketAssumption DEF BucketInv
<1>2. /\ Marker \in Nat /\ Marker >= lastRefill /\ Marker >= now
      /\ Marker = Larger(newest, now)
      /\ Refilled \in 0 .. BucketCapacity
      /\ Refilled <= tokens + Worth(lastRefill, Marker)
  BY RefillAccrues
<1>3. admitted + Refilled <= BucketCapacity + Worth(opened, Marker)
  <2>1. /\ Worth(opened, Marker) = Worth(opened, newest) + Worth(lastRefill, Marker)
        /\ Worth(opened, newest) \in Nat /\ Worth(lastRefill, Marker) \in Nat
    BY <1>1, <1>2, WorthAdds
  <2> QED
    BY <1>1, <1>2, <2>1
<1>4. ASSUME tokens' = Refilled, lastRefill' = Marker, promise' = promise,
             promise # NoPromise
      PROVE  Promised(promise)'
  <2>1. /\ promise.tokens \in 1 .. BucketCapacity /\ promise.deficit \in Nat
        /\ promise.since \in Nat
    BY <1>1, <1>4 DEF Promised
  <2>2. /\ \/ Refilled = promise.tokens - promise.deficit + Worth(promise.since, Marker)
           \/ Refilled = BucketCapacity /\ Worth(promise.since, Marker) >= promise.deficit
        /\ promise.since <= Marker
    BY <1>1, <1>4, RefillKeepsPromise
  <2>3. Worth(promise.since, lastRefill)' = Worth(promise.since, Marker)
    BY <1>4 DEF Worth
  <2> QED
    BY <1>4, <2>1, <2>2, <2>3 DEF Promised
<1>5. ASSUME tokens' \in 0 .. Refilled, lastRefill' = Marker, newest' = Larger(newest, now),
             opened' = opened, admitted' + tokens' = admitted + Refilled, admitted' \in Nat,
             promise' # NoPromise => Promised(promise)'
      PROVE  BucketInv'
  <2>1. Worth(opened, newest)' = Worth(opened, Marker)
    BY <1>2, <1>5 DEF Worth
  <2>2. /\ tokens' \in 0 .. BucketCapacity
        /\ lastRefill' \in Nat /\ newest' = lastRefill'
        /\ opened' \in Nat /\ opened' <= newest'
    BY <1>1, <1>2, <1>5
  <2>3. admitted' + tokens' <= BucketCapacity + Worth(opened, newest)'
    BY <1>3, <1>5, <2>1
  <2> QED
    BY <1>5, <2>2, <2>3 DEF BucketInv
<1>6. CASE LookAtTokens
  <2>1. /\ tokens' = Refilled /\ lastRefill' = Marker /\ newest' = Larger(newest, now)
        /\ opened' = opened /\ admitted' = admitted /\ promise' = promise
    BY <1>6 DEF LookAtTokens
  <2>2. tokens' \in 0 .. Refilled /\ admitted' + tokens' = admitted + Refilled
    BY <1>2, <2>1
  <2> QED
    BY <1>1, <1>4, <1>5, <2>1, <2>2, Zenon
<1>7. ASSUME NEW n \in 1 .. BucketCapacity + 1, AcquireTokens(n) PROVE BucketInv'
  <2>1. /\ tokens' = Refilled - n /\ Refilled >= n
        /\ lastRefill' = Marker /\ newest' = Larger(newest, now)
        /\ opened' = opened /\ admitted' = admitted + n /\ promise' = NoPromise
    BY <1>7 DEF AcquireTokens, Admissible
  <2>2. /\ tokens' \in 0 .. Refilled /\ admitted' \in Nat
        /\ admitted' + tokens' = admitted + Refilled
    BY <1>1, <1>2, <2>1
  <2> QED
    BY <1>5, <2>1, <2>2, Zenon
<1>8. ASSUME NEW n \in 1 .. BucketCapacity + 1, RejectTokens(n) PROVE BucketInv'
  <2>1. /\ ~Admissible(n) /\ tokens' = Refilled
        /\ lastRefill' = Marker /\ newest' = Larger(newest, now)
        /\ opened' = opened /\ admitted' = admitted
        /\ promise' = IF n <= BucketCapacity /\ now >= lastRefill
                      THEN [tokens |-> n, since |-> now, deficit |-> Deficit(n)]
                      ELSE promise
    BY <1>8, Zenon DEF RejectTokens
  <2>2. tokens' \in 0 .. Refilled /\ admitted' + tokens' = admitted + Refilled
    BY <1>2, <2>1
  <2>3. CASE n <= BucketCapacity /\ now >= lastRefill
    <3>1. /\ promise'.tokens = n /\ promise'.since = now /\ promise'.deficit = Deficit(n)
      BY <2>1, <2>3
    <3>2. Refilled < n
      BY <1>2, <2>1, <2>3 DEF Admissible
    <3>3. Deficit(n) = n - Refilled
      BY <1>2, <3>2 DEF Deficit, Larger
    <3>4. Marker = now
      BY <1>1, <2>3 DEF Marker, Larger
    <3>5. Worth(promise.since, lastRefill)' = 0
      <4>1. Worth(promise.since, lastRefill)' = Worth(now, now)
        BY <2>1, <3>1, <3>4 DEF Worth
      <4> QED
        BY <4>1, WorthAdds
    <3>6. /\ promise'.tokens \in 1 .. BucketCapacity /\ promise'.deficit \in Nat
          /\ promise'.since \in Nat /\ promise'.since <= lastRefill'
          /\ tokens' = promise'.tokens - promise'.deficit + 0
      BY <1>1, <1>2, <2>1, <2>3, <3>1, <3>2, <3>3, <3>4
    <3>7. Promised(promise)'
      BY <3>5, <3>6 DEF Promised
    <3> QED
      BY <1>1, <1>5, <2>1, <2>2, <3>7, Zenon
  <2>4. CASE ~(n <= BucketCapacity /\ now >= lastRefill)
    <3>1. promise' = promise
      BY <2>1, <2>4, Zenon
    <3> QED
      BY <1>1, <1>4, <1>5, <2>1, <2>2, <3>1, Zenon
  <2> QED
    BY <2>3, <2>4
<1>9. CASE UNCHANGED bucketVars
  BY <1>9 DEF bucketVars, BucketInv, Promised, Worth, NoPromise
<1> QED
  BY <1>6, <1>7, <1>8, <1>9, Zenon DEF BucketNext

-----------------------------------------------------------------------------
(* Leases: a lease lasts Ttl from the beat it was obtained with.           *)
LeaseInv ==
    /\ leases \in [Leased -> [owner : Owners, expires : Int] \cup {NoLease}]
    /\ beats \in [Leased -> Nat]
    /\ \A t \in Leased : leases[t] # NoLease => leases[t].expires = beats[t] + Ttl
    /\ IsFiniteSet({t \in Leased : leases[t] # NoLease})

(* Leases: the invariant holds initially, and every step keeps it.         *)
LEMMA LeaseStart == LeaseInit => LeaseInv
<1> SUFFICES ASSUME LeaseInit PROVE LeaseInv
  OBVIOUS
<1>1. {t \in Leased : leases[t] # NoLease} = {}
  BY DEF LeaseInit
<1> QED
  BY <1>1, FS_EmptySet DEF LeaseInit, LeaseInv

(* Every step keeps it.                                                    *)
LEMMA LeaseStep ==
    ASSUME LeaseInv, now \in Nat, [LeaseNext]_leaseVars
    PROVE  LeaseInv'
<1>1. ASSUME NEW t \in Leased, NEW l \in [owner : Owners, expires : Int],
             l.expires = now + Ttl, Obtain(t, l)
      PROVE  LeaseInv'
  <2> DEFINE held == {u \in Leased : leases[u] # NoLease}
  <2>1. leases' = [leases EXCEPT ![t] = l] /\ beats' = [beats EXCEPT ![t] = now]
    BY <1>1 DEF Obtain
  <2>2. held' \subseteq held \cup {t}
    BY <2>1 DEF LeaseInv, NoLease
  <2>3. IsFiniteSet(held \cup {t})
    BY FS_AddElement, Zenon DEF LeaseInv
  <2>4. IsFiniteSet(held')
    <3> HIDE DEF held
    <3> QED
      BY <2>2, <2>3, FS_Subset
  <2>5. /\ leases' \in [Leased -> [owner : Owners, expires : Int] \cup {NoLease}]
        /\ beats' \in [Leased -> Nat]
        /\ \A u \in Leased : leases'[u] # NoLease => leases'[u].expires = beats'[u] + Ttl
    BY <1>1, <2>1 DEF LeaseInv
  <2> QED
    BY <2>4, <2>5, Zenon DEF LeaseInv, NoLease
<1>2. now + Ttl \in Int
  BY LeasesAssumption
<1>3. ASSUME NEW owner \in Owners
      PROVE  NewLease(owner) \in [owner : Owners, expires : Int]
             /\ NewLease(owner).expires = now + Ttl
  BY <1>2 DEF NewLease
<1>4. ASSUME NEW t \in Leased, Renew(t) PROVE LeaseInv'
  <2> DEFINE l == [leases[t] EXCEPT !.expires = now + Ttl]
  <2>1. leases[t] \in [owner : Owners, expires : Int] /\ Obtain(t, l)
    BY <1>4 DEF Renew, LeaseInv
  <2>2. l \in [owner : Owners, expires : Int] /\ l.expires = now + Ttl
    BY <1>2, <2>1
  <2> HIDE DEF l
  <2> QED
    BY <1>1, <2>1, <2>2
<1>5. ASSUME NEW t \in Leased, NEW owner \in Owners, Acquire(t, owner) \/ Transfer(t, owner)
      PROVE  LeaseInv'
  <2>1. Obtain(t, NewLease(owner))
    BY <1>5 DEF Acquire, Transfer
  <2> QED
    BY <1>1, <1>3, <2>1
<1>6. CASE UNCHANGED leaseVars
  BY <1>6 DEF leaseVars, LeaseInv, NoLease
<1> QED
  BY <1>4, <1>5, <1>6 DEF LeaseNext

(* The five judgements of one lease, in numbers.                           *)
LEMMA LeaseJudged ==
    ASSUME LeaseInv, now \in Nat, NEW t \in Leased, leases[t] # NoLease
    PROVE  LET l == leases[t]
               d == [start |-> beats[t], budget |-> Ttl]
               verdict == ClassifyTimeout(DeadlineElapsed(d), d.budget)
           IN  /\ LeaseExpired(l) <=> DeadlineExpired(d)
               /\ LeaseExpired(l) <=> verdict.timedOut
               /\ LeaseHeld(l) <=> LeaseRemaining(l) > 0
               /\ LeaseRemaining(l) = DeadlineRemaining(d)
               /\ verdict.overrun = DeadlineOverrun(d)
               /\ now >= beats[t] => verdict.remaining = DeadlineRemaining(d)
               /\ Stale(beats[t], Ttl) => LeaseExpired(l)
               /\ (LeaseExpired(l) /\ ~Stale(beats[t], Ttl)) <=> now = l.expires
<1> DEFINE b == beats[t]
           e == leases[t].expires
           d == [start |-> b, budget |-> Ttl]
           elapsed == DeadlineElapsed(d)
           verdict == ClassifyTimeout(elapsed, Ttl)
<1>1. b \in Nat /\ e = b + Ttl /\ Ttl \in Nat /\ Ttl > 0
  BY LeasesAssumption DEF LeaseInv
<1>2. d.start = b /\ d.budget = Ttl
  OBVIOUS
<1>3. /\ Deadline(d) = b + Ttl
      /\ LeaseExpired(leases[t]) <=> now >= b + Ttl
      /\ LeaseHeld(leases[t]) <=> ~(now >= b + Ttl)
      /\ DeadlineExpired(d) <=> now >= b + Ttl
      /\ Stale(b, Ttl) <=> now - b > Ttl
  BY <1>1, <1>2, Zenon DEF Deadline, LeaseExpired, LeaseHeld, DeadlineExpired, Stale
<1>4. /\ LeaseRemaining(leases[t]) = Larger(0, (b + Ttl) - now)
      /\ DeadlineRemaining(d) = Larger(0, (b + Ttl) - now)
      /\ DeadlineOverrun(d) = Larger(0, now - (b + Ttl))
      /\ elapsed = Larger(0, now - b)
  BY <1>1, <1>2, <1>3, Zenon DEF LeaseRemaining, DeadlineRemaining, DeadlineOverrun, DeadlineElapsed
<1>5. /\ verdict.timedOut <=> elapsed >= Ttl
      /\ verdict.remaining = IF elapsed >= Ttl THEN 0 ELSE Ttl - elapsed
      /\ verdict.overrun = IF elapsed >= Ttl THEN elapsed - Ttl ELSE 0
  BY DEF ClassifyTimeout
<1> HIDE DEF d, b, e, verdict, elapsed
<1>6. now >= b + Ttl <=> elapsed >= Ttl
  BY <1>1, <1>4 DEF Larger
<1>7. verdict.overrun = DeadlineOverrun(d)
  BY <1>1, <1>4, <1>5 DEF Larger
<1>8. now >= b => verdict.remaining = DeadlineRemaining(d)
  BY <1>1, <1>4, <1>5 DEF Larger
<1>9. ~(now >= b + Ttl) <=> LeaseRemaining(leases[t]) > 0
  BY <1>1, <1>4 DEF Larger
<1>10. /\ now - b > Ttl => now >= b + Ttl
       /\ (now >= b + Ttl /\ ~(now - b > Ttl)) <=> now = e
  BY <1>1
<1> QED
  BY <1>2, <1>3, <1>4, <1>5, <1>6, <1>7, <1>8, <1>9, <1>10, Zenon DEF d, b, e, verdict, elapsed

(* line lists those of items that are stale, longest silent first. *)
Reaps(line, items, maxAge) ==
    LET stale == {t \in DOMAIN items : now - items[t] > maxAge}
    IN  /\ {line[i] : i \in DOMAIN line} = stale
        /\ Len(line) = Cardinality(stale)
        /\ DOMAIN line = 1 .. Len(line) /\ Len(line) \in Nat
        /\ \A i \in 1 .. Len(line) - 1 : items[line[i]] <= items[line[i + 1]]

(* find_stale does that.                                                   *)
LEMMA StaleAreListed ==
    ASSUME NEW held, held \subseteq Int, IsFiniteSet(held), NEW items \in [held -> Nat],
           now \in Nat, NEW maxAge \in Nat
    PROVE  Reaps(FindStale(items, maxAge), items, maxAge)
<1> DEFINE stale == {t \in held : now - items[t] > maxAge}
           before == {p \in stale \X stale :
                         \/ items[p[1]] < items[p[2]]
                         \/ items[p[1]] = items[p[2]] /\ p[1] < p[2]}
           line == Sorted(stale, before)
<1>1. DOMAIN items = held /\ \A t \in stale : t \in Int /\ items[t] \in Nat
  OBVIOUS
<1>2. FindStale(items, maxAge) = line
  BY <1>1, Zenon DEF FindStale
<1>3. stale \subseteq held
  OBVIOUS
<1>4. \A t, u \in stale : <<t, u>> \in before <=>
          items[t] < items[u] \/ (items[t] = items[u] /\ t < u)
  OBVIOUS
<1> HIDE DEF stale, before, line
<1>5. IsFiniteSet(stale)
  BY <1>3, FS_Subset
<1>6. Orders(before, stale)
  BY <1>1, <1>4 DEF Orders
<1>7. IsListing(line, stale, before)
  BY <1>5, <1>6, SortedIsSorted DEF line
<1>8. /\ DOMAIN line = 1 .. Len(line) /\ Len(line) \in Nat
      /\ \A i \in 1 .. Len(line) : line[i] \in stale
  BY <1>6, <1>7, SortedDiffers
<1>9. /\ {line[i] : i \in DOMAIN line} = stale /\ Len(line) = Cardinality(stale)
      /\ \A i, j \in 1 .. Len(line) : i < j => <<line[i], line[j]>> \in before
  BY <1>7, <1>8 DEF IsListing
<1>10. ASSUME NEW i \in 1 .. Len(line) - 1
       PROVE  items[line[i]] <= items[line[i + 1]]
  <2>1. i \in 1 .. Len(line) /\ i + 1 \in 1 .. Len(line) /\ i < i + 1
    BY <1>8
  <2>2. line[i] \in stale /\ line[i + 1] \in stale /\ <<line[i], line[i + 1]>> \in before
    BY <1>8, <1>9, <2>1
  <2> QED
    BY <1>1, <1>4, <2>2
<1>11. stale = {t \in DOMAIN items : now - items[t] > maxAge}
  BY <1>1 DEF stale
<1> QED
  BY <1>2, <1>8, <1>9, <1>10, <1>11, ZenonT(30) DEF Reaps

(* Whoever was seen by now is within the window or is reaped.              *)
LEMMA WindowsPartition ==
    ASSUME NEW held, IsFiniteSet(held), NEW items \in [held -> Nat], now \in Nat, NEW width \in Nat
    PROVE  LET stale == {t \in held : now - items[t] > width}
               within == {t \in held : now - width <= items[t] /\ items[t] <= now}
           IN  /\ CountInWindow(items, width) = Cardinality(within)
               /\ RateInWindow(items, width) = [count |-> Cardinality(within), per |-> width]
               /\ Cardinality(within) + Cardinality(stale)
                     = Cardinality({t \in held : items[t] <= now})
<1> DEFINE stale == {t \in held : now - items[t] > width}
           within == {t \in held : now - width <= items[t] /\ items[t] <= now}
           past == {t \in held : items[t] <= now}
           inside == {t \in held : items[t] \in (now - width) .. now}
<1>1. DOMAIN items = held /\ \A t \in held : items[t] \in Nat
  OBVIOUS
<1>2. /\ \A t : t \in within <=> t \in held /\ now - width <= items[t] /\ items[t] <= now
      /\ \A t : t \in inside <=> t \in held /\ items[t] \in (now - width) .. now
      /\ \A t : t \in stale <=> t \in held /\ now - items[t] > width
      /\ \A t : t \in past <=> t \in held /\ items[t] <= now
  OBVIOUS
<1>3. CountInWindow(items, width) = Cardinality(within)
  BY <1>1 DEF CountInWindow
<1>4. RateInWindow(items, width) = [count |-> Cardinality(inside), per |-> width]
  BY <1>1, Zenon DEF RateInWindow
<1> HIDE DEF stale, within, past, inside
<1>5. ASSUME NEW t \in held
      PROVE  /\ t \in within <=> t \in inside
             /\ ~(t \in within /\ t \in stale)
             /\ t \in past <=> t \in within \/ t \in stale
  <2>1. items[t] \in Nat /\ now - width \in Int
    BY <1>1
  <2> QED
    BY <1>2, <2>1
<1>6. within = inside /\ within \cap stale = {} /\ within \cup stale = past
      /\ within \subseteq held /\ stale \subseteq held
  BY <1>2, <1>5, Zenon
<1>7. IsFiniteSet(within) /\ IsFiniteSet(stale)
  BY <1>6, FS_Subset
<1>8. Cardinality(within \cup stale)
         = Cardinality(within) + Cardinality(stale) - Cardinality(within \cap stale)
  BY <1>7, FS_Union
<1>9. Cardinality(within \cap stale) = 0 /\ Cardinality(within) \in Nat
      /\ Cardinality(stale) \in Nat
  BY <1>6, <1>7, FS_EmptySet, FS_CardinalityType
<1>10. Cardinality(within) + Cardinality(stale) = Cardinality(past)
  BY <1>6, <1>8, <1>9
<1> QED
  BY <1>3, <1>4, <1>6, <1>10 DEF stale, within, past

(* All six judge alike.                                                    *)
LEMMA ExpiriesFollow == LeaseInv /\ now \in Nat => ExpiriesAgree
<1> SUFFICES ASSUME LeaseInv, now \in Nat
             PROVE  ExpiriesAgree
  OBVIOUS
<1> DEFINE held == {t \in Leased : leases[t] # NoLease}
           items == [t \in held |-> beats[t]]
           reaped == FindStale(items, Ttl)
           stale == {t \in held : now - items[t] > Ttl}
           within == {t \in held : now - Ttl <= items[t] /\ items[t] <= now}
           past == {t \in held : items[t] <= now}
<1>1. \A t \in held : t \in Leased /\ leases[t] # NoLease
  OBVIOUS
<1>2. \A t \in held : items[t] = beats[t]
  OBVIOUS
<1>3. Ttl \in Nat /\ held \subseteq Int /\ items \in [held -> Nat]
  BY LeasesAssumption DEF LeaseInv
<1>5. IsFiniteSet(held)
  BY Zenon DEF LeaseInv
<1>4. past = {t \in held : beats[t] <= now} /\ stale = {t \in held : Stale(beats[t], Ttl)}
  BY <1>2, Zenon DEF Stale
<1> HIDE DEF held, items
<1>6. /\ {reaped[i] : i \in DOMAIN reaped} = stale /\ Len(reaped) = Cardinality(stale)
      /\ \A i \in 1 .. Len(reaped) - 1 : items[reaped[i]] <= items[reaped[i + 1]]
      /\ DOMAIN reaped = 1 .. Len(reaped) /\ Len(reaped) \in Nat
  <2>1. held \subseteq Int /\ IsFiniteSet(held) /\ items \in [held -> Nat] /\ Ttl \in Nat
    BY <1>3, <1>5
  <2>2. Reaps(reaped, items, Ttl)
    BY <2>1, StaleAreListed
  <2>3. DOMAIN items = held
    BY <2>1
  <2> QED
    BY <2>2, <2>3, Zenon DEF Reaps
<1>7. /\ CountInWindow(items, Ttl) = Cardinality(within)
      /\ RateInWindow(items, Ttl) = [count |-> Cardinality(within), per |-> Ttl]
      /\ Cardinality(within) + Cardinality(stale) = Cardinality(past)
  BY <1>3, <1>5, WindowsPartition, Zenon
<1>8. stale \subseteq held
  OBVIOUS
<1> HIDE DEF stale, within, past, reaped
<1>9. ASSUME NEW i \in 1 .. Len(reaped) - 1
      PROVE  beats[reaped[i]] <= beats[reaped[i + 1]]
  <2>1. i \in DOMAIN reaped /\ i + 1 \in DOMAIN reaped
    BY <1>6
  <2>2. reaped[i] \in stale /\ reaped[i + 1] \in stale
    BY <1>6, <2>1
  <2>3. reaped[i] \in held /\ reaped[i + 1] \in held
    BY <1>8, <2>2
  <2>4. items[reaped[i]] <= items[reaped[i + 1]]
    BY <1>6
  <2> QED
    BY <1>2, <2>3, <2>4
<1>10. CountInWindow(items, Ttl) + Len(reaped) = Cardinality(past)
  BY <1>6, <1>7
<1>11. RateInWindow(items, Ttl) = [count |-> CountInWindow(items, Ttl), per |-> Ttl]
  BY <1>7
<1> QED
  BY <1>1, <1>4, <1>6, <1>9, <1>10, <1>11, LeaseJudged, Zenon
     DEF ExpiriesAgree, held, items, reaped

-----------------------------------------------------------------------------
(* The retry budget.  Its two counts are of one set of charges: the n-th   *)
(* retry of task t is the pair of t and n.                                 *)
Charges == {c \in BudgetTasks \X (Nat \ {0}) : c[2] <= spentBy[c[1]]}

BudgetInv ==
    /\ total \in Nat /\ perTask \in Nat \cup {Uncapped}
    /\ spent \in 0 .. total
    /\ spentBy \in [BudgetTasks -> Nat]
    /\ perTask # Uncapped => \A t \in BudgetTasks : spentBy[t] <= perTask
    /\ IsFiniteSet(Charges) /\ Cardinality(Charges) = spent

(* The retry budget: the invariant holds initially.                        *)
LEMMA BudgetStart == BudgetInit => BudgetInv
<1> SUFFICES ASSUME BudgetInit PROVE BudgetInv
  OBVIOUS
<1>1. /\ total \in Nat /\ perTask \in Nat \cup {Uncapped} /\ spent = 0
      /\ spentBy = [t \in BudgetTasks |-> 0]
  BY RunTotalsAssumption, TaskCapsAssumption DEF BudgetInit
<1>2. Charges = {}
  BY <1>1 DEF Charges
<1>3. perTask # Uncapped => \A t \in BudgetTasks : spentBy[t] <= perTask
  BY <1>1 DEF Uncapped
<1>4. spent \in 0 .. total /\ spentBy \in [BudgetTasks -> Nat]
  BY <1>1
<1> QED
  BY <1>1, <1>2, <1>3, <1>4, FS_EmptySet DEF BudgetInv

(* What the two doors look at, in numbers: both let a retry through when   *)
(* there is room under both caps.                                          *)
LEMMA DoorsOpen ==
    ASSUME BudgetInv, NEW t \in BudgetTasks
    PROVE  LET room == spent < total /\ (perTask # Uncapped => spentBy[t] < perTask)
           IN  /\ CanSpend(t) <=> room
               /\ SpendVerdict(t) = "charged" <=> room
               /\ RemainingFor(t) >= 0
<1>1. /\ total \in Nat /\ spent \in Nat /\ spent <= total /\ spentBy[t] \in Nat
      /\ perTask # Uncapped => perTask \in Nat /\ spentBy[t] <= perTask
  BY DEF BudgetInv
<1> QED
  BY <1>1 DEF CanSpend, SpendVerdict, RemainingFor

(* A charge within the limits keeps it, and so does every step.            *)
LEMMA ChargeStep ==
    ASSUME BudgetInv, NEW t \in BudgetTasks, Charge(t),
           spent < total, perTask # Uncapped => spentBy[t] < perTask
    PROVE  BudgetInv'
<1> DEFINE new == <<t, spentBy[t] + 1>>
<1>1. /\ spentBy' = [spentBy EXCEPT ![t] = @ + 1] /\ spent' = spent + 1
      /\ total' = total /\ perTask' = perTask
  BY DEF Charge
<1>2. total \in Nat /\ spent \in Nat /\ spentBy \in [BudgetTasks -> Nat]
      /\ perTask \in Nat \cup {Uncapped}
  BY DEF BudgetInv
<1>3. \A u \in BudgetTasks : spentBy'[u] = IF u = t THEN spentBy[u] + 1 ELSE spentBy[u]
  BY <1>1, <1>2
<1>4. Charges' = Charges \cup {new} /\ new \notin Charges
  <2>1. \A u, k : <<u, k>> \in Charges <=>
            u \in BudgetTasks /\ k \in Nat \ {0} /\ k <= spentBy[u]
    BY DEF Charges
  <2>2. \A u, k : <<u, k>> \in Charges' <=>
            u \in BudgetTasks /\ k \in Nat \ {0} /\ k <= spentBy'[u]
    BY DEF Charges
  <2>3. \A u \in BudgetTasks, k \in Nat \ {0} :
            k <= spentBy'[u] <=> k <= spentBy[u] \/ (u = t /\ k = spentBy[u] + 1)
    BY <1>2, <1>3
  <2>4. \A c \in Charges : \E u, k : c = <<u, k>>
    BY DEF Charges
  <2>5. \A c \in Charges' : \E u, k : c = <<u, k>>
    BY DEF Charges
  <2>6. t \in BudgetTasks /\ spentBy[t] + 1 \in Nat \ {0} /\ ~(spentBy[t] + 1 <= spentBy[t])
    BY <1>2
  <2>7. new \notin Charges
    BY <2>1, <2>6
  <2>8. ASSUME NEW c PROVE c \in Charges' <=> c \in Charges \/ c = new
    <3>1. CASE \E u, k : c = <<u, k>>
      <4>1. PICK u, k : c = <<u, k>>
        BY <3>1
      <4>2. c = new <=> u = t /\ k = spentBy[t] + 1
        BY <4>1
      <4> QED
        BY <2>1, <2>2, <2>3, <2>6, <4>1, <4>2, Zenon
    <3>2. CASE ~ \E u, k : c = <<u, k>>
      BY <2>4, <2>5, <3>2
    <3> QED
      BY <3>1, <3>2
  <2> QED
    BY <2>7, <2>8
<1>5. IsFiniteSet(Charges') /\ Cardinality(Charges') = spent'
  <2>1. IsFiniteSet(Charges) /\ Cardinality(Charges) = spent
    BY DEF BudgetInv
  <2> HIDE DEF new
  <2> QED
    BY <1>1, <1>4, <2>1, FS_AddElement
<1>6. spent' \in 0 .. total' /\ spentBy' \in [BudgetTasks -> Nat]
  BY <1>1, <1>2
<1>7. perTask' # Uncapped => \A u \in BudgetTasks : spentBy'[u] <= perTask'
  BY <1>1, <1>2, <1>3 DEF BudgetInv
<1> QED
  BY <1>1, <1>2, <1>5, <1>6, <1>7 DEF BudgetInv

(* Every step keeps it.                                                    *)
LEMMA BudgetStep ==
    ASSUME BudgetInv, [BudgetNext]_budgetVars
    PROVE  BudgetInv'
<1>1. CASE UNCHANGED budgetVars
  BY <1>1 DEF budgetVars, BudgetInv, Charges
<1>2. ASSUME NEW t \in BudgetTasks, TrySpend(t) PROVE BudgetInv'
  BY <1>1, <1>2, DoorsOpen, ChargeStep DEF TrySpend
<1>3. ASSUME NEW t \in BudgetTasks, Spend(t) PROVE BudgetInv'
  BY <1>1, <1>3, DoorsOpen, ChargeStep DEF Spend
<1> QED
  BY <1>1, <1>2, <1>3 DEF BudgetNext

(* The charges of one task.                                                *)
LEMMA ChargesOfTask ==
    ASSUME BudgetInv, NEW t \in BudgetTasks
    PROVE  LET own == {c \in Charges : c[1] = t}
           IN  IsFiniteSet(own) /\ Cardinality(own) = spentBy[t]
<1> DEFINE own == {c \in Charges : c[1] = t}
           n == spentBy[t]
           f == [k \in 1 .. n |-> <<t, k>>]
<1>1. n \in Nat
  BY DEF BudgetInv
<1>2. \A k \in 1 .. n : <<t, k>> \in own
  BY <1>1 DEF Charges
<1>3. \A c \in own : \E k \in 1 .. n : c = <<t, k>>
  BY <1>1 DEF Charges
<1>4. f \in Surjection(1 .. n, own)
  <2> HIDE DEF own, n
  <2> QED
    BY <1>2, <1>3 DEF Surjection
<1>5. f \in Injection(1 .. n, own)
  <2>1. f \in [1 .. n -> own] /\ \A j, k \in 1 .. n : f[j] = f[k] => j = k
    <3> HIDE DEF own, n
    <3> QED
      BY <1>2
  <2> HIDE DEF f, own, n
  <2> QED
    BY <2>1 DEF Injection, IsInjective
<1>6. IsFiniteSet(1 .. n) /\ Cardinality(1 .. n) = n
  <2>1. IsFiniteSet(1 .. n) /\ Cardinality(1 .. n) = IF 1 > n THEN 0 ELSE n - 1 + 1
    BY <1>1, FS_Interval
  <2> QED
    BY <1>1, <2>1
<1> HIDE DEF f, own, n
<1>7. IsFiniteSet(own) /\ Cardinality(own) = n
  BY <1>4, <1>5, <1>6, FS_Surjection
<1> QED
  BY <1>7 DEF own, n

(* The ledger lists every charge once, under its task.                     *)
LEMMA LedgerAddsUp ==
    ASSUME BudgetInv
    PROVE  /\ Sum([i \in DOMAIN Ledger |-> Ledger[i].spent]) = spent
           /\ \A i \in DOMAIN Ledger :
                 perTask # Uncapped => Ledger[i].spent + Ledger[i].remaining = perTask
<1> DEFINE spenders == {u \in BudgetTasks : spentBy[u] > 0}
           entry == [t \in spenders |->
                        [task |-> t, spent |-> spentBy[t],
                         remaining |-> IF perTask = Uncapped THEN Uncapped
                                       ELSE perTask - spentBy[t]]]
           rows == {entry[t] : t \in spenders}
           before == {p \in rows \X rows :
                         \/ p[1].spent > p[2].spent
                         \/ p[1].spent = p[2].spent /\ p[1].task < p[2].task}
           line == Sorted(rows, before)
           own(t) == {c \in Charges : c[1] = t}
<1>1. Ledger = line
  <2>1. rows = {[task |-> t, spent |-> spentBy[t],
                    remaining |-> IF perTask = Uncapped THEN Uncapped
                                  ELSE perTask - spentBy[t]] : t \in spenders}
    OBVIOUS
  <2> QED
    BY <2>1, Zenon DEF Ledger
<1>2. \A t \in spenders :
         /\ t \in BudgetTasks /\ t \in Int /\ spentBy[t] \in Nat /\ spentBy[t] > 0
         /\ entry[t].task = t /\ entry[t].spent = spentBy[t]
         /\ perTask # Uncapped => entry[t].remaining = perTask - spentBy[t]
  BY BudgetTasksAssumption DEF BudgetInv
<1>3. \A c \in Charges : c[1] \in spenders
  BY DEF Charges, BudgetInv
<1>4. IsFiniteSet(spenders)
  <2> DEFINE g == [c \in Charges |-> c[1]]
  <2>1. ASSUME NEW t \in spenders
        PROVE  <<t, 1>> \in Charges
    <3> HIDE DEF spenders, entry
    <3>1. t \in BudgetTasks /\ 1 <= spentBy[t]
      BY <1>2
    <3> QED
      BY <3>1 DEF Charges
  <2>2. spenders = {g[c] : c \in Charges}
    <3>1. \A c \in Charges : g[c] = c[1]
      OBVIOUS
    <3>2. \A t \in spenders : g[<<t, 1>>] = t
      BY <2>1
    <3> HIDE DEF spenders, g
    <3> QED
      BY <1>3, <2>1, <3>1, <3>2
  <2>3. IsFiniteSet(Charges)
    BY DEF BudgetInv
  <2> HIDE DEF g
  <2>4. IsFiniteSet({g[c] : c \in Charges})
    BY <2>3, FiniteImage
  <2> QED
    BY <2>2, <2>4
<1> HIDE DEF spenders, entry
<1>5. IsFiniteSet(rows)
  BY <1>4, FiniteImage
<1>6. \A e, f \in rows : <<e, f>> \in before <=>
         e.spent > f.spent \/ (e.spent = f.spent /\ e.task < f.task)
  OBVIOUS
<1>7. \A e \in rows : /\ e.task \in spenders /\ e = entry[e.task]
                         /\ e.task \in Int /\ e.spent \in Nat /\ e.spent = spentBy[e.task]
  BY <1>2
<1>8. \A t \in spenders : entry[t] \in rows
  OBVIOUS
<1> HIDE DEF rows, before
<1>9. \A e, f \in rows : e.task = f.task => e = f
  BY <1>7, Zenon
<1>10. Orders(before, rows)
  BY <1>6, <1>7, <1>9 DEF Orders
<1>11. IsListing(line, rows, before)
  BY <1>5, <1>10, SortedIsSorted
<1> HIDE DEF line
<1>12. /\ Len(line) \in Nat /\ DOMAIN line = 1 .. Len(line)
       /\ \A k \in 1 .. Len(line) : line[k] \in rows
       /\ \A j, k \in 1 .. Len(line) : j # k => line[j] # line[k]
  BY <1>10, <1>11, SortedDiffers
<1>13. \A e \in rows : \E k \in 1 .. Len(line) : e = line[k]
  <2>1. rows = {line[k] : k \in 1 .. Len(line)}
    BY <1>11 DEF IsListing
  <2> QED
    BY <2>1
<1> DEFINE sums == [k \in DOMAIN line |-> line[k].spent]
           chunk == [k \in 1 .. Len(line) |-> own(line[k].task)]
<1>14. \A t \in spenders : IsFiniteSet(own(t)) /\ Cardinality(own(t)) = spentBy[t]
  BY <1>2, ChargesOfTask
<1>15. /\ sums \in Seq(Nat) /\ Len(sums) = Len(line)
       /\ \A k \in 1 .. Len(line) : sums[k] = line[k].spent
  <2>1. \A k \in 1 .. Len(line) : line[k].spent \in Nat
    BY <1>7, <1>12
  <2>2. sums = [k \in 1 .. Len(line) |-> line[k].spent]
    BY <1>12
  <2> QED
    BY <1>12, <2>1, <2>2
<1>16. /\ \A t : own(t) \subseteq Charges
       /\ \A t, u : t # u => own(t) \cap own(u) = {}
       /\ \A c \in Charges : c \in own(c[1])
  OBVIOUS
<1> HIDE DEF own
<1>17. \A k \in 1 .. Len(sums) : IsFiniteSet(chunk[k]) /\ Cardinality(chunk[k]) = sums[k]
  <2> TAKE k \in 1 .. Len(sums)
  <2>1. /\ k \in 1 .. Len(line) /\ line[k] \in rows /\ chunk[k] = own(line[k].task)
        /\ sums[k] = line[k].spent
    BY <1>12, <1>15
  <2>2. line[k].task \in spenders /\ line[k].spent = spentBy[line[k].task]
    BY <1>7, <2>1
  <2> QED
    BY <1>14, <2>1, <2>2
<1>18. \A j, k \in 1 .. Len(sums) : j # k => chunk[j] \cap chunk[k] = {}
  <2> TAKE j, k \in 1 .. Len(sums)
  <2> HAVE j # k
  <2>1. line[j].task # line[k].task
    BY <1>9, <1>12, <1>15
  <2>2. chunk[j] = own(line[j].task) /\ chunk[k] = own(line[k].task)
    BY <1>15
  <2> QED
    BY <1>16, <2>1, <2>2
<1>19. AllParts(chunk, Len(sums)) = Charges
  <2>1. \A k \in 1 .. Len(sums) : chunk[k] \subseteq Charges
    BY <1>15, <1>16
  <2>2. ASSUME NEW c \in Charges
        PROVE  \E k \in 1 .. Len(sums) : c \in chunk[k]
    <3>1. c[1] \in spenders /\ entry[c[1]] \in rows /\ entry[c[1]].task = c[1]
      BY <1>2, <1>3, <1>8
    <3>2. PICK k \in 1 .. Len(line) : entry[c[1]] = line[k]
      BY <1>13, <3>1
    <3> QED
      BY <1>15, <1>16, <3>1, <3>2
  <2> QED
    BY <2>1, <2>2 DEF AllParts
<1> HIDE DEF sums, chunk
<1>20. Sum(sums) = Cardinality(AllParts(chunk, Len(sums)))
  <2>1. CountsParts(sums, chunk)
    BY <1>17, <1>18 DEF CountsParts
  <2> QED
    BY <1>15, <2>1, SumOfParts
<1>21. Sum(sums) = spent
  BY <1>19, <1>20 DEF BudgetInv
<1>22. ASSUME NEW k \in DOMAIN line, perTask # Uncapped
       PROVE  line[k].spent + line[k].remaining = perTask
  <2>1. line[k] \in rows
    BY <1>12
  <2>2. /\ line[k].task \in spenders /\ line[k] = entry[line[k].task]
        /\ line[k].spent = spentBy[line[k].task] /\ line[k].spent \in Nat
    BY <1>7, <2>1
  <2>3. line[k].remaining = perTask - line[k].spent
    BY <1>2, <1>22, <2>2, Zenon
  <2>4. perTask \in Nat
    BY <1>22 DEF BudgetInv
  <2> QED
    BY <2>2, <2>3, <2>4
<1> QED
  BY <1>1, <1>21, <1>22 DEF sums

(* It implies the property.                                                *)
LEMMA BudgetIsKept == BudgetInv => BudgetKept
<1> SUFFICES ASSUME BudgetInv PROVE BudgetKept
  OBVIOUS
<1>1. CapsKept
  BY DEF CapsKept, BudgetInv
<1>2. DoorsAgree
  BY DoorsOpen, Zenon DEF DoorsAgree
<1> QED
  BY <1>1, <1>2, LedgerAddsUp, Zenon DEF BudgetKept

-----------------------------------------------------------------------------
(* Retries: the schedule, and how far an execute has got in it.            *)

(* The fields of a policy.                                                 *)
LEMMA PolicyFields ==
    ASSUME NEW p \in PolicySet
    PROVE  /\ p.max \in Nat \ {0} /\ p.base \in Nat /\ p.factor \in Nat \ {0}
           /\ p.ceiling \in (Nat \ {0}) \cup {NoCeiling}
BY DEF PolicySet

(* Capping twice is capping once, and never swaps two delays.              *)
LEMMA CappedKeeps ==
    ASSUME NEW c \in (Nat \ {0}) \cup {NoCeiling}, NEW d \in Nat
    PROVE  /\ Capped(d, c) \in Nat
           /\ Capped(Capped(d, c), c) = Capped(d, c)
           /\ Capped(0, c) = 0
           /\ c # NoCeiling => Capped(d, c) <= c
           /\ \A e \in Nat : d <= e => Capped(d, c) <= Capped(e, c)
BY DEF Capped, NoCeiling

(* A delay is a number that no ceiling changes; it never falls, and        *)
(* exponential_backoff counts the same ones from 1 on.                     *)
LEMMA DelaysGrow ==
    ASSUME NEW p \in PolicySet, NEW n \in Nat \ {0}
    PROVE  /\ DelayBefore(p, n) \in Nat
           /\ DelayBefore(p, 1) = 0
           /\ BackoffDelay(p, n) = DelayBefore(p, n + 1)
           /\ DelayBefore(p, n) <= DelayBefore(p, n + 1)
           /\ Capped(DelayBefore(p, n), p.ceiling) = DelayBefore(p, n)
<1> DEFINE Raw(k) == p.base * Power(p.factor, k)
<1>1. /\ p.base \in Nat /\ p.factor \in Nat \ {0}
      /\ p.ceiling \in (Nat \ {0}) \cup {NoCeiling}
  BY PolicyFields
<1>2. ASSUME NEW k \in Nat
      PROVE  Raw(k) \in Nat /\ Raw(k) <= Raw(k + 1)
  <2> DEFINE x == Power(p.factor, k)
             y == Power(p.factor, k + 1)
  <2>1. x \in Nat /\ y \in Nat /\ x <= y
    <3>1. k + 1 \in Nat
      OBVIOUS
    <3> QED
      BY <1>1, <3>1, PowerSteps
  <2> HIDE DEF x, y
  <2>2. ASSUME NEW b \in Nat
        PROVE  b * x \in Nat /\ b * x <= b * y
    <3>1. b * (y - x) >= 0 /\ b * (y - x) = b * y - b * x /\ b * x \in Nat /\ b * y \in Nat
      BY <2>1
    <3> QED
      BY <3>1
  <2> QED
    BY <1>1, <2>2 DEF x, y
<1> HIDE DEF Raw
<1>3. n - 1 \in Nat /\ (n + 1) - 2 = n - 1 /\ n + 1 # 1 /\ n + 1 \in Nat
      /\ (n # 1 => n - 2 \in Nat /\ (n - 2) + 1 = n - 1)
  OBVIOUS
<1>4. DelayBefore(p, 1) = 0
  BY DEF DelayBefore
<1>5. DelayBefore(p, n + 1) = Capped(Raw(n - 1), p.ceiling)
  BY <1>3 DEF DelayBefore, Raw
<1>6. BackoffDelay(p, n) = Capped(Raw(n - 1), p.ceiling)
  BY DEF BackoffDelay, Raw
<1>7. DelayBefore(p, n + 1) \in Nat
  <2>1. Raw(n - 1) \in Nat
    BY <1>2, <1>3
  <2>2. Capped(Raw(n - 1), p.ceiling) \in Nat
    BY <1>1, <2>1, CappedKeeps
  <2> QED
    BY <1>5, <2>2
<1>8. CASE n = 1
  <2>1. Capped(0, p.ceiling) = 0
    BY <1>1, CappedKeeps
  <2>2. DelayBefore(p, n) = 0 /\ 0 <= DelayBefore(p, n + 1)
    BY <1>4, <1>7, <1>8
  <2> QED
    BY <1>4, <1>5, <1>6, <2>1, <2>2
<1>9. CASE n # 1
  <2>1. DelayBefore(p, n) = Capped(Raw(n - 2), p.ceiling)
    BY <1>9 DEF DelayBefore, Raw
  <2>2. Raw(n - 2) \in Nat /\ Raw(n - 1) \in Nat /\ Raw(n - 2) <= Raw(n - 1)
    BY <1>2, <1>3, <1>9
  <2>3. /\ Capped(Raw(n - 2), p.ceiling) \in Nat
        /\ Capped(Raw(n - 2), p.ceiling) <= Capped(Raw(n - 1), p.ceiling)
        /\ Capped(Capped(Raw(n - 2), p.ceiling), p.ceiling) = Capped(Raw(n - 2), p.ceiling)
    BY <1>1, <2>2, CappedKeeps
  <2> QED
    BY <1>4, <1>5, <1>6, <2>1, <2>3
<1> QED
  BY <1>8, <1>9

(* The schedule lists the delays before each attempt.                      *)
LEMMA ScheduleIs ==
    ASSUME NEW p \in PolicySet
    PROVE  /\ Schedule(p) \in Seq(Int) /\ Len(Schedule(p)) = p.max
           /\ \A n \in 1 .. p.max : Schedule(p)[n] = DelayBefore(p, n)
           /\ SubSeq(Schedule(p), 1, p.max) = Schedule(p)
<1>1. p.max \in Nat
  BY PolicyFields
<1>2. \A n \in 1 .. p.max : DelayBefore(p, n) \in Int
  <2>1. \A n \in 1 .. p.max : n \in Nat \ {0}
    BY <1>1
  <2> QED
    BY <2>1, DelaysGrow
<1>3. Schedule(p) = [n \in 1 .. p.max |-> DelayBefore(p, n)]
  BY DEF Schedule
<1>4. Schedule(p) \in Seq(Int) /\ Len(Schedule(p)) = p.max
      /\ \A n \in 1 .. p.max : Schedule(p)[n] = DelayBefore(p, n)
  BY <1>1, <1>2, <1>3
<1>5. ASSUME NEW s \in Seq(Int)
      PROVE  SubSeq(s, 1, Len(s)) = s
  OBVIOUS
<1> QED
  BY <1>4, <1>5

(* The delays up to the n-th are one delay more than those before.         *)
LEMMA SleepsAdd ==
    ASSUME NEW p \in PolicySet, NEW n \in 1 .. p.max
    PROVE  /\ Sum(SubSeq(Schedule(p), 1, 0)) = 0
           /\ SubSeq(Schedule(p), 1, n) = Append(SubSeq(Schedule(p), 1, n - 1), DelayBefore(p, n))
           /\ Sum(SubSeq(Schedule(p), 1, n)) = Sum(SubSeq(Schedule(p), 1, n - 1)) + DelayBefore(p, n)
           /\ SubSeq(Schedule(p), 1, n) \in Seq(Int)
<1> DEFINE s == Schedule(p)
           short == SubSeq(s, 1, n - 1)
           d == DelayBefore(p, n)
<1>1. s \in Seq(Int) /\ Len(s) = p.max /\ s[n] = d /\ p.max \in Nat
  BY ScheduleIs, PolicyFields
<1>2. d \in Int
  BY <1>1, DelaysGrow
<1> HIDE DEF s, d
<1>3. SubSeq(s, 1, 0) = << >>
  BY <1>1
<1>4. /\ short \in Seq(Int) /\ SubSeq(s, 1, n) \in Seq(Int)
      /\ SubSeq(s, 1, n) = Append(short, s[n])
  BY <1>1
<1> HIDE DEF short
<1>5. Sum(Append(short, d)) = Sum(short) + d
  BY <1>2, <1>4, SumAppend
<1> QED
  BY <1>1, <1>3, <1>4, <1>5, SumTyped DEF s, d, short

(* The two modules add up the same delays.                                 *)
LEMMA BackoffSums ==
    ASSUME NEW p \in PolicySet, NEW l \in Nat, l + 1 <= p.max
    PROVE  BackoffTotal(p, l) = Sum(SubSeq(Schedule(p), 1, l + 1))
<1> DEFINE Right(n) == /\ BackoffSchedule(p, n) \in Seq(Int)
                       /\ Sum(BackoffSchedule(p, n)) = Sum(SubSeq(Schedule(p), 1, n + 1))
           T == {n \in Nat : n + 1 <= p.max => Right(n)}
<1>0. p.max \in Nat \ {0}
  BY PolicyFields
<1>1. 0 \in T
  <2>1. BackoffSchedule(p, 0) = << >>
    BY DEF BackoffSchedule
  <2>2. 1 \in 1 .. p.max
    BY <1>0
  <2>3. Sum(SubSeq(Schedule(p), 1, 1)) = Sum(SubSeq(Schedule(p), 1, 1 - 1)) + DelayBefore(p, 1)
        /\ Sum(SubSeq(Schedule(p), 1, 0)) = 0
    BY <2>2, SleepsAdd
  <2>4. DelayBefore(p, 1) = 0
    BY DEF DelayBefore
  <2>5. Sum(SubSeq(Schedule(p), 1, 0 + 1)) = 0
    BY <2>3, <2>4
  <2>6. BackoffSchedule(p, 0) \in Seq(Int) /\ Sum(BackoffSchedule(p, 0)) = 0
    <3>1. << >> \in Seq(Int) /\ Sum(<< >>) = 0
      BY SumTyped
    <3> QED
      BY <2>1, <3>1, Zenon
  <2> QED
    BY <2>5, <2>6
<1>2. ASSUME NEW n \in T
      PROVE  n + 1 \in T
  <2>1. n \in Nat /\ n + 1 \in Nat \ {0}
    OBVIOUS
  <2>2. ASSUME (n + 1) + 1 <= p.max
        PROVE  Right(n + 1)
    <3> DEFINE old == BackoffSchedule(p, n)
               d == DelayBefore(p, (n + 1) + 1)
    <3>1. Right(n)
      BY <1>0, <1>2, <2>1, <2>2
    <3>2. d \in Int /\ BackoffDelay(p, n + 1) = d
      <4>1. \A k \in Nat \ {0} : DelayBefore(p, k) \in Nat /\ BackoffDelay(p, k) = DelayBefore(p, k + 1)
        BY DelaysGrow
      <4>2. (n + 1) + 1 \in Nat \ {0}
        BY <2>1
      <4>3. d \in Nat
        BY <4>1, <4>2
      <4>4. BackoffDelay(p, n + 1) = d
        BY <2>1, <4>1
      <4> HIDE DEF d
      <4> QED
        BY <4>3, <4>4
    <3>3. BackoffSchedule(p, n + 1) = Append(old, d)
      <4> DEFINE new == BackoffSchedule(p, n + 1)
                 t == Append(old, d)
      <4>1. /\ \A k \in 1 .. n : BackoffDelay(p, k) \in Int
            /\ \A k \in 1 .. n + 1 : BackoffDelay(p, k) \in Int
        <5>1. \A k \in Nat \ {0} : BackoffDelay(p, k) \in Int
          <6>1. \A k \in Nat \ {0} : DelayBefore(p, k) \in Nat /\ BackoffDelay(p, k) = DelayBefore(p, k + 1)
            BY DelaysGrow
          <6>2. \A k \in Nat \ {0} : k + 1 \in Nat \ {0}
            OBVIOUS
          <6> QED
            BY <6>1, <6>2
        <5> QED
          BY <2>1, <5>1
      <4>2. /\ old \in Seq(Int) /\ Len(old) = n
            /\ \A k \in 1 .. n : old[k] = BackoffDelay(p, k)
        BY <2>1, <4>1 DEF BackoffSchedule
      <4>3. /\ new \in Seq(Int) /\ Len(new) = n + 1
            /\ \A k \in 1 .. n + 1 : new[k] = BackoffDelay(p, k)
        BY <2>1, <4>1 DEF BackoffSchedule
      <4> HIDE DEF old, d, new
      <4>4. t \in Seq(Int) /\ Len(t) = n + 1 /\ t[n + 1] = d
            /\ \A k \in 1 .. n : t[k] = old[k]
        BY <2>1, <3>2, <4>2
      <4> HIDE DEF t
      <4>5. \A k \in 1 .. n + 1 : k \in 1 .. n \/ k = n + 1
        BY <2>1
      <4>6. \A k \in 1 .. n + 1 : t[k] = new[k]
        BY <2>1, <3>2, <4>2, <4>3, <4>4, <4>5
      <4>7. t = new
        BY <4>3, <4>4, <4>6, SeqEqual
      <4> QED
        BY <4>7 DEF new, t
    <3>4. Sum(Append(old, d)) = Sum(old) + d
      BY <3>1, <3>2, SumAppend
    <3>5. Sum(SubSeq(Schedule(p), 1, (n + 1) + 1)) = Sum(SubSeq(Schedule(p), 1, n + 1)) + d
      <4>1. (n + 1) + 1 \in 1 .. p.max /\ ((n + 1) + 1) - 1 = n + 1
        BY <1>0, <2>1, <2>2
      <4> QED
        BY <4>1, SleepsAdd
    <3>6. Append(old, d) \in Seq(Int)
      BY <3>1, <3>2
    <3> QED
      BY <3>1, <3>3, <3>4, <3>5, <3>6
  <2> HIDE DEF Right
  <2> QED
    BY <2>1, <2>2
<1> HIDE DEF Right
<1>3. T = Nat
  <2>1. T \subseteq Nat
    OBVIOUS
  <2> HIDE DEF T
  <2> QED
    BY <1>1, <1>2, <2>1, NatSetInduction
<1>4. Right(l)
  BY <1>3
<1> QED
  BY <1>4 DEF Right, BackoffTotal

(* Jitter spreads a delay within the bounds promised.                      *)
LEMMA JitterSpreads ==
    ASSUME NEW d \in Nat, NEW e \in 0 .. 8, NEW c \in (Nat \ {0}) \cup {NoCeiling},
           NEW floor \in Nat, c # NoCeiling => floor <= c
    PROVE  /\ FullJitter(d, e) \in 0 .. 16 * d
           /\ EqualJitter(d, e) \in 8 * d .. 16 * d
           /\ FullJitter(d, e) <= EqualJitter(d, e)
           /\ LET jitter == ClampedJitter(d, e, floor, c)
              IN  /\ jitter >= 16 * floor
                  /\ c # NoCeiling => jitter <= 16 * c
                  /\ d >= floor => jitter <= 16 * d
<1> DEFINE j == FullJitter(d, e)
<1>1. d * e \in 0 .. 8 * d
  <2>1. d * 0 = 0 /\ d * 1 = d /\ d * 2 = 2 * d /\ d * 3 = 3 * d /\ d * 4 = 4 * d
        /\ d * 5 = 5 * d /\ d * 6 = 6 * d /\ d * 7 = 7 * d /\ d * 8 = 8 * d
    OBVIOUS
  <2>2. e \in {0, 1, 2, 3, 4, 5, 6, 7, 8}
    OBVIOUS
  <2> QED
    BY <2>1, <2>2
<1>2. j = 2 * (d * e) /\ EqualJitter(d, e) = 8 * d + d * e
  BY DEF FullJitter, EqualJitter
<1>3. j \in 0 .. 16 * d /\ EqualJitter(d, e) \in 8 * d .. 16 * d /\ j <= EqualJitter(d, e)
  BY <1>1, <1>2
<1> HIDE DEF j
<1>4. CASE c = NoCeiling
  <2>1. ClampedJitter(d, e, floor, c) = IF j < 16 * floor THEN 16 * floor ELSE j
    BY <1>4 DEF ClampedJitter, Capped, NoCeiling, j
  <2> QED
    BY <1>3, <1>4, <2>1 DEF j
<1>5. CASE c # NoCeiling
  <2> DEFINE k == IF 16 * c < j THEN 16 * c ELSE j
  <2>1. 16 * c # NoCeiling /\ c \in Nat
    BY <1>5 DEF NoCeiling
  <2>2. ClampedJitter(d, e, floor, c) = IF k < 16 * floor THEN 16 * floor ELSE k
    BY <1>5, <2>1 DEF ClampedJitter, Capped, j
  <2>3. k \in Nat /\ k <= 16 * c /\ k <= j
    BY <1>3, <2>1
  <2> HIDE DEF k
  <2>4. 16 * floor <= 16 * c
    BY <1>5, <2>1
  <2> QED
    BY <1>3, <1>5, <2>1, <2>2, <2>3, <2>4 DEF j
<1> QED
  BY <1>4, <1>5

(* A set of numbers from 2 on that has no gap is told by how many it has.  *)
LEMMA NoGap ==
    ASSUME NEW m \in Nat, NEW S, S \subseteq 2 .. m,
           \A n \in S : n > 2 => n - 1 \in S
    PROVE  Cardinality(S) \in Nat /\ S = 2 .. Cardinality(S) + 1
<1> DEFINE Out == {k \in Nat : k + 2 \notin S}
<1>1. m \in Out
  OBVIOUS
<1>2. PICK k \in Out : \A i \in Out : k <= i
  <2>1. Out \subseteq Nat /\ Out # {}
    BY <1>1
  <2> HIDE DEF Out
  <2> QED
    BY <2>1, LeastNat
<1>3. k \in Nat /\ k + 2 \notin S /\ \A i \in Nat : i < k => i + 2 \in S
  BY <1>2
<1> DEFINE T == {d \in Nat : (k + d) + 2 \notin S}
<1>4. 0 \in T
  BY <1>3
<1>5. ASSUME NEW d \in T
      PROVE  d + 1 \in T
  <2>1. d \in Nat /\ (k + d) + 2 \notin S /\ ((k + (d + 1)) + 2) - 1 = (k + d) + 2
        /\ (k + (d + 1)) + 2 > 2
    BY <1>3
  <2> QED
    BY <2>1
<1>6. T = Nat
  <2>1. T \subseteq Nat
    OBVIOUS
  <2> HIDE DEF T
  <2> QED
    BY <1>4, <1>5, <2>1, NatSetInduction
<1>7. S = 2 .. k + 1
  <2>1. ASSUME NEW n \in S
        PROVE  n \in 2 .. k + 1
    <3>1. n \in 2 .. m
      OBVIOUS
    <3>2. n <= k + 1
      <4> SUFFICES ASSUME n > k + 1 PROVE FALSE
        BY <1>3, <3>1
      <4> DEFINE d == n - (k + 2)
      <4>1. d \in Nat /\ (k + d) + 2 = n
        BY <1>3, <3>1
      <4> HIDE DEF d
      <4> QED
        BY <1>6, <4>1
    <3> QED
      BY <1>3, <3>1, <3>2
  <2>2. ASSUME NEW n \in 2 .. k + 1
        PROVE  n \in S
    <3>1. n - 2 \in Nat /\ n - 2 < k /\ (n - 2) + 2 = n
      BY <1>3
    <3> QED
      BY <1>3, <3>1
  <2> QED
    BY <2>1, <2>2
<1>8. Cardinality(2 .. k + 1) = k
  <2>1. 2 \in Int /\ k + 1 \in Int
    BY <1>3
  <2>2. Cardinality(2 .. k + 1) = IF 2 > k + 1 THEN 0 ELSE (k + 1) - 2 + 1
    BY <2>1, FS_Interval
  <2> QED
    BY <1>3, <2>2
<1> QED
  BY <1>3, <1>7, <1>8

(* The two schedules agree, for every policy.                              *)
LEMMA SchedulesDoAgree ==
    ASSUME NEW p \in PolicySet
    PROVE  SchedulesAgree(p)
<1> DEFINE schedule == Schedule(p)
           held == {n \in 2 .. p.max : ~Overflows(p, n)}
           last == Cardinality(held)
           floors == 0 .. IF p.ceiling = NoCeiling THEN 2 ELSE p.ceiling
<1>1. /\ p.max \in Nat \ {0} /\ p.max \in Nat /\ p.factor \in Nat \ {0}
      /\ p.ceiling \in (Nat \ {0}) \cup {NoCeiling}
  BY PolicyFields
<1>2. last \in Nat /\ held = 2 .. last + 1
  <2>1. held \subseteq 2 .. p.max
    OBVIOUS
  <2>2. ASSUME NEW n \in held, n > 2
        PROVE  n - 1 \in held
    <3>1. n \in 2 .. p.max /\ ~(Power(p.factor, n - 2) > LargestPower)
      BY DEF Overflows
    <3>2. n - 3 \in Nat /\ (n - 3) + 1 = n - 2 /\ (n - 1) - 2 = n - 3 /\ n - 1 \in 2 .. p.max
          /\ n - 2 \in Nat
      BY <1>1, <2>2, <3>1
    <3>3. Power(p.factor, n - 3) <= Power(p.factor, n - 2)
      BY <1>1, <3>2, PowerSteps
    <3>4. Power(p.factor, n - 3) \in Nat /\ Power(p.factor, n - 2) \in Nat
      BY <1>1, <3>2, PowerSteps
    <3>5. ~(Power(p.factor, n - 3) > LargestPower)
      BY <3>1, <3>3, <3>4, LargestAssumption
    <3>6. ~Overflows(p, n - 1)
      BY <3>2, <3>5 DEF Overflows
    <3> QED
      BY <3>2, <3>6
  <2> HIDE DEF held
  <2>3. \A n \in held : n > 2 => n - 1 \in held
    BY <2>2
  <2> QED
    BY <1>1, <2>1, <2>3, NoGap
<1>3. last + 1 <= p.max
  <2>1. CASE last = 0
    BY <1>1, <2>1
  <2>2. CASE last # 0
    <3>1. last + 1 \in held
      <4> HIDE DEF held, last
      <4> QED
        BY <1>2, <2>2
    <3>2. held \subseteq 2 .. p.max
      OBVIOUS
    <3> HIDE DEF held, last
    <3>3. last + 1 \in 2 .. p.max
      BY <3>1, <3>2, Zenon
    <3> QED
      BY <1>1, <1>2, <3>3
  <2> QED
    BY <2>1, <2>2
<1> HIDE DEF last
<1>4. BackoffTotal(p, last) = Sum(SubSeq(schedule, 1, last + 1))
  BY <1>2, <1>3, BackoffSums
<1>5. ASSUME NEW n \in held
      PROVE  LET delay == schedule[n]
             IN  /\ BackoffSchedule(p, last)[n - 1] = delay
                 /\ schedule[n - 1] <= delay
                 /\ Capped(delay, p.ceiling) = delay
                 /\ \A e \in 0 .. 8 :
                        /\ FullJitter(delay, e) \in 0 .. 16 * delay
                        /\ EqualJitter(delay, e) \in 8 * delay .. 16 * delay
                        /\ FullJitter(delay, e) <= EqualJitter(delay, e)
                        /\ \A floor \in floors :
                              LET jitter == ClampedJitter(delay, e, floor, p.ceiling)
                              IN  /\ jitter >= 16 * floor
                                  /\ p.ceiling # NoCeiling => jitter <= 16 * p.ceiling
                                  /\ delay >= floor => jitter <= 16 * delay
  <2> DEFINE d == schedule[n]
  <2>1. n \in 2 .. p.max /\ n \in 2 .. last + 1
    <3>1. n \in 2 .. p.max
      OBVIOUS
    <3>2. n \in 2 .. last + 1
      BY <1>2
    <3> QED
      BY <3>1, <3>2
  <2> HIDE DEF held
  <2>2. /\ n - 1 \in Nat \ {0} /\ n \in Nat \ {0} /\ (n - 1) + 1 = n
        /\ n \in 1 .. p.max /\ n - 1 \in 1 .. p.max /\ n - 1 \in 1 .. last
    BY <1>1, <1>2, <2>1
  <2>3. d = DelayBefore(p, n) /\ schedule[n - 1] = DelayBefore(p, n - 1)
    BY <2>2, ScheduleIs
  <2>4. /\ DelayBefore(p, n) \in Nat
        /\ Capped(DelayBefore(p, n), p.ceiling) = DelayBefore(p, n)
    BY <2>2, DelaysGrow
  <2>5. /\ BackoffDelay(p, n - 1) = DelayBefore(p, n)
        /\ DelayBefore(p, n - 1) <= DelayBefore(p, n)
    <3>1. \A k \in Nat \ {0} : /\ BackoffDelay(p, k) = DelayBefore(p, k + 1)
                               /\ DelayBefore(p, k) <= DelayBefore(p, k + 1)
      BY DelaysGrow
    <3>2. /\ BackoffDelay(p, n - 1) = DelayBefore(p, (n - 1) + 1)
          /\ DelayBefore(p, n - 1) <= DelayBefore(p, (n - 1) + 1)
      BY <2>2, <3>1
    <3> QED
      BY <2>2, <3>2
  <2>6. BackoffSchedule(p, last)[n - 1] = BackoffDelay(p, n - 1)
    BY <2>2 DEF BackoffSchedule
  <2> HIDE DEF d, schedule
  <2>7. d \in Nat /\ Capped(d, p.ceiling) = d /\ BackoffSchedule(p, last)[n - 1] = d
        /\ schedule[n - 1] <= d
    BY <2>3, <2>4, <2>5, <2>6
  <2>8. ASSUME NEW e \in 0 .. 8, NEW floor \in Nat,
               p.ceiling # NoCeiling => floor <= p.ceiling
        PROVE  /\ FullJitter(d, e) \in 0 .. 16 * d
               /\ EqualJitter(d, e) \in 8 * d .. 16 * d
               /\ FullJitter(d, e) <= EqualJitter(d, e)
               /\ LET jitter == ClampedJitter(d, e, floor, p.ceiling)
                  IN  /\ jitter >= 16 * floor
                      /\ p.ceiling # NoCeiling => jitter <= 16 * p.ceiling
                      /\ d >= floor => jitter <= 16 * d
    <3> DEFINE c == p.ceiling
    <3>1. c \in (Nat \ {0}) \cup {NoCeiling} /\ (c # NoCeiling => floor <= c)
      BY <1>1, <2>8
    <3> HIDE DEF c
    <3>2. /\ FullJitter(d, e) \in 0 .. 16 * d
          /\ EqualJitter(d, e) \in 8 * d .. 16 * d
          /\ FullJitter(d, e) <= EqualJitter(d, e)
          /\ LET jitter == ClampedJitter(d, e, floor, c)
             IN  /\ jitter >= 16 * floor
                 /\ c # NoCeiling => jitter <= 16 * c
                 /\ d >= floor => jitter <= 16 * d
      BY <2>7, <3>1, JitterSpreads
    <3> QED
      BY <3>2 DEF c
  <2>9. \A floor \in floors : floor \in Nat /\ (p.ceiling # NoCeiling => floor <= p.ceiling)
    BY <1>1
  <2>10. ASSUME NEW e \in 0 .. 8
         PROVE  /\ FullJitter(d, e) \in 0 .. 16 * d
                /\ EqualJitter(d, e) \in 8 * d .. 16 * d
                /\ FullJitter(d, e) <= EqualJitter(d, e)
                /\ \A floor \in floors :
                      LET jitter == ClampedJitter(d, e, floor, p.ceiling)
                      IN  /\ jitter >= 16 * floor
                          /\ p.ceiling # NoCeiling => jitter <= 16 * p.ceiling
                          /\ d >= floor => jitter <= 16 * d
    <3>1. 0 \in Nat /\ (p.ceiling # NoCeiling => 0 <= p.ceiling)
      BY <1>1
    <3>2. /\ FullJitter(d, e) \in 0 .. 16 * d
          /\ EqualJitter(d, e) \in 8 * d .. 16 * d
          /\ FullJitter(d, e) <= EqualJitter(d, e)
      BY <2>8, <3>1
    <3> HIDE DEF floors
    <3> QED
      BY <2>8, <2>9, <3>2, Zenon
  <2> HIDE DEF floors
  <2> QED
    BY <2>7, <2>10, Zenon DEF d
<1> HIDE DEF held, schedule, floors
<1>6. \A n \in held :
             LET delay == schedule[n]
             IN  /\ BackoffSchedule(p, last)[n - 1] = delay
                 /\ schedule[n - 1] <= delay
                 /\ Capped(delay, p.ceiling) = delay
                 /\ \A e \in 0 .. 8 :
                        /\ FullJitter(delay, e) \in 0 .. 16 * delay
                        /\ EqualJitter(delay, e) \in 8 * delay .. 16 * delay
                        /\ FullJitter(delay, e) <= EqualJitter(delay, e)
                        /\ \A floor \in floors :
                              LET jitter == ClampedJitter(delay, e, floor, p.ceiling)
                              IN  /\ jitter >= 16 * floor
                                  /\ p.ceiling # NoCeiling => jitter <= 16 * p.ceiling
                                  /\ delay >= floor => jitter <= 16 * delay
  BY <1>5, Zenon
<1> QED
  BY <1>4, <1>6, Zenon DEF SchedulesAgree, schedule, held, floors, last

(* The sleeps w are the first n delays of p. *)
SleptFor(w, p, n) == Sum(w) = Sum(SubSeq(Schedule(p), 1, n))

Failure == [attempt : Nat, delay : Nat]

(* Beyond AttemptsAccounted: how an execute under way got here, and that   *)
(* it has no outcome yet.                                                  *)
AttemptInv ==
    /\ policy \in PolicySet /\ attempt \in Nat /\ calls \in Nat
    /\ waited \in Seq(Int) /\ failures \in Seq(Failure)
    /\ stage \in {"idle", "pausing", "calling"}
    /\ Len(failures) <= policy.max /\ calls <= policy.max
    /\ \A i \in 1 .. Len(failures) :
          failures[i] = [attempt |-> i, delay |-> DelayBefore(policy, i)]
    /\ stage # "idle" => /\ outcome = NoOutcome
                         /\ attempt = Len(failures) + 1 /\ attempt <= policy.max
    /\ stage = "pausing" => calls = Len(failures) /\ SleptFor(waited, policy, Len(failures))
    /\ stage = "calling" => /\ calls = Len(failures) + 1
                            /\ SleptFor(waited, policy, Len(failures) + 1)
    /\ outcome.kind = "returned" =>
          /\ outcome.attempts = calls /\ outcome.failures = failures
          /\ calls = Len(failures) + 1 /\ SleptFor(waited, policy, calls)
    /\ outcome.kind = "escaped" => calls = Len(failures) + 1 /\ SleptFor(waited, policy, calls)
    /\ outcome.kind = "exhausted" =>
          /\ calls = policy.max /\ Len(failures) = policy.max
          /\ outcome.attempts = policy.max /\ SleptFor(waited, policy, policy.max)
    /\ outcome.kind \in {"overflow", "interrupted"} =>
          /\ calls = Len(failures) /\ Len(failures) < policy.max
          /\ SleptFor(waited, policy, Len(failures))

(* Attempts: the invariant holds initially, every step keeps it, and it    *)
(* implies what is accounted for.                                          *)
LEMMA AttemptStart == AttemptInit => AttemptInv
<1> SUFFICES ASSUME AttemptInit PROVE AttemptInv
  OBVIOUS
<1>1. policy \in PolicySet /\ policy.max \in Nat
  BY PoliciesAssumption, PolicyFields DEF AttemptInit
<1>2. /\ attempt = 0 /\ calls = 0 /\ waited = << >> /\ failures = << >>
      /\ stage = "idle" /\ outcome.kind = "none"
  BY DEF AttemptInit, NoOutcome
<1>3. Len(failures) = 0 /\ waited \in Seq(Int) /\ failures \in Seq(Failure)
  BY <1>2
<1> QED
  BY <1>1, <1>2, <1>3 DEF AttemptInv

(* While it runs, an execute goes on to its next delay.                    *)
LEMMA PauseStep == AttemptInv /\ Pause => AttemptInv'
<1> SUFFICES ASSUME AttemptInv, Pause PROVE AttemptInv'
  OBVIOUS
<1> DEFINE n == Len(failures)
           d == DelayBefore(policy, attempt)
<1>1. /\ policy \in PolicySet /\ attempt = n + 1 /\ attempt <= policy.max /\ n \in Nat
      /\ calls = n /\ SleptFor(waited, policy, n) /\ waited \in Seq(Int)
      /\ outcome = NoOutcome
  BY DEF AttemptInv, Pause
<1>2. attempt \in 1 .. policy.max /\ attempt - 1 = n /\ attempt \in Nat \ {0} /\ policy.max \in Nat
  BY <1>1, PolicyFields
<1>3. d \in Nat
  BY <1>1, <1>2, DelaysGrow
<1>4. Sum(SubSeq(Schedule(policy), 1, attempt)) = Sum(SubSeq(Schedule(policy), 1, n)) + d
  BY <1>1, <1>2, SleepsAdd
<1>5. waited' = IF d > 0 THEN Append(waited, d) ELSE waited
  BY DEF Pause
<1> HIDE DEF d, n
<1>6. waited' \in Seq(Int) /\ Sum(waited') = Sum(waited) + d
  <2>1. CASE d > 0
    <3>1. d \in Int /\ Append(waited, d) \in Seq(Int)
      BY <1>1, <1>3
    <3>2. Sum(Append(waited, d)) = Sum(waited) + d
      BY <1>1, <3>1, SumAppend
    <3> QED
      BY <1>5, <2>1, <3>1, <3>2
  <2>2. CASE ~(d > 0)
    <3>1. d = 0 /\ waited' = waited
      BY <1>3, <1>5, <2>2
    <3>2. Sum(waited) \in Int
      BY <1>1, SumTyped
    <3> QED
      BY <1>1, <3>1, <3>2
  <2> QED
    BY <2>1, <2>2
<1>7. SleptFor(waited', policy, attempt)
  <2>1. Sum(waited) = Sum(SubSeq(Schedule(policy), 1, n))
    BY <1>1 DEF SleptFor
  <2> QED
    BY <1>4, <1>6, <2>1 DEF SleptFor
<1>8. /\ stage' = "calling" /\ calls' = calls + 1
      /\ UNCHANGED <<policy, attempt, failures, outcome>>
  BY DEF Pause
<1>9. outcome'.kind = "none"
  BY <1>1, <1>8 DEF NoOutcome
<1>10. /\ policy' \in PolicySet /\ attempt' \in Nat /\ calls' \in Nat
       /\ failures' \in Seq(Failure) /\ Len(failures') <= policy'.max
       /\ \A i \in 1 .. Len(failures') :
             failures'[i] = [attempt |-> i, delay |-> DelayBefore(policy', i)]
       /\ attempt' = Len(failures') + 1 /\ attempt' <= policy'.max
       /\ calls' = Len(failures') + 1 /\ calls' <= policy'.max
       /\ outcome' = NoOutcome
  BY <1>1, <1>2, <1>8 DEF AttemptInv, n
<1>11. SleptFor(waited', policy', Len(failures') + 1)
  BY <1>1, <1>7, <1>8 DEF n
<1> QED
  BY <1>6, <1>8, <1>9, <1>10, <1>11, Zenon DEF AttemptInv

(* The ways an execute ends. *)
LEMMA EndStep ==
    ASSUME AttemptInv, PauseRaises \/ FuncReturns \/ FuncEscapes
    PROVE  AttemptInv'
<1> DEFINE n == Len(failures)
<1>1. /\ policy \in PolicySet /\ attempt \in Nat /\ calls \in Nat /\ policy.max \in Nat
      /\ waited \in Seq(Int) /\ failures \in Seq(Failure) /\ n \in Nat
      /\ n <= policy.max /\ calls <= policy.max
      /\ \A i \in 1 .. n : failures[i] = [attempt |-> i, delay |-> DelayBefore(policy, i)]
  <2>1. /\ policy \in PolicySet /\ attempt \in Nat /\ calls \in Nat
        /\ waited \in Seq(Int) /\ failures \in Seq(Failure)
        /\ n <= policy.max /\ calls <= policy.max
        /\ \A i \in 1 .. n : failures[i] = [attempt |-> i, delay |-> DelayBefore(policy, i)]
    BY Zenon DEF AttemptInv
  <2>2. policy.max \in Nat
    BY <2>1, PolicyFields
  <2>3. n \in Nat
    BY <2>1
  <2> QED
    BY <2>1, <2>2, <2>3, Zenon
<1>2. /\ UNCHANGED <<policy, failures, calls, waited>> /\ stage' = "idle" /\ attempt' = 0
  BY DEF PauseRaises, FuncReturns, FuncEscapes, EndWith
<1>3. CASE PauseRaises
  <2>1. /\ stage = "pausing" /\ outcome'.kind \in {"overflow", "interrupted"}
    BY <1>3 DEF PauseRaises, EndWith
  <2>2. calls = n /\ attempt = n + 1 /\ attempt <= policy.max /\ SleptFor(waited, policy, n)
    BY <2>1 DEF AttemptInv
  <2>3. n < policy.max
    BY <1>1, <2>2
  <2> QED
    BY <1>1, <1>2, <2>1, <2>2, <2>3 DEF AttemptInv
<1>4. CASE FuncReturns
  <2>1. /\ stage = "calling"
        /\ outcome' = [kind |-> "returned", attempts |-> attempt, failures |-> failures]
    BY <1>4 DEF FuncReturns, EndWith
  <2>2. calls = n + 1 /\ attempt = n + 1 /\ SleptFor(waited, policy, n + 1)
    BY <2>1 DEF AttemptInv
  <2>3. /\ outcome'.kind = "returned" /\ outcome'.attempts = calls /\ outcome'.failures = failures
    BY <2>1, <2>2
  <2> QED
    BY <1>1, <1>2, <2>2, <2>3 DEF AttemptInv
<1>5. CASE FuncEscapes
  <2>1. stage = "calling" /\ outcome'.kind = "escaped"
    BY <1>5 DEF FuncEscapes, EndWith
  <2>2. calls = n + 1 /\ SleptFor(waited, policy, n + 1)
    BY <2>1 DEF AttemptInv
  <2> QED
    BY <1>1, <1>2, <2>1, <2>2 DEF AttemptInv
<1> QED
  BY <1>3, <1>4, <1>5

(* A failure is recorded, and the next attempt is due unless there is none *)
(* left.                                                                   *)
LEMMA FailStep == AttemptInv /\ FuncFails => AttemptInv'
<1> SUFFICES ASSUME AttemptInv, FuncFails PROVE AttemptInv'
  OBVIOUS
<1> DEFINE n == Len(failures)
           f == [attempt |-> attempt, delay |-> DelayBefore(policy, attempt)]
<1>1. /\ policy \in PolicySet /\ attempt = n + 1 /\ attempt <= policy.max /\ n \in Nat
      /\ calls = n + 1 /\ SleptFor(waited, policy, n + 1) /\ waited \in Seq(Int)
      /\ outcome = NoOutcome /\ failures \in Seq(Failure)
      /\ \A i \in 1 .. n : failures[i] = [attempt |-> i, delay |-> DelayBefore(policy, i)]
  BY DEF AttemptInv, FuncFails
<1>2. attempt \in Nat \ {0} /\ policy.max \in Nat
  BY <1>1, PolicyFields
<1>3. f \in Failure
  <2>1. DelayBefore(policy, attempt) \in Nat
    BY <1>1, <1>2, DelaysGrow
  <2> QED
    BY <1>2, <2>1 DEF Failure
<1>4. /\ failures' = Append(failures, f) /\ UNCHANGED <<policy, calls, waited>>
  BY DEF FuncFails
<1>5. f = [attempt |-> n + 1, delay |-> DelayBefore(policy, n + 1)]
  BY <1>1
<1> HIDE DEF f
<1>6. /\ failures' \in Seq(Failure) /\ Len(failures') = n + 1
      /\ failures'[n + 1] = f /\ \A i \in 1 .. n : failures'[i] = failures[i]
  BY <1>1, <1>3, <1>4
<1> HIDE DEF n
<1>7. \A i \in 1 .. n + 1 : i \in 1 .. n \/ i = n + 1
  BY <1>1
<1>8. \A i \in 1 .. n + 1 : failures'[i] = [attempt |-> i, delay |-> DelayBefore(policy, i)]
  BY <1>1, <1>5, <1>6, <1>7, Zenon
<1>9. CASE attempt < policy.max
  <2>1. attempt' = attempt + 1 /\ stage' = "pausing" /\ outcome' = outcome
    BY <1>9 DEF FuncFails
  <2>2. /\ outcome' = NoOutcome /\ outcome'.kind = "none"
    BY <1>1, <2>1 DEF NoOutcome
  <2>3. attempt' = Len(failures') + 1 /\ attempt' <= policy'.max /\ attempt' \in Nat
        /\ calls' = Len(failures') /\ calls' \in Nat /\ calls' <= policy'.max
        /\ Len(failures') <= policy'.max /\ policy' \in PolicySet /\ waited' \in Seq(Int)
    BY <1>1, <1>2, <1>4, <1>6, <1>9, <2>1
  <2>4. SleptFor(waited', policy', Len(failures'))
    BY <1>1, <1>4, <1>6
  <2>5. \A i \in 1 .. Len(failures') :
           failures'[i] = [attempt |-> i, delay |-> DelayBefore(policy', i)]
    BY <1>4, <1>6, <1>8
  <2> QED
    BY <1>6, <2>1, <2>2, <2>3, <2>4, <2>5, Zenon DEF AttemptInv
<1>10. CASE ~(attempt < policy.max)
  <2>1. attempt' = 0 /\ stage' = "idle" /\ outcome' = [kind |-> "exhausted", attempts |-> policy.max]
    BY <1>10 DEF FuncFails
  <2>2. /\ outcome'.kind = "exhausted" /\ outcome'.attempts = policy.max
    BY <2>1
  <2>3. n + 1 = policy.max
    BY <1>1, <1>2, <1>10
  <2>4. /\ calls' \in Nat /\ calls' = policy'.max /\ Len(failures') = policy'.max
        /\ attempt' \in Nat /\ policy' \in PolicySet /\ waited' \in Seq(Int)
        /\ Len(failures') <= policy'.max /\ calls' <= policy'.max
        /\ outcome'.attempts = policy'.max
    BY <1>1, <1>2, <1>4, <1>6, <2>1, <2>2, <2>3
  <2>5. SleptFor(waited', policy', policy'.max)
    BY <1>1, <1>4, <2>3
  <2>6. \A i \in 1 .. Len(failures') :
           failures'[i] = [attempt |-> i, delay |-> DelayBefore(policy', i)]
    BY <1>4, <1>6, <1>8
  <2> QED
    BY <1>6, <2>1, <2>2, <2>4, <2>5, <2>6, Zenon DEF AttemptInv
<1> QED
  BY <1>9, <1>10

(* Every step keeps it.                                                    *)
LEMMA AttemptStep ==
    ASSUME AttemptInv, [AttemptNext]_attemptVars
    PROVE  AttemptInv'
<1>1. ASSUME NEW p \in Policies, StartExecute(p)
      PROVE  AttemptInv'
  <2>1. /\ policy' = p /\ attempt' = 1 /\ stage' = "pausing" /\ failures' = << >>
        /\ outcome' = NoOutcome /\ calls' = 0 /\ waited' = << >>
    BY <1>1 DEF StartExecute
  <2>2. p \in PolicySet /\ p.max \in Nat \ {0}
    BY PoliciesAssumption, PolicyFields
  <2>3. 1 \in 1 .. p.max
    BY <2>2
  <2>4. SleptFor(<< >>, p, 0)
    <3>1. Sum(SubSeq(Schedule(p), 1, 0)) = 0
      BY <2>2, <2>3, SleepsAdd
    <3> QED
      BY <3>1, SumTyped DEF SleptFor
  <2>5. Len(failures') = 0 /\ failures' \in Seq(Failure) /\ waited' \in Seq(Int)
        /\ outcome'.kind = "none"
    BY <2>1 DEF NoOutcome
  <2> QED
    BY <2>1, <2>2, <2>4, <2>5 DEF AttemptInv
<1>2. CASE UNCHANGED attemptVars
  <2>1. UNCHANGED <<policy, attempt, stage, failures, outcome, calls, waited>>
    BY <1>2 DEF attemptVars
  <2> QED
    BY <2>1 DEF AttemptInv
<1> QED
  BY <1>1, <1>2, PauseStep, EndStep, FailStep DEF AttemptNext, ExecuteStep

(* It implies the property.                                                *)
LEMMA AttemptsAreAccounted == AttemptInv => AttemptsAccounted
<1> SUFFICES ASSUME AttemptInv PROVE AttemptsAccounted
  OBVIOUS
<1> DEFINE n == Len(failures)
<1>1. policy \in PolicySet /\ n \in Nat /\ policy.max \in Nat /\ n <= policy.max
  BY PolicyFields DEF AttemptInv
<1>2. SchedulesAgree(policy)
  BY <1>1, SchedulesDoAgree
<1>3. \A i \in 1 .. n : failures[i] = [attempt |-> i, delay |-> Schedule(policy)[i]]
  <2>1. \A i \in 1 .. n : i \in 1 .. policy.max
    BY <1>1
  <2>2. \A i \in 1 .. n : Schedule(policy)[i] = DelayBefore(policy, i)
    BY <1>1, <2>1, ScheduleIs
  <2>3. \A i \in 1 .. n : failures[i] = [attempt |-> i, delay |-> DelayBefore(policy, i)]
    BY DEF AttemptInv
  <2> QED
    BY <2>2, <2>3
<1>4. SleptFor(waited, policy, policy.max) => Sum(waited) = TotalDelay(policy)
  BY <1>1, ScheduleIs DEF SleptFor, TotalDelay
<1>5. stage # "idle" => attempt = n + 1
  BY DEF AttemptInv
<1> HIDE DEF n
<1> QED
  BY <1>1, <1>2, <1>3, <1>4, <1>5, Zenon DEF AttemptInv, AttemptsAccounted, SleptFor, n

-----------------------------------------------------------------------------
(* All parts together.  A behaviour steps one part at a time, and a part's *)
(* invariant is disturbed by no other: TimePasses alone touches what the   *)
(* others read, and then only `now`.                                       *)
LimitsInv ==
    /\ now \in Nat
    /\ TokenInv /\ SlotInv /\ PressureInv
    /\ CheckpointInv /\ MachineInv
    /\ BucketInv /\ CacheInv
    /\ LeaseInv /\ BudgetInv /\ AttemptInv

(* All parts together: the invariant holds initially.                      *)
LEMMA LimitsStart == Init => LimitsInv
<1> SUFFICES ASSUME Init
             PROVE  LimitsInv
  OBVIOUS
<1>1. now \in Nat
  BY LatestAssumption DEF Init, Readings
<1>2. TokenInv /\ SlotInv /\ PressureInv
  BY TokensStart, SlotsStart, PressureStart, Zenon DEF Init
<1>3. CheckpointInv /\ MachineInv
  BY CheckpointStart, MachineStart, Zenon DEF Init
<1>4. BucketInv /\ CacheInv
  BY <1>1, BucketStart, CacheStart, Zenon DEF Init
<1>5. LeaseInv /\ BudgetInv /\ AttemptInv
  BY LeaseStart, BudgetStart, AttemptStart, Zenon DEF Init
<1> QED
  BY <1>1, <1>2, <1>3, <1>4, <1>5, Zenon DEF LimitsInv

(* A step of the whole is, for each part, a step of it or a stutter. *)
LEMMA PartsStep ==
    ASSUME [Next]_limitVars
    PROVE  /\ [TokenNext]_tokenVars /\ [SlotNext]_slotVars /\ [PressureNext]_pressureVars
           /\ [CheckpointNext]_checkpointVars /\ [MachineNext]_machineVars
           /\ [BucketNext]_bucketVars /\ [CacheNext]_cacheVars
           /\ [LeaseNext]_leaseVars /\ [BudgetNext]_budgetVars /\ [AttemptNext]_attemptVars
           /\ now' = now \/ now' \in Readings
<1>1. CASE OnBudget
  BY <1>1, Zenon DEF OnBudget
<1>2. CASE OnTokens
  BY <1>2, Zenon DEF OnTokens
<1>3. CASE OnSlots
  BY <1>3, Zenon DEF OnSlots
<1>4. CASE OnPressure
  BY <1>4, Zenon DEF OnPressure
<1>5. CASE OnPolicy
  BY <1>5, Zenon DEF OnPolicy
<1>6. CASE OnCheckpoint
  BY <1>6, Zenon DEF OnCheckpoint
<1>7. CASE OnMachine
  BY <1>7, Zenon DEF OnMachine
<1>8. CASE OnBucket
  BY <1>8, Zenon DEF OnBucket
<1>9. CASE OnCache
  BY <1>9, Zenon DEF OnCache
<1>10. CASE OnLeases
  BY <1>10, Zenon DEF OnLeases
<1>11. CASE TimePasses
  BY <1>11 DEF TimePasses, ClockJumps
<1>12. CASE UNCHANGED limitVars
  BY <1>12 DEF limitVars
<1> QED
  BY <1>1, <1>2, <1>3, <1>4, <1>5, <1>6, <1>7, <1>8, <1>9, <1>10, <1>11, <1>12 DEF Next

(* A step of any part keeps the invariants of all.                         *)
LEMMA LimitsStep == LimitsInv /\ [Next]_limitVars => LimitsInv' /\ Band
<1> SUFFICES ASSUME LimitsInv, [Next]_limitVars
             PROVE  LimitsInv' /\ Band
  OBVIOUS
<1>1. now \in Nat /\ now' \in Nat
  BY PartsStep, LatestAssumption DEF LimitsInv, Readings
<1>2. TokenInv' /\ SlotInv'
  BY PartsStep, TokensStep, SlotsStep, Zenon DEF LimitsInv
<1>3. PressureInv' /\ Band
  BY PartsStep, PressureStep, Zenon DEF LimitsInv
<1>4. CheckpointInv' /\ MachineInv'
  BY PartsStep, CheckpointStep, MachineStep, Zenon DEF LimitsInv
<1>5. BucketInv' /\ CacheInv'
  BY <1>1, PartsStep, BucketStep, CacheStep, Zenon DEF LimitsInv
<1>6. LeaseInv' /\ BudgetInv' /\ AttemptInv'
  BY <1>1, PartsStep, LeaseStep, BudgetStep, AttemptStep, Zenon DEF LimitsInv
<1> QED
  BY <1>1, <1>2, <1>3, <1>4, <1>5, <1>6, Zenon DEF LimitsInv

(* The parts' invariants together are one of every behaviour of any part.  *)
THEOREM Invariance == Spec => []LimitsInv
BY LimitsStart, LimitsStep, PTL DEF Spec

(* What is promised of positions, from two parts.                          *)
LEMMA PositionsAreKept == CheckpointInv /\ MachineInv => PositionsKept
<1> SUFFICES ASSUME CheckpointInv, MachineInv
             PROVE  PositionsKept
  OBVIOUS
<1>1. ASSUME records # << >>, NEW s \in EngineStates PROVE ReadsBack(Position, s)
  <2>1. records \in Seq(PositionRecord) /\ Position = records[Len(records)].position
        /\ Position \in Nat
    BY <1>1, LatestIsLast DEF CheckpointInv
  <2>2. Len(records) \in 1 .. Len(records)
    BY <1>1, <2>1
  <2>3. Position \in Positions
    BY <2>1, <2>2 DEF CheckpointInv, LatestIsMaximum
  <2>4. s \in Nat \cup {None} /\ Digits(Position) \in Nat
    BY <2>3, EngineStatesAssumption, DigitsAssumption
  <2> QED
    BY <2>1, <2>4, TokensReadBack
<1> QED
  BY <1>1, Zenon DEF PositionsKept, CheckpointInv, MachineInv

(* What was granted of tokens and slots is always honoured, for every pool *)
(* with its reserve and every number of slots.                             *)
THEOREM ClaimsAreHonoured == Spec => []ClaimsHonoured
<1>1. LimitsInv => ClaimsHonoured
  BY TokensAreHonoured, SlotsAreHonoured, Zenon DEF LimitsInv, ClaimsHonoured
<1> QED
  BY <1>1, Invariance, PTL

(* Backpressure never flaps within its band, for every pair of marks.      *)
THEOREM BandIsRespected == Spec => BandRespected
<1>1. LimitsInv /\ [Next]_limitVars => [Band]_pressureVars
  BY LimitsStep, Zenon
<1> QED
  BY <1>1, Invariance, PTL DEF Spec, BandRespected, Band

(* A checkpoint is never lost to a late report, its token reads back, and  *)
(* the agent stays on its table, for every set of positions, every engine  *)
(* state and every table of moves.                                         *)
THEOREM PositionsStayKept == Spec => []PositionsKept
<1>1. LimitsInv => PositionsKept
  BY PositionsAreKept, Zenon DEF LimitsInv
<1> QED
  BY <1>1, Invariance, PTL

(* The bucket admits no more than its rate allows and tells exact waits,   *)
(* for every capacity, rate and behaviour of the clock.                    *)
THEOREM RateIsBounded == Spec => []RateBounded
<1>1. LimitsInv => RateBounded
  BY WaitIsExact, Zenon DEF LimitsInv
<1> QED
  BY <1>1, Invariance, PTL

(* A key is a duplicate for exactly its window, for every set of keys,     *)
(* every time to live and every behaviour of the clock.                    *)
THEOREM WindowIsKept == Spec => []DedupeWindow
<1>1. LimitsInv => DedupeWindow
  BY CacheDeduplicates, Zenon DEF LimitsInv
<1> QED
  BY <1>1, Invariance, PTL

(* The retry budget is never overdrawn, its two doors agree and its ledger *)
(* adds up, for every budget, cap and set of tasks.                        *)
THEOREM BudgetStaysKept == Spec => []BudgetKept
<1>1. LimitsInv => BudgetKept
  BY BudgetIsKept, Zenon DEF LimitsInv
<1> QED
  BY <1>1, Invariance, PTL

(* An execute tries, waits and gives up as its policy says, on the one     *)
(* schedule all its readers share, for every list of policies.             *)
THEOREM AttemptsStayAccounted == Spec => []AttemptsAccounted
<1>1. LimitsInv => AttemptsAccounted
  BY AttemptsAreAccounted, Zenon DEF LimitsInv
<1> QED
  BY <1>1, Invariance, PTL

(* The six judges of silence agree, for every time to live, every set of   *)
(* tasks and every behaviour of the clock.                                 *)
THEOREM ExpiriesStayAgreed == Spec => []ExpiriesAgree
<1>1. LimitsInv => ExpiriesAgree
  BY ExpiriesFollow, Zenon DEF LimitsInv
<1> QED
  BY <1>1, Invariance, PTL

-----------------------------------------------------------------------------
(* What is proved of the queues, of the limits and of the breaker holds    *)
(* where TLC checks them, side by side: a behaviour that uses one of the   *)
(* three is a behaviour of each.                                           *)
THEOREM SidesAreTheirOwn == PartsSpec => QueuesSpec /\ Spec /\ BreakerSpec
<1>1. PartsInit => QueuesInit /\ Init /\ BreakerInit
  BY DEF PartsInit
<1>2. [PartsNext]_partsVars =>
         [QueuesNext]_queuesVars /\ [Next]_limitVars /\ [BreakerNext]_breakerVars
  <2> SUFFICES ASSUME [PartsNext]_partsVars
               PROVE  /\ [QueuesNext]_queuesVars /\ [Next]_limitVars
                      /\ [BreakerNext]_breakerVars
    OBVIOUS
  <2>1. CASE UNCHANGED partsVars
    BY <2>1, Zenon DEF partsVars
  <2>2. CASE OnQueues
    BY <2>2, Zenon DEF OnQueues
  <2>3. CASE OnLimits
    BY <2>3, Zenon DEF OnLimits
  <2>4. CASE OnBreaker
    BY <2>4, Zenon DEF OnBreaker
  <2> QED
    BY <2>1, <2>2, <2>3, <2>4, Zenon DEF PartsNext
<1> QED
  BY <1>1, <1>2, PTL DEF PartsSpec, QueuesSpec, Spec, BreakerSpec
=============================================================================
