----------------------- MODULE VisualizerServer_proofs -----------------------
(***************************************************************************)
(* Proofs about VisualizerServer, for any number of visualizers, domains   *)
(* and frames.                                                             *)
(***************************************************************************)
EXTENDS VisualizerServer, SequenceTheorems, TLAPS

Listed == ToSet(registeredVisualizers)

(* The lock is the main thread's exactly while it sends. *)
LockHeld ==
    /\ visLock = "main" <=> mainPc = "send"
    /\ mainPc \in {"lock", "send"} => frame >= 0

(* A visualizer is on its way from the backlog over the registration       *)
(* thread into the list, and in one of these places at a time.             *)
OnePlace ==
    /\ IsInjective(backlog) /\ IsInjective(registeredVisualizers)
    /\ \A v \in ToSet(backlog) : fd[v] = "none"
    /\ \A v \in Listed : fd[v] = "open" /\ acked[v]
    /\ regPc = "accept" <=> connectFD = NoFD
    /\ regPc # "accept" => fd[connectFD] = "open" /\ connectFD \notin Listed
    /\ regPc = "register" => acked[connectFD]

(* Only visualizers that are, or were, in the list have been sent data. *)
Unsent(v) == fd[v] = "none" \/ v = connectFD
NothingYet == \A v \in Visualizers : Unsent(v) => stream[v] = <<>>

(* The unit that the visualizer at position p of the list gets next *)
Due(p) ==
    IF mainPc = "send"
    THEN frame * FrameUnits + dom * DomainUnits
             + (IF p < i THEN DomainUnits ELSE IF p = i THEN sent ELSE 0)
    ELSE IF mainPc = "lock" THEN frame * FrameUnits ELSE (frame + 1) * FrameUnits

AtFrameStart(n) == \E f \in Nat : n = f * FrameUnits

UpToDate ==
    /\ sent > 0 => i <= Len(registeredVisualizers)
    /\ \A p \in DOMAIN registeredVisualizers :
           LET s == stream[registeredVisualizers[p]]
           IN  /\ s # <<>> => s[Len(s)] + 1 = Due(p)
               /\ s = <<>> => AtFrameStart(Due(p))

(* WholeFrames, with the first unit's place as it is proved *)
InSequence(s) == \A k \in 1 .. Len(s) :
    IF k = 1 THEN AtFrameStart(s[k]) ELSE s[k] = s[k - 1] + 1

Sequential == \A v \in Visualizers : InSequence(stream[v])

ServerInv == TypeOK /\ LockHeld /\ OnePlace /\ NothingYet /\ UpToDate /\ Sequential
-----------------------------------------------------------------------------
LEMMA FrameUnitsPositive == FrameUnits \in Nat \ {0}
<1>1. NumDomains \in Nat \ {0} /\ DomainUnits \in Nat \ {0}
    BY NumDomainsAssumption, UnitsAssumption
<1>2. NumDomains * DomainUnits \in Nat \ {0}
    BY <1>1, SMT
<1> QED BY <1>2 DEF FrameUnits

LEMMA FrameStartRemainder == ASSUME NEW n, AtFrameStart(n) PROVE n % FrameUnits = 0
<1>1. PICK f \in Nat : n = f * FrameUnits
    BY DEF AtFrameStart
<1> QED BY <1>1, FrameUnitsPositive, SMT

(* Sequences without repetition, when an element is added or taken away. *)
LEMMA AppendNew ==
    ASSUME NEW S, NEW s \in Seq(S), NEW x \in S, IsInjective(s), x \notin ToSet(s)
    PROVE  /\ Append(s, x) \in Seq(S) /\ IsInjective(Append(s, x))
           /\ ToSet(Append(s, x)) = ToSet(s) \cup {x}
           /\ DOMAIN Append(s, x) = 1 .. Len(s) + 1
           /\ Append(s, x)[Len(s) + 1] = x
           /\ \A p \in 1 .. Len(s) : Append(s, x)[p] = s[p]
<1>1. Len(s) \in Nat /\ DOMAIN s = 1 .. Len(s)
    <2>1. \A t \in Seq(S) : Len(t) \in Nat /\ DOMAIN t = 1 .. Len(t)
        BY LenProperties
    <2> QED BY <2>1
<1>2. Append(s, x) \in Seq(S) /\ Len(Append(s, x)) = Len(s) + 1
    BY AppendProperties
<1>3. DOMAIN Append(s, x) = 1 .. Len(s) + 1
    BY <1>2, LenProperties
<1>4. \A p \in 1 .. Len(s) + 1 : Append(s, x)[p] = IF p = Len(s) + 1 THEN x ELSE s[p]
    BY <1>1, AppendProperties, SMT
<1>5. IsInjective(Append(s, x))
    BY <1>1, <1>3, <1>4, SMT DEF IsInjective, ToSet
<1>6. ToSet(Append(s, x)) = ToSet(s) \cup {x}
    BY <1>1, <1>3, <1>4, SMT DEF ToSet
<1>7. Append(s, x)[Len(s) + 1] = x /\ \A p \in 1 .. Len(s) : Append(s, x)[p] = s[p]
    BY <1>1, <1>4, SMT
<1> QED BY <1>2, <1>3, <1>5, <1>6, <1>7, Zenon

LEMMA TailInjective ==
    ASSUME NEW S, NEW s \in Seq(S), IsInjective(s), s # <<>>
    PROVE  /\ Tail(s) \in Seq(S) /\ IsInjective(Tail(s)) /\ Head(s) \in S
           /\ Head(s) \in ToSet(s) /\ ToSet(Tail(s)) \subseteq ToSet(s)
           /\ Head(s) \notin ToSet(Tail(s))
<1>1. /\ Tail(s) \in Seq(S) /\ Len(s) \in Nat \ {0} /\ DOMAIN s = 1 .. Len(s)
      /\ DOMAIN Tail(s) = 1 .. Len(s) - 1 /\ Head(s) = s[1] /\ Head(s) \in S
    BY SMT
<1>2. \A p \in 1 .. Len(s) - 1 : Tail(s)[p] = s[p + 1]
    BY SMT
<1> QED BY <1>1, <1>2, SMT DEF IsInjective, ToSet

(* r is s without its element n. *)
Without(r, s, n) ==
    /\ DOMAIN r = 1 .. Len(s) - 1
    /\ \A p \in 1 .. Len(s) - 1 : r[p] = s[IF p < n THEN p ELSE p + 1]

LEMMA WithoutInjective ==
    ASSUME NEW S, NEW s \in Seq(S), NEW n \in 1 .. Len(s), IsInjective(s),
           NEW r, Without(r, s, n)
    PROVE  IsInjective(r) /\ ToSet(r) = ToSet(s) \ {s[n]}
<1>1. Len(s) \in Nat /\ DOMAIN s = 1 .. Len(s) /\ n \in Nat /\ n >= 1 /\ n <= Len(s)
    BY LenProperties, SMT
<1> DEFINE At(p) == IF p < n THEN p ELSE p + 1
<1>2. \A p \in 1 .. Len(s) - 1 : At(p) \in 1 .. Len(s) \ {n} /\ r[p] = s[At(p)]
    BY <1>1, SMT DEF Without
<1>3. \A a, b \in 1 .. Len(s) - 1 : At(a) = At(b) => a = b
    BY <1>1, SMT
<1>4. \A q \in 1 .. Len(s) \ {n} : \E p \in 1 .. Len(s) - 1 : At(p) = q
    <2> TAKE q \in 1 .. Len(s) \ {n}
    <2>1. CASE q < n
        <3>1. q \in 1 .. Len(s) - 1 /\ At(q) = q
            BY <1>1, <2>1, SMT
        <3> QED BY <3>1
    <2>2. CASE q > n
        <3>1. q - 1 \in 1 .. Len(s) - 1 /\ At(q - 1) = q
            BY <1>1, <2>2, SMT
        <3> QED BY <3>1
    <2> QED BY <1>1, <2>1, <2>2, SMT
<1> HIDE DEF At
<1>5. IsInjective(r)
    <2> SUFFICES ASSUME NEW a \in 1 .. Len(s) - 1, NEW b \in 1 .. Len(s) - 1, r[a] = r[b]
                 PROVE  a = b
        BY Zenon DEF IsInjective, Without
    <2>1. At(a) \in DOMAIN s /\ At(b) \in DOMAIN s /\ s[At(a)] = s[At(b)]
        BY <1>1, <1>2, Zenon
    <2>2. At(a) = At(b)
        BY <2>1, Zenon DEF IsInjective
    <2> QED BY <1>3, <2>2
<1>6. ASSUME NEW p \in 1 .. Len(s) - 1 PROVE r[p] \in ToSet(s) \ {s[n]}
    <2>1. At(p) \in DOMAIN s /\ At(p) # n /\ n \in DOMAIN s /\ r[p] = s[At(p)]
        BY <1>1, <1>2, SMT
    <2> QED BY <2>1, Zenon DEF IsInjective, ToSet
<1>7. ASSUME NEW x \in ToSet(s) \ {s[n]} PROVE \E p \in 1 .. Len(s) - 1 : r[p] = x
    <2>1. PICK q \in 1 .. Len(s) \ {n} : s[q] = x
        BY <1>1, Zenon DEF ToSet
    <2> QED BY <1>2, <1>4, <2>1, Zenon
<1>8. ToSet(r) = ToSet(s) \ {s[n]}
    <2>1. \A x \in ToSet(r) : \E p \in 1 .. Len(s) - 1 : r[p] = x
        BY Zenon DEF ToSet, Without
    <2>2. \A p \in 1 .. Len(s) - 1 : r[p] \in ToSet(r)
        BY Zenon DEF ToSet, Without
    <2>3. ToSet(r) \subseteq ToSet(s) \ {s[n]}
        BY <1>6, <2>1
    <2>4. ToSet(s) \ {s[n]} \subseteq ToSet(r)
        BY <1>7, <2>2
    <2> QED BY <2>3, <2>4
<1> QED BY <1>5, <1>8

LEMMA RemoveAtWithout ==
    ASSUME NEW S, NEW s \in Seq(S), NEW n \in 1 .. Len(s)
    PROVE  /\ RemoveAt(s, n) \in Seq(S) /\ Without(RemoveAt(s, n), s, n)
           /\ Len(RemoveAt(s, n)) = Len(s) - 1
<1> DEFINE front == SubSeq(s, 1, n - 1)
           back == SubSeq(s, n + 1, Len(s))
<1>1. Len(s) \in Nat /\ DOMAIN s = 1 .. Len(s) /\ n \in Nat /\ n >= 1 /\ n <= Len(s)
    BY LenProperties, SMT
<1>2. \A p \in 1 .. Len(s) : s[p] \in S
    BY <1>1, SMT
<1>3. /\ front \in Seq(S) /\ Len(front) = n - 1
      /\ \A p \in 1 .. n - 1 : front[p] = s[p]
    <2>1. 1 \in Int /\ n - 1 \in Int /\ \A p \in 1 .. n - 1 : s[p] \in S
        BY <1>1, <1>2, SMT
    <2>2. /\ front \in Seq(S) /\ Len(front) = (IF 1 <= n - 1 THEN n - 1 - 1 + 1 ELSE 0)
          /\ \A p \in 1 .. n - 1 - 1 + 1 : front[p] = s[1 + p - 1]
        BY <2>1, SubSeqProperties
    <2> HIDE DEF front
    <2>3. \A p \in 1 .. n - 1 : p \in 1 .. n - 1 - 1 + 1 /\ 1 + p - 1 = p
        BY <1>1, SMT
    <2>4. (IF 1 <= n - 1 THEN n - 1 - 1 + 1 ELSE 0) = n - 1
        BY <1>1, SMT
    <2>5. Len(front) = n - 1 /\ \A p \in 1 .. n - 1 : front[p] = s[p]
        BY <2>2, <2>3, <2>4
    <2> QED BY <2>2, <2>5, Zenon
<1>4. /\ back \in Seq(S) /\ Len(back) = Len(s) - n
      /\ \A p \in 1 .. Len(s) - n : back[p] = s[n + p]
    <2>1. n + 1 \in Int /\ Len(s) \in Int /\ \A p \in n + 1 .. Len(s) : s[p] \in S
        BY <1>1, <1>2, SMT
    <2>2. /\ back \in Seq(S) /\ Len(back) = (IF n + 1 <= Len(s) THEN Len(s) - (n + 1) + 1 ELSE 0)
          /\ \A p \in 1 .. Len(s) - (n + 1) + 1 : back[p] = s[n + 1 + p - 1]
        BY <2>1, SubSeqProperties
    <2> HIDE DEF back
    <2>3. \A p \in 1 .. Len(s) - n : p \in 1 .. Len(s) - (n + 1) + 1 /\ n + 1 + p - 1 = n + p
        BY <1>1, SMT
    <2>4. CASE n = Len(s)
        <3>1. ~(n + 1 <= Len(s)) /\ Len(s) - n = 0
            BY <1>1, <2>4, SMT
        <3> QED BY <2>2, <2>3, <3>1, Zenon
    <2>5. CASE n # Len(s)
        <3>1. \A l, m \in Nat : m <= l /\ m # l => m + 1 <= l /\ l - (m + 1) + 1 = l - m
            BY SMT
        <3>2. n + 1 <= Len(s) /\ Len(s) - (n + 1) + 1 = Len(s) - n
            BY <1>1, <2>5, <3>1, Zenon
        <3> QED BY <2>2, <2>3, <3>2, Zenon
    <2> QED BY <2>4, <2>5
<1>5. RemoveAt(s, n) = front \o back
    BY DEF RemoveAt
<1> HIDE DEF front, back
<1>6. /\ front \o back \in Seq(S) /\ Len(front \o back) = Len(front) + Len(back)
      /\ \A p \in 1 .. Len(front) + Len(back) : (front \o back)[p] =
             IF p <= Len(front) THEN front[p] ELSE back[p - Len(front)]
    BY <1>3, <1>4, ConcatProperties
<1>7. Len(front) + Len(back) = Len(s) - 1
    BY <1>1, <1>3, <1>4, SMT
<1>8. DOMAIN (front \o back) = 1 .. Len(s) - 1
    BY <1>6, <1>7, LenProperties
<1>9. ASSUME NEW p \in 1 .. Len(s) - 1
      PROVE  (front \o back)[p] = s[IF p < n THEN p ELSE p + 1]
    <2>1. CASE p < n
        <3>1. p \in 1 .. n - 1 /\ p <= n - 1
            BY <1>1, <2>1, SMT
        <3> QED BY <1>3, <1>6, <1>7, <2>1, <3>1, Zenon
    <2>2. CASE ~(p < n)
        <3>1. p - (n - 1) \in 1 .. Len(s) - n /\ n + (p - (n - 1)) = p + 1 /\ ~(p <= n - 1)
            BY <1>1, <2>2, SMT
        <3> QED BY <1>3, <1>4, <1>6, <1>7, <2>2, <3>1, Zenon
    <2> QED BY <2>1, <2>2
<1> QED BY <1>5, <1>6, <1>7, <1>8, <1>9, Zenon DEF Without

(* What the two invariants about the data depend on *)
LEMMA UpToDateKept ==
    ASSUME UpToDate, UNCHANGED <<stream, registeredVisualizers, main>>
    PROVE  UpToDate'
BY DEF UpToDate, Due, AtFrameStart, main

LEMMA SequentialKept == ASSUME Sequential, UNCHANGED stream PROVE Sequential'
BY DEF Sequential, InSequence, AtFrameStart

LEMMA ServerInvInit == Init => ServerInv
<1> SUFFICES ASSUME Init PROVE ServerInv
    OBVIOUS
<1> USE DEF Init
<1>1. TypeOK
    BY FrameUnitsPositive, NumDomainsAssumption, UnitsAssumption, FramesAssumption, SMT DEF TypeOK
<1>2. LockHeld /\ NothingYet /\ UpToDate /\ Sequential
    BY SMT DEF LockHeld, NothingYet, UpToDate, Sequential, InSequence
<1>3. OnePlace
    BY SMT DEF OnePlace, Listed, IsInjective, ToSet
<1> QED BY <1>1, <1>2, <1>3 DEF ServerInv
-----------------------------------------------------------------------------
(* What a visualizer, the registration thread and the main thread do       *)

LEMMA ConnectKeeps ==
    ASSUME ServerInv, NEW v \in Visualizers, Connect(v) PROVE ServerInv'
<1> USE DEF ServerInv, Connect, lists, main, registration, sockets
<1>0. /\ Append(backlog, v) \in Seq(Visualizers) /\ IsInjective(Append(backlog, v))
      /\ ToSet(Append(backlog, v)) = ToSet(backlog) \cup {v}
    BY AppendNew DEF TypeOK, OnePlace
<1>1. TypeOK'
    BY <1>0, SMT DEF TypeOK
<1>2. LockHeld' /\ NothingYet'
    BY SMT DEF LockHeld, NothingYet, Unsent
<1>3. OnePlace'
    BY <1>0, SMT DEF OnePlace, Listed
<1> QED BY <1>1, <1>2, <1>3, UpToDateKept, SequentialKept

LEMMA VisualizerKeeps ==
    ASSUME ServerInv, NEW v \in Visualizers, SendAck(v) \/ ReadData(v) \/ Leave(v)
    PROVE  ServerInv'
<1> USE DEF ServerInv, SendAck, ReadData, Leave, lists, main, registration, sockets
<1>1. TypeOK'
    <2>1. CASE SendAck(v)
        BY <2>1, SMT DEF TypeOK
    <2>2. CASE ReadData(v)
        BY <2>2, UnitsAssumption, SMT DEF TypeOK
    <2>3. CASE Leave(v)
        BY <2>3, SMT DEF TypeOK
    <2> QED BY <2>1, <2>2, <2>3
<1>2. LockHeld' /\ NothingYet'
    BY SMT DEF LockHeld, NothingYet, Unsent
<1>3. OnePlace'
    <2>1. \A w \in Visualizers : acked[w] => acked'[w]
        BY Zenon DEF TypeOK
    <2>2. Listed \subseteq Visualizers /\ (regPc # "accept" => connectFD \in Visualizers)
        BY SMT DEF TypeOK, OnePlace, Listed, ToSet
    <2> QED BY <2>1, <2>2, SMT DEF OnePlace, Listed
<1> QED BY <1>1, <1>2, <1>3, UpToDateKept, SequentialKept

LEMMA AcceptKeeps == ASSUME ServerInv, Accept PROVE ServerInv'
<1> USE DEF ServerInv, Accept, lists, main, registration, sockets
<1> DEFINE v == Head(backlog)
<1>0. /\ v \in Visualizers /\ v \in ToSet(backlog) /\ v \notin ToSet(Tail(backlog))
      /\ Tail(backlog) \in Seq(Visualizers) /\ IsInjective(Tail(backlog))
      /\ ToSet(Tail(backlog)) \subseteq ToSet(backlog)
    BY TailInjective DEF TypeOK, OnePlace
<1> HIDE DEF v
<1>1. TypeOK'
    BY <1>0, SMT DEF TypeOK, v
<1>2. LockHeld'
    BY SMT DEF LockHeld
<1>3. fd[v] = "none" /\ fd' = [fd EXCEPT ![v] = "open"] /\ connectFD' = v /\ backlog' = Tail(backlog)
    BY <1>0 DEF OnePlace, v
<1>4. OnePlace'
    BY <1>0, <1>3, NoFDAssumption, SMT DEF OnePlace, Listed, TypeOK
<1>5. NothingYet'
    <2> SUFFICES ASSUME NEW w \in Visualizers, Unsent(w)' PROVE stream[w] = <<>>
        BY DEF NothingYet
    <2>1. CASE w = v
        BY <1>3, <2>1 DEF NothingYet, Unsent
    <2>2. CASE w # v
        <3>1. fd'[w] = fd[w] /\ w # connectFD'
            BY <1>3, <2>2 DEF TypeOK
        <3> QED BY <3>1 DEF NothingYet, Unsent
    <2> QED BY <2>1, <2>2
<1> QED BY <1>1, <1>2, <1>4, <1>5, UpToDateKept, SequentialKept

LEMMA AnsweredKeeps == ASSUME ServerInv, SendCount \/ ReadAck PROVE ServerInv'
<1> USE DEF ServerInv, lists, main, registration, sockets
<1>0. /\ connectFD \in Visualizers /\ regPc # "accept"
      /\ UNCHANGED <<lists, numParticlesPerWorld, main, backlog, alive, acked, unread, stream>>
    BY SMT DEF TypeOK, OnePlace, SendCount, ReadAck
<1>1. told' \in [Visualizers -> {NoCount, 0, FrameUnits}]
    <2>1. UNCHANGED told \/ told' = [told EXCEPT ![connectFD] = numParticlesPerWorld]
        BY DEF SendCount, ReadAck
    <2>2. CASE UNCHANGED told
        BY <2>2 DEF TypeOK
    <2>3. CASE told' = [told EXCEPT ![connectFD] = numParticlesPerWorld]
        BY <1>0, <2>3, Zenon DEF TypeOK
    <2> QED BY <2>1, <2>2, <2>3
<1>2. CASE UNCHANGED <<connectFD, fd>> /\ regPc' \in {"readAck", "register"}
              /\ (regPc' = "register" => acked[connectFD])
    <2>1. TypeOK'
        BY <1>0, <1>1, <1>2, SMT DEF TypeOK
    <2>2. LockHeld' /\ NothingYet'
        BY <1>0, <1>2, SMT DEF LockHeld, NothingYet, Unsent
    <2>3. OnePlace'
        BY <1>0, <1>2, SMT DEF OnePlace, Listed
    <2> QED BY <1>0, <2>1, <2>2, <2>3, UpToDateKept, SequentialKept
<1>3. CASE GiveUp
    <2>1. TypeOK'
        BY <1>0, <1>1, <1>3, SMT DEF TypeOK, GiveUp
    <2>2. LockHeld'
        BY <1>0, SMT DEF LockHeld
    <2>3. OnePlace'
        BY <1>0, <1>3, NoFDAssumption, SMT DEF OnePlace, Listed, TypeOK, GiveUp
    <2>4. NothingYet'
        <3>1. \A w \in Visualizers : Unsent(w)' => Unsent(w)
            BY <1>0, <1>3, NoFDAssumption, SMT DEF Unsent, TypeOK, GiveUp
        <3> QED BY <1>0, <3>1 DEF NothingYet
    <2> QED BY <1>0, <2>1, <2>2, <2>3, <2>4, UpToDateKept, SequentialKept
<1> QED BY <1>2, <1>3 DEF SendCount, ReadAck

LEMMA RegisterKeeps == ASSUME ServerInv, Register PROVE ServerInv'
<1> USE DEF ServerInv, Register, lists, main, registration, sockets
<1> DEFINE reg == registeredVisualizers
           v == connectFD
<1>0. v \in Visualizers
    BY DEF TypeOK, OnePlace
<1>1. /\ reg' \in Seq(Visualizers) /\ IsInjective(reg') /\ ToSet(reg') = ToSet(reg) \cup {v}
      /\ DOMAIN reg' = 1 .. Len(reg) + 1
      /\ reg'[Len(reg) + 1] = v /\ \A p \in 1 .. Len(reg) : reg'[p] = reg[p]
    BY <1>0, AppendNew DEF TypeOK, OnePlace, Listed
<1>2. Len(reg) \in Nat /\ DOMAIN reg = 1 .. Len(reg) /\ Len(reg') = Len(reg) + 1
    BY <1>0, LenProperties, AppendProperties DEF TypeOK
<1> HIDE DEF reg
<1>3. TypeOK'
    BY <1>1, SMT DEF TypeOK, reg
<1>4. LockHeld'
    BY SMT DEF LockHeld
<1>5. OnePlace'
    BY <1>0, <1>1, NoFDAssumption, SMT DEF OnePlace, Listed, TypeOK, reg
<1>6. NothingYet'
    BY <1>0, NoFDAssumption, SMT DEF NothingYet, Unsent, TypeOK, OnePlace
<1>7. UpToDate'
    <2>1. stream[v] = <<>>
        BY <1>0 DEF NothingYet, Unsent
    <2>2. \A p : Due(p)' = Due(p)
        BY DEF Due
    <2>5. AtFrameStart(Due(Len(reg) + 1))
        <3>1. mainPc # "send" /\ frame + 1 \in Nat /\ (mainPc = "lock" => frame \in Nat)
            BY FramesAssumption, SMT DEF LockHeld, TypeOK
        <3> QED BY <3>1, Zenon DEF AtFrameStart, Due
    <2>3. (sent > 0 => i <= Len(reg))'
        BY <1>2, SMT DEF UpToDate, TypeOK, reg
    <2>4. ASSUME NEW p \in DOMAIN reg' 
          PROVE  /\ stream[reg'[p]] # <<>> => stream[reg'[p]][Len(stream[reg'[p]])] + 1 = Due(p)
                 /\ stream[reg'[p]] = <<>> => AtFrameStart(Due(p))
        <3>1. CASE p = Len(reg) + 1
            BY <1>1, <2>1, <2>5, <3>1
        <3>2. CASE p # Len(reg) + 1
            <4>1. p \in DOMAIN reg /\ reg'[p] = reg[p]
                BY <1>1, <1>2, <3>2, SMT
            <4> QED BY <4>1 DEF UpToDate, reg
        <3> QED BY <3>1, <3>2
    <2> QED BY <2>2, <2>3, <2>4, Zenon DEF UpToDate, AtFrameStart, reg
<1> QED BY <1>3, <1>4, <1>5, <1>6, <1>7, SequentialKept

LEMMA Distribute == \A a, b \in Int : (a + 1) * b = a * b + b
BY SMT

(* The arithmetic of Due *)
LEMMA Places ==
    ASSUME ServerInv
    PROVE  /\ FrameUnits \in Nat \ {0} /\ DomainUnits \in Nat \ {0}
           /\ frame \in Int /\ dom \in Nat /\ sent \in Nat /\ i \in Nat \ {0}
           /\ frame * FrameUnits \in Int /\ (frame + 1) * FrameUnits = frame * FrameUnits + FrameUnits
           /\ dom * DomainUnits \in Nat /\ (dom + 1) * DomainUnits = dom * DomainUnits + DomainUnits
           /\ dom + 1 = NumDomains => dom * DomainUnits + DomainUnits = FrameUnits
           /\ 0 * DomainUnits = 0
           /\ Len(registeredVisualizers) \in Nat
           /\ DOMAIN registeredVisualizers = 1 .. Len(registeredVisualizers)
<1>1. /\ FrameUnits \in Nat \ {0} /\ DomainUnits \in Nat \ {0} /\ NumDomains \in Nat \ {0}
      /\ frame \in Int /\ dom \in Nat /\ sent \in Nat /\ i \in Nat \ {0}
    BY FrameUnitsPositive, NumDomainsAssumption, UnitsAssumption, FramesAssumption, SMT
       DEF ServerInv, TypeOK
<1>2. /\ frame * FrameUnits \in Int /\ (frame + 1) * FrameUnits = frame * FrameUnits + FrameUnits
      /\ dom * DomainUnits \in Nat /\ (dom + 1) * DomainUnits = dom * DomainUnits + DomainUnits
      /\ 0 * DomainUnits = 0
    BY <1>1, Distribute, SMT
<1>3. dom + 1 = NumDomains => dom * DomainUnits + DomainUnits = FrameUnits
    BY <1>2 DEF FrameUnits
<1>4. /\ Len(registeredVisualizers) \in Nat
      /\ DOMAIN registeredVisualizers = 1 .. Len(registeredVisualizers)
    BY LenProperties DEF ServerInv, TypeOK
<1> QED BY <1>1, <1>2, <1>3, <1>4

(* A step that changes no list and sends nothing *)
LEMMA DueKept ==
    ASSUME UpToDate, UNCHANGED <<stream, registeredVisualizers>>,
           sent' = 0, \A p \in DOMAIN registeredVisualizers : Due(p)' = Due(p)
    PROVE  UpToDate'
<1>1. \A p \in DOMAIN registeredVisualizers : AtFrameStart(Due(p))' = AtFrameStart(Due(p))
    BY DEF AtFrameStart
<1>2. (sent > 0 => i <= Len(registeredVisualizers))'
    BY SMT
<1> QED BY <1>1, <1>2, Zenon DEF UpToDate

LEMMA QuietKeeps ==
    ASSUME ServerInv, Startup \/ CompleteFrame \/ Exit PROVE ServerInv'
<1> USE DEF ServerInv, Startup, CompleteFrame, Exit, lists, registration, sockets
<1>1. TypeOK'
    <2>1. CASE Startup
        BY <2>1, SMT DEF TypeOK
    <2>2. CASE CompleteFrame
        BY <2>2, FramesAssumption, SMT DEF TypeOK
    <2>3. CASE Exit
        BY <2>3, SMT DEF TypeOK
    <2> QED BY <2>1, <2>2, <2>3
<1>2. LockHeld'
    BY FramesAssumption, SMT DEF LockHeld, TypeOK
<1>3. OnePlace' /\ NothingYet'
    BY SMT DEF OnePlace, Listed, NothingYet, Unsent
<1>4. UpToDate'
    <2>1. \A p : Due(p)' = Due(p)
        BY Places, SMT DEF Due
    <2>2. UNCHANGED <<sent, i, stream, registeredVisualizers>>
        OBVIOUS
    <2> QED BY <2>1, <2>2, Zenon DEF UpToDate, AtFrameStart
<1> QED BY <1>1, <1>2, <1>3, <1>4, SequentialKept

LEMMA LockKeeps == ASSUME ServerInv, LockVisualizers PROVE ServerInv'
<1> USE DEF ServerInv, LockVisualizers, registration, sockets
<1>1. TypeOK'
    BY NumDomainsAssumption, UnitsAssumption, SMT DEF TypeOK
<1>2. LockHeld'
    BY SMT DEF LockHeld
<1>3. OnePlace' /\ NothingYet'
    BY SMT DEF OnePlace, Listed, NothingYet, Unsent
<1>4. UpToDate'
    <2>1. \A p \in DOMAIN registeredVisualizers : Due(p)' = Due(p)
        BY Places, SMT DEF Due
    <2> QED BY <2>1, DueKept
<1> QED BY <1>1, <1>2, <1>3, <1>4, SequentialKept

LEMMA NextDomainKeeps == ASSUME ServerInv, NextDomain PROVE ServerInv'
<1> USE DEF ServerInv, NextDomain, registration, sockets
<1>1. TypeOK'
    BY NumDomainsAssumption, SMT DEF TypeOK
<1>2. LockHeld'
    BY SMT DEF LockHeld
<1>3. OnePlace' /\ NothingYet'
    BY SMT DEF OnePlace, Listed, NothingYet, Unsent
<1>4. sent = 0
    BY Places, SMT DEF UpToDate
<1>5. UpToDate'
    <2>1. \A p \in DOMAIN registeredVisualizers : p \in Nat /\ p >= 1 /\ p < i
        BY Places, SMT
    <2> DEFINE Kept == \A p \in DOMAIN registeredVisualizers : Due(p)' = Due(p)
    <2>2. ASSUME dom + 1 < NumDomains, dom' = dom + 1, i' = 1, UNCHANGED mainPc PROVE Kept
        <3> SUFFICES ASSUME NEW p \in DOMAIN registeredVisualizers PROVE Due(p)' = Due(p)
            OBVIOUS
        <3>1. Due(p) = frame * FrameUnits + dom * DomainUnits + DomainUnits
            BY <2>1 DEF Due
        <3>2. dom' * DomainUnits = dom * DomainUnits + DomainUnits
            BY <2>2, Places
        <3>3. Due(p)' = frame * FrameUnits + dom' * DomainUnits + 0
            BY <1>4, <2>1, <2>2, SMT DEF Due
        <3> QED BY <3>1, <3>2, <3>3, Places, SMT
    <2>3. ASSUME dom + 1 = NumDomains, mainPc' = "running" PROVE Kept
        BY <1>4, <2>1, <2>3, Places, SMT DEF Due
    <2>4. Kept
        BY <2>2, <2>3
    <2> QED BY <1>4, <2>4, DueKept
<1> QED BY <1>1, <1>2, <1>3, <1>5, SequentialKept

(* A stream that goes on with n units from first on *)
LEMMA StreamGoesOn ==
    ASSUME NEW s \in Seq(Nat), InSequence(s), NEW first \in Nat, NEW n \in Nat \ {0},
           s # <<>> => s[Len(s)] + 1 = first, s = <<>> => AtFrameStart(first),
           NEW d \in Seq(Nat), Len(d) = n, \A k \in 1 .. n : d[k] = first + k - 1,
           NEW t, t = s \o d
    PROVE  t \in Seq(Nat) /\ t # <<>> /\ InSequence(t) /\ t[Len(t)] + 1 = first + n
<1>2. Len(s) \in Nat /\ (s = <<>> <=> Len(s) = 0)
    BY EmptySeq, LenProperties
<1>3. /\ t \in Seq(Nat) /\ Len(t) = Len(s) + n
      /\ \A k \in 1 .. Len(s) + n : t[k] = IF k <= Len(s) THEN s[k] ELSE d[k - Len(s)]
    BY ConcatProperties
<1>4. \A k \in 1 .. Len(s) : t[k] = s[k] /\ k \in 1 .. Len(t)
    BY <1>2, <1>3, SMT
<1>5. \A k \in Len(s) + 1 .. Len(s) + n : t[k] = first + (k - Len(s) - 1) /\ k \in 1 .. Len(t)
    BY <1>2, <1>3, SMT
<1>6. t # <<>> /\ t[Len(t)] + 1 = first + n
    <2>1. /\ Len(s) + n \in Len(s) + 1 .. Len(s) + n /\ Len(s) + n # 0
          /\ first + (Len(s) + n - Len(s) - 1) + 1 = first + n
        BY <1>2, SMT
    <2>2. t # <<>>
        BY <1>3, <2>1, EmptySeq
    <2>4. t[Len(s) + n] = first + (Len(s) + n - Len(s) - 1)
        BY <1>5, <2>1
    <2>3. t[Len(t)] = first + (Len(s) + n - Len(s) - 1)
        BY <1>3, <2>4, Zenon
    <2> QED BY <2>1, <2>2, <2>3
<1>7. ASSUME NEW k \in 1 .. Len(t)
      PROVE  IF k = 1 THEN AtFrameStart(t[k]) ELSE t[k] = t[k - 1] + 1
    <2>1. CASE k <= Len(s)
        <3>1. k \in 1 .. Len(s) /\ (k # 1 => k - 1 \in 1 .. Len(s))
            BY <1>2, <1>3, <2>1, SMT
        <3> QED BY <1>4, <3>1 DEF InSequence
    <2>2. CASE k = Len(s) + 1
        <3>1. t[k] = first /\ (k = 1 <=> s = <<>>)
            BY <1>2, <1>5, <2>2, SMT
        <3>2. k # 1 => k - 1 = Len(s) /\ Len(s) \in 1 .. Len(s)
            BY <1>2, <2>2, SMT
        <3>3. k # 1 => t[k - 1] = s[Len(s)]
            BY <1>4, <3>2
        <3> QED BY <3>1, <3>3
    <2>3. CASE k > Len(s) + 1
        <3>1. /\ k # 1 /\ t[k] = first + (k - Len(s) - 1)
              /\ t[k - 1] = first + (k - 1 - Len(s) - 1)
            <4>1. /\ k \in Len(s) + 1 .. Len(s) + n /\ k - 1 \in Len(s) + 1 .. Len(s) + n /\ k # 1
                BY <1>2, <1>3, <2>3, SMT
            <4> QED BY <1>5, <4>1
        <3> QED BY <1>2, <1>3, <3>1, SMT
    <2>4. k <= Len(s) \/ k = Len(s) + 1 \/ k > Len(s) + 1
        BY <1>2, <1>3, SMT
    <2> QED BY <2>1, <2>2, <2>3, <2>4
<1>8. InSequence(t)
    BY <1>7, Zenon DEF InSequence
<1> QED BY <1>3, <1>6, <1>8

LEMMA SendKeeps == ASSUME ServerInv, Send PROVE ServerInv'
<1> USE DEF ServerInv, registration
<1> DEFINE v == registeredVisualizers[i]
           first == frame * FrameUnits + dom * DomainUnits + sent
<1>p. /\ FrameUnits \in Nat \ {0} /\ DomainUnits \in Nat \ {0}
      /\ frame \in Int /\ dom \in Nat /\ sent \in Nat /\ i \in Nat \ {0}
      /\ frame * FrameUnits \in Int /\ dom * DomainUnits \in Nat
      /\ DOMAIN registeredVisualizers = 1 .. Len(registeredVisualizers)
      /\ Len(registeredVisualizers) \in Nat
    BY Places
<1>0. \A n \in 1 .. DomainUnits - sent : n \in Nat \ {0} /\ sent + n <= DomainUnits
    BY <1>p, SMT
<1>1. PICK n \in Nat \ {0} :
          /\ sent + n <= DomainUnits
          /\ alive[v] => unread[v] + n <= Room
          /\ unread' = [unread EXCEPT ![v] = IF alive[v] THEN @ + n ELSE @]
          /\ stream' = [stream EXCEPT ![v] = @ \o [k \in 1 .. n |-> first + k - 1]]
          /\ IF sent + n = DomainUnits
             THEN i' = i + 1 /\ sent' = 0
             ELSE sent' = sent + n /\ UNCHANGED i
    BY <1>0 DEF Send
<1>2. /\ mainPc = "send" /\ i <= Len(registeredVisualizers)
      /\ UNCHANGED <<lists, numParticlesPerWorld, mainPc, frame, dom, registration,
                     fd, backlog, alive, told, acked>>
    BY DEF Send
<1>3. i \in DOMAIN registeredVisualizers
    <2>1. i <= Len(registeredVisualizers)
        BY <1>2
    <2> QED BY <2>1, <1>p, SMT
<1>4. v \in Visualizers /\ v \in Listed /\ Due(i) = first
    <2>1. v \in Visualizers
        BY <1>3, <1>p, ElementOfSeq DEF TypeOK
    <2>2. v \in Listed
        BY <1>3, Zenon DEF Listed, ToSet
    <2>3. Due(i) = first
        BY <1>2, <1>p, SMT DEF Due
    <2> QED BY <2>1, <2>2, <2>3
<1>5. first \in Nat
    <2>1. frame \in Nat
        BY <1>2, <1>p, SMT DEF LockHeld
    <2>2. \A a, b \in Nat : a * b \in Nat
        BY SMT
    <2>3. frame * FrameUnits \in Nat
        BY <2>1, <2>2, <1>p
    <2> QED BY <2>3, <1>p, SMT
<1> HIDE DEF v, first
<1>6. /\ stream'[v] \in Seq(Nat) /\ stream'[v] # <<>> /\ InSequence(stream'[v])
      /\ stream'[v][Len(stream'[v])] + 1 = first + n
    <2>1. stream[v] \in Seq(Nat) /\ stream'[v] = stream[v] \o [k \in 1 .. n |-> first + k - 1]
        BY <1>1, <1>4 DEF TypeOK
    <2>2. /\ InSequence(stream[v])
          /\ stream[v] # <<>> => stream[v][Len(stream[v])] + 1 = first
          /\ stream[v] = <<>> => AtFrameStart(first)
        BY <1>3, <1>4 DEF Sequential, UpToDate, v
    <2>3. PICK s \in Seq(Nat), f \in Nat : s = stream[v] /\ f = first
        BY <1>5, <2>1
    <2>4. PICK t, d : t = stream'[v] /\ t = s \o d /\ d = [k \in 1 .. n |-> f + k - 1]
        BY <2>1, <2>3
    <2>5. InSequence(s) /\ (s # <<>> => s[Len(s)] + 1 = f) /\ (s = <<>> => AtFrameStart(f))
        BY <2>2, <2>3
    <2>7. d \in Seq(Nat) /\ Len(d) = n /\ \A k \in 1 .. n : d[k] = f + k - 1
        BY <2>4, SMT
    <2>6. t \in Seq(Nat) /\ t # <<>> /\ InSequence(t) /\ t[Len(t)] + 1 = f + n
        <3>1. /\ InSequence(s) /\ Len(d) = n /\ d \in Seq(Nat) /\ t = s \o d
              /\ \A k \in 1 .. n : d[k] = f + k - 1
            BY <2>4, <2>5, <2>7
        <3>2. s # <<>> => s[Len(s)] + 1 = f
            BY <2>5
        <3>3. s = <<>> => AtFrameStart(f)
            BY <2>5
        <3>4. t \in Seq(Nat) /\ t # <<>>
            BY <3>1, <3>2, <3>3, StreamGoesOn
        <3>5. InSequence(t)
            BY <3>1, <3>2, <3>3, StreamGoesOn
        <3>6. t[Len(t)] + 1 = f + n
            BY <3>1, <3>2, <3>3, StreamGoesOn
        <3> QED BY <3>4, <3>5, <3>6
    <2> QED BY <2>3, <2>4, <2>6
<1>7. stream' \in [Visualizers -> Seq(Nat)] /\ \A w \in Visualizers : w # v => stream'[w] = stream[w]
    <2>1. \A w \in Visualizers : w # v => stream'[w] = stream[w]
        BY <1>1, <1>4 DEF TypeOK
    <2>2. DOMAIN stream' = Visualizers /\ stream' = [w \in Visualizers |-> stream'[w]]
        BY <1>1, <1>4 DEF TypeOK
    <2>3. \A w \in Visualizers : stream'[w] \in Seq(Nat)
        BY <1>6, <2>1 DEF TypeOK
    <2> QED BY <2>1, <2>2, <2>3
<1>8. TypeOK'
    <2>1. unread' \in [Visualizers -> 0 .. Room]
        <3>1. unread[v] \in 0 .. Room
            BY <1>4 DEF TypeOK
        <3>2. alive[v] => unread[v] + n \in 0 .. Room
            BY <1>1, <3>1, UnitsAssumption, SMT
        <3>3. unread' = [unread EXCEPT ![v] = IF alive[v] THEN @ + n ELSE @]
            BY <1>1
        <3> QED BY <1>4, <3>1, <3>2, <3>3, Zenon DEF TypeOK
    <2>2. i' \in Nat \ {0} /\ sent' \in 0 .. DomainUnits - 1
        <3>1. /\ sent + n <= DomainUnits
              /\ IF sent + n = DomainUnits
                 THEN i' = i + 1 /\ sent' = 0 ELSE sent' = sent + n /\ i' = i
            BY <1>1
        <3> QED BY <3>1, <1>p, SMT
    <2> QED BY <1>2, <1>7, <2>1, <2>2 DEF TypeOK, lists
<1>9. LockHeld' /\ OnePlace'
    BY <1>2, SMT DEF LockHeld, OnePlace, Listed, lists
<1>10. NothingYet'
    <2>1. v # connectFD /\ fd[v] = "open"
        BY <1>4, NoFDAssumption, SMT DEF OnePlace
    <2> QED BY <1>2, <1>7, <2>1, SMT DEF NothingYet, Unsent
<1>11. Sequential'
    <2>1. \A w \in Visualizers : InSequence(stream'[w])
        BY <1>6, <1>7 DEF Sequential
    <2> QED BY <2>1 DEF Sequential, InSequence, AtFrameStart
<1>12. UpToDate'
    <2>1. (sent > 0 => i <= Len(registeredVisualizers))'
        BY <1>1, <1>2, SMT DEF lists
    <2>2. ASSUME NEW p \in DOMAIN registeredVisualizers, p # i
          PROVE  registeredVisualizers[p] # v /\ Due(p)' = Due(p)
        <3>1. p \in Nat \ {0}
            BY <1>p, SMT
        <3>2. Due(p)' = Due(p)
            <4>1. /\ mainPc = "send" /\ UNCHANGED <<mainPc, frame, dom>>
                  /\ \/ i' = i + 1 /\ sent' = 0
                     \/ i' = i
                BY <1>1, <1>2
            <4>2. /\ Due(p)' = frame * FrameUnits + dom * DomainUnits
                              + (IF p < i' THEN DomainUnits ELSE IF p = i' THEN sent' ELSE 0)
                  /\ Due(p) = frame * FrameUnits + dom * DomainUnits
                              + (IF p < i THEN DomainUnits ELSE IF p = i THEN sent ELSE 0)
                BY <4>1, Zenon DEF Due
            <4>3. CASE i' = i
                BY <2>2, <3>1, <4>2, <4>3, <1>p, SMT
            <4>4. CASE i' = i + 1 /\ sent' = 0
                BY <2>2, <3>1, <4>2, <4>4, <1>p, SMT
            <4> QED BY <4>1, <4>3, <4>4
        <3>3. registeredVisualizers[p] # v
            BY <1>3, <2>2 DEF v, OnePlace, IsInjective
        <3> QED BY <3>2, <3>3
    <2>3. ASSUME NEW p \in DOMAIN registeredVisualizers, p = i PROVE Due(p)' = first + n
        <3>1. /\ mainPc = "send" /\ UNCHANGED <<mainPc, frame, dom>>
              /\ \/ i' = i + 1 /\ sent' = 0 /\ sent + n = DomainUnits
                 \/ i' = i /\ sent' = sent + n
            BY <1>1, <1>2
        <3>2. /\ Due(p)' = frame * FrameUnits + dom * DomainUnits
                              + (IF p < i' THEN DomainUnits ELSE IF p = i' THEN sent' ELSE 0)
            BY <3>1, Zenon DEF Due
        <3>3. CASE i' = i + 1 /\ sent' = 0 /\ sent + n = DomainUnits
            BY <2>3, <3>2, <3>3, <1>p, SMT DEF first
        <3>4. CASE i' = i /\ sent' = sent + n
            BY <2>3, <3>2, <3>4, <1>p, SMT DEF first
        <3> QED BY <3>1, <3>3, <3>4
    <2>4. UNCHANGED registeredVisualizers
        BY <1>2 DEF lists
    <2>5. ASSUME NEW p \in DOMAIN registeredVisualizers
          PROVE  LET s == stream'[registeredVisualizers[p]]
                 IN  /\ s # <<>> => s[Len(s)] + 1 = Due(p)'
                     /\ s = <<>> => AtFrameStart(Due(p)')
        <3>1. CASE p = i
            <4>1. registeredVisualizers[p] = v
                BY <3>1 DEF v
            <4>2. Due(p)' = first + n
                BY <2>3, <3>1
            <4> QED BY <1>6, <4>1, <4>2
        <3>2. CASE p # i
            <4>1. registeredVisualizers[p] \in Visualizers
                BY <1>p, ElementOfSeq DEF TypeOK
            <4>2. stream'[registeredVisualizers[p]] = stream[registeredVisualizers[p]] /\ Due(p)' = Due(p)
                BY <1>7, <2>2, <3>2, <4>1
            <4> QED BY <4>2 DEF UpToDate
        <3> QED BY <3>1, <3>2
    <2> QED BY <2>1, <2>4, <2>5, Zenon DEF UpToDate, AtFrameStart
<1> QED BY <1>8, <1>9, <1>10, <1>11, <1>12

LEMMA EraseKeeps == ASSUME ServerInv, SendFailed PROVE ServerInv'
<1> USE DEF ServerInv, registration
<1> DEFINE reg == registeredVisualizers
           v == reg[i]
<1>1. /\ mainPc = "send" /\ i <= Len(reg) /\ sent' = 0
      /\ reg' = RemoveAt(reg, i) /\ fd' = [fd EXCEPT ![v] = "closed"]
      /\ UNCHANGED <<visLock, numParticlesPerWorld, mainPc, frame, dom, i, registration,
                     backlog, alive, told, acked, unread, stream>>
    BY DEF SendFailed
<1>2. /\ i \in Nat \ {0} /\ Len(reg) \in Nat /\ DOMAIN reg = 1 .. Len(reg) /\ reg \in Seq(Visualizers)
      /\ IsInjective(reg)
    BY Places DEF TypeOK, OnePlace
<1>3. i \in 1 .. Len(reg)
    BY <1>1, <1>2, SMT
<1>4. reg' \in Seq(Visualizers) /\ Without(reg', reg, i) /\ Len(reg') = Len(reg) - 1
    BY <1>1, <1>2, <1>3, RemoveAtWithout
<1>5. IsInjective(reg') /\ ToSet(reg') = ToSet(reg) \ {v}
    BY <1>2, <1>3, <1>4, WithoutInjective
<1>6. v \in Visualizers /\ v \in ToSet(reg)
    BY <1>2, <1>3, ElementOfSeq, Zenon DEF ToSet
<1>7. DOMAIN reg' = 1 .. Len(reg) - 1 /\ Len(reg') = Len(reg) - 1
    BY <1>4 DEF Without
<1> HIDE DEF reg, v
<1>8. TypeOK'
    <2>1. fd' \in [Visualizers -> {"none", "open", "closed"}]
        BY <1>1, <1>6 DEF TypeOK
    <2>2. sent' \in 0 .. DomainUnits - 1
        BY <1>1, UnitsAssumption, SMT
    <2> QED BY <1>1, <1>4, <2>1, <2>2 DEF TypeOK, reg
<1>9. LockHeld'
    BY <1>1, SMT DEF LockHeld
<1>10. OnePlace'
    <2>1. v \notin ToSet(backlog) /\ (regPc # "accept" => v # connectFD)
        BY <1>6, SMT DEF OnePlace, Listed, reg
    <2>2. \A w \in Visualizers : w # v => fd'[w] = fd[w]
        BY <1>1, <1>6 DEF TypeOK
    <2>3. ToSet(backlog) \subseteq Visualizers /\ ToSet(reg) \subseteq Visualizers
          /\ (regPc # "accept" => connectFD \in Visualizers)
        BY SMT DEF TypeOK, OnePlace, ToSet, reg
    <2> QED BY <1>1, <1>5, <2>1, <2>2, <2>3, SMT DEF OnePlace, Listed, reg
<1>11. NothingYet'
    BY <1>1, <1>6, SMT DEF NothingYet, Unsent, TypeOK
<1>12. UpToDate'
    <2>1. (sent > 0 => i <= Len(registeredVisualizers))'
        BY <1>1, SMT
    <2>2. ASSUME NEW p \in DOMAIN reg'
          PROVE  \E q \in DOMAIN reg : reg'[p] = reg[q] /\ Due(p)' = Due(q)
        <3>1. p \in Nat \ {0} /\ p <= Len(reg) - 1
            BY <1>2, <1>7, SMT
        <3>2. Due(p)' = frame * FrameUnits + dom * DomainUnits + (IF p < i THEN DomainUnits ELSE 0)
            BY <1>1, <3>1, Places, SMT DEF Due
        <3>3. CASE p < i
            <4>1. p \in DOMAIN reg /\ Due(p) = Due(p)'
                BY <1>1, <1>2, <3>1, <3>2, <3>3, SMT DEF Due
            <4>2. reg'[p] = reg[p]
                BY <1>4, <1>7, <3>3, Zenon DEF Without
            <4> QED BY <4>1, <4>2, Zenon
        <3>4. CASE ~(p < i)
            <4>1. p + 1 \in DOMAIN reg /\ p + 1 > i
                BY <1>2, <3>1, <3>4, SMT
            <4>2. Due(p + 1) = Due(p)'
                BY <1>1, <1>2, <3>1, <3>2, <3>4, <4>1, SMT DEF Due
            <4>3. reg'[p] = reg[p + 1]
                BY <1>4, <1>7, <3>4, Zenon DEF Without
            <4> QED BY <4>1, <4>2, <4>3, Zenon
        <3> QED BY <3>3, <3>4
    <2>3. ASSUME NEW p \in DOMAIN reg'
          PROVE  LET s == stream[reg'[p]]
                 IN  /\ s # <<>> => s[Len(s)] + 1 = Due(p)'
                     /\ s = <<>> => AtFrameStart(Due(p)')
        <3>1. PICK q \in DOMAIN reg : reg'[p] = reg[q] /\ Due(p)' = Due(q)
            BY <2>2
        <3> QED BY <3>1 DEF UpToDate, reg
    <2>4. UNCHANGED stream
        BY <1>1
    <2> QED BY <2>1, <2>3, <2>4, Zenon DEF UpToDate, AtFrameStart, reg
<1>13. Sequential'
    BY <1>1, SequentialKept
<1> QED BY <1>8, <1>9, <1>10, <1>11, <1>12, <1>13
-----------------------------------------------------------------------------
LEMMA ServerInvNext == ServerInv /\ [Next]_vars => ServerInv'
<1> SUFFICES ASSUME ServerInv, [Next]_vars PROVE ServerInv'
    OBVIOUS
<1>1. CASE MainStep
    BY <1>1, QuietKeeps, LockKeeps, SendKeeps, EraseKeeps, NextDomainKeeps DEF MainStep
<1>2. CASE RegistrationStep
    BY <1>2, AcceptKeeps, AnsweredKeeps, RegisterKeeps DEF RegistrationStep
<1>3. ASSUME NEW v \in Visualizers, VisualizerStep(v) PROVE ServerInv'
    BY <1>3, ConnectKeeps, VisualizerKeeps DEF VisualizerStep
<1>4. CASE UNCHANGED vars
    <2> USE <1>4 DEF ServerInv, vars, lists, main, registration, sockets
    <2>1. TypeOK' /\ LockHeld' /\ OnePlace' /\ NothingYet'
        BY DEF TypeOK, LockHeld, OnePlace, Listed, NothingYet, Unsent
    <2> QED BY <2>1, UpToDateKept, SequentialKept
<1> QED BY <1>1, <1>2, <1>3, <1>4 DEF Next

LEMMA Invariant == Spec => []ServerInv
BY ServerInvInit, ServerInvNext, PTL DEF Spec

(* Every variable keeps its type: the position in the list is a number,    *)
(* no domain is sent past its end, and no socket holds more than it has    *)
(* room for.                                                               *)
THEOREM TypeCorrect == Spec => []TypeOK
BY Invariant, PTL DEF ServerInv

LEMMA InvWholeFrames == ServerInv => WholeFrames
<1> SUFFICES ASSUME ServerInv, NEW v \in Visualizers, NEW k \in 1 .. Len(stream[v])
             PROVE  IF k = 1 THEN stream[v][k] % FrameUnits = 0
                             ELSE stream[v][k] = stream[v][k - 1] + 1
    BY DEF WholeFrames
<1>1. IF k = 1 THEN AtFrameStart(stream[v][k]) ELSE stream[v][k] = stream[v][k - 1] + 1
    BY DEF ServerInv, Sequential, InSequence
<1> QED BY <1>1, FrameStartRemainder

LEMMA InvNobodyLeftBehind == ServerInv => NobodyLeftBehind
<1> SUFFICES ASSUME ServerInv, mainPc = "running", NEW v \in Listed, stream[v] # <<>>
             PROVE  stream[v][Len(stream[v])] = (frame + 1) * FrameUnits - 1
    BY DEF NobodyLeftBehind, Listed, Last
<1>1. PICK p \in DOMAIN registeredVisualizers : registeredVisualizers[p] = v
    BY DEF Listed, ToSet
<1>2. stream[v][Len(stream[v])] + 1 = (frame + 1) * FrameUnits
    BY <1>1 DEF ServerInv, UpToDate, Due
<1>3. v \in Visualizers /\ stream[v] \in Seq(Nat)
    BY <1>1, Places, ElementOfSeq DEF ServerInv, TypeOK
<1>4. stream[v][Len(stream[v])] \in Nat
    <2>1. Len(stream[v]) \in 1 .. Len(stream[v])
        BY <1>3, EmptySeq, SMT
    <2> QED BY <1>3, <2>1, ElementOfSeq
<1> QED BY <1>2, <1>4, SMT

LEMMA InvListed == ServerInv => ListedAreOpen
BY NoFDAssumption, SMT DEF ServerInv, TypeOK, OnePlace, Listed, ListedAreOpen, ToSet

(* The data of every visualizer starts with the first domain of a frame    *)
(* and has no gap, for any number of visualizers that join and leave.      *)
THEOREM WholeFramesSafe == Spec => []WholeFrames
BY Invariant, InvWholeFrames, PTL

(* When the callback has returned, every visualizer in the list has the    *)
(* frame to its end or nothing at all.                                     *)
THEOREM NobodyLeftBehindSafe == Spec => []NobodyLeftBehind
BY Invariant, InvNobodyLeftBehind, PTL

(* The list has no connection twice, none that is closed, and none that    *)
(* the registration thread still has in hand.                              *)
THEOREM ListedOpen == Spec => []ListedAreOpen
BY Invariant, InvListed, PTL
=============================================================================
