--------------------------- MODULE MrvOracleProofs ---------------------------
(***************************************************************************)
(* Proofs about the MRV oracle, for any number of oracles and projects and *)
(* any cap of the history.  The history variable `accepted` remembers what *)
(* the contract forgets; the invariant says which part of it is kept.      *)
(***************************************************************************)
EXTENDS MrvOracle, SumsProofs, SequenceTheorems, FiniteSetTheorems, TLAPS

USE OracleAssumption, ClockAssumption, NoPointAssumption

-----------------------------------------------------------------------------
(* What a step does to the readings. *)

(* The contract accepts a point for project p.                              *)
Accepts(p, point) ==
  /\ p \in Project /\ point \in MrvDataPoint
  /\ point.anomaly = Anomaly(p, point.tonnes)
  /\ latest' = [latest EXCEPT ![p] = point]
  /\ history' = [history EXCEPT ![p] = Append(Kept(@), point)]
  /\ accepted' = [accepted EXCEPT ![p] = Append(@, point)]
  /\ ConsumeNonce(point.oracle)

LEMMA AnomalyIsBoolean ==
  ASSUME NEW p, NEW t
  PROVE  Anomaly(p, t) \in BOOLEAN
BY Zenon DEF Anomaly

LEMMA UpdateAccepts ==
  ASSUME TypeOK, NEW o \in OracleKeys, NEW p \in Project, NEW t \in Reading,
         NEW at \in 0 .. MaxTime, UpdateMrvData(o, p, t, at)
  PROVE  \E point : Accepts(p, point)
<1> PICK point : point = [oracle |-> o, tonnes |-> t, recorded_at |-> at, anomaly |-> Anomaly(p, t)]
  OBVIOUS
<1>1. t \in I128
  OBVIOUS
<1>2. point \in MrvDataPoint
  BY <1>1, AnomalyIsBoolean DEF MrvDataPoint
<1>3. point.oracle = o /\ point.tonnes = t /\ point.anomaly = Anomaly(p, t)
  OBVIOUS
<1>4. /\ latest' = [latest EXCEPT ![p] = point]
      /\ history' = [history EXCEPT ![p] = Append(Kept(@), point)]
      /\ accepted' = [accepted EXCEPT ![p] = Append(@, point)]
      /\ ConsumeNonce(o)
  BY DEF UpdateMrvData
<1> QED BY <1>2, <1>3, <1>4 DEF Accepts

LEMMA ReadingCases ==
  ASSUME TypeOK, [Next]_vars
  PROVE  UNCHANGED readingVars \/ \E p, point : Accepts(p, point)
<1>1. CASE \E o \in OracleKeys, p \in Project, t \in Reading, at \in 0 .. MaxTime :
             UpdateMrvData(o, p, t, at)
  BY <1>1, UpdateAccepts
<1>2. CASE UNCHANGED vars
  BY <1>2 DEF vars
<1> QED BY <1>1, <1>2 DEF Next, CloseLedger, RegistryListsProject, Initialize, SetPaused,
                          AcceptAdmin, ProposeAdmin, RegisterOracle

-----------------------------------------------------------------------------
(* Types. *)

LEMMA KeptType ==
  ASSUME NEW S, NEW h \in Seq(S), Len(h) <= MaxHistory
  PROVE  /\ Kept(h) \in Seq(S)
         /\ Len(Kept(h)) < MaxHistory /\ Len(Kept(h)) \in {Len(h), Len(h) - 1}
         /\ \A i \in 1 .. Len(Kept(h)) : Kept(h)[i] = h[Len(h) - Len(Kept(h)) + i]
         /\ Len(h) < MaxHistory => Kept(h) = h
<1>0. Len(h) \in Nat /\ MaxHistory \in Nat \ {0}
  OBVIOUS
<1>1. CASE Len(h) < MaxHistory
  <2>1. Kept(h) = h
    BY <1>0, <1>1 DEF Kept
  <2>2. \A i \in 1 .. Len(h) : h[i] = h[Len(h) - Len(h) + i]
    BY <1>0
  <2> QED BY <1>0, <1>1, <2>1, <2>2
<1>2. CASE Len(h) = MaxHistory
  <2>1. h # << >> /\ Kept(h) = Tail(h)
    BY <1>0, <1>2 DEF Kept
  <2>2. /\ Tail(h) \in Seq(S) /\ Len(Tail(h)) = Len(h) - 1
        /\ \A i \in 1 .. Len(Tail(h)) : Tail(h)[i] = h[i + 1]
    BY <2>1, HeadTailProperties
  <2>3. \A i \in 1 .. Len(Tail(h)) : Tail(h)[i] = h[Len(h) - Len(Tail(h)) + i]
    BY <1>0, <2>2
  <2> QED BY <1>0, <1>2, <2>1, <2>2, <2>3
<1>3. Len(h) < MaxHistory \/ Len(h) = MaxHistory
  BY <1>0
<1> QED BY <1>1, <1>2, <1>3

LEMMA ControlType ==
  ASSUME TypeOK, [Next]_vars
  PROVE  /\ now' \in 0 .. MaxTime
         /\ listed' \subseteq Project
         /\ admin' \in AdminKeys \cup {None}
         /\ pendingAdmin' \in AdminKeys \cup {None}
         /\ paused' \in BOOLEAN
         /\ oracles' \subseteq OracleKeys
<1>1. CASE UNCHANGED vars
  BY <1>1 DEF TypeOK, vars, controlVars
<1>2. CASE CloseLedger
  BY <1>2 DEF TypeOK, CloseLedger, LedgerCloses, controlVars
<1>3. ASSUME NEW p \in Project, RegistryListsProject(p)
      PROVE  now' = now /\ listed' = listed \cup {p} /\ UNCHANGED controlVars
  BY <1>3 DEF RegistryListsProject
<1>4. ASSUME NEW a \in AdminKeys,
             Initialize(a) \/ SetPaused(a, TRUE) \/ SetPaused(a, FALSE) \/ AcceptAdmin(a)
      PROVE  /\ UNCHANGED <<now, listed, oracles>>
             /\ admin' \in AdminKeys \cup {None} /\ pendingAdmin' \in AdminKeys \cup {None}
             /\ paused' \in BOOLEAN
  BY <1>4 DEF TypeOK, Initialize, SetPaused, AcceptAdmin
<1>5. ASSUME NEW a \in AdminKeys, NEW candidate \in AdminKeys, ProposeAdmin(a, candidate)
      PROVE  UNCHANGED <<now, listed, admin, paused, oracles>> /\ pendingAdmin' = candidate
  BY <1>5 DEF ProposeAdmin
<1>6. ASSUME NEW a \in AdminKeys, NEW o \in OracleKeys, RegisterOracle(a, o)
      PROVE  UNCHANGED <<now, listed, admin, pendingAdmin, paused>> /\ oracles' = oracles \cup {o}
  BY <1>6 DEF RegisterOracle
<1>7. ASSUME NEW o \in OracleKeys, NEW p \in Project, NEW t \in Reading, NEW at \in 0 .. MaxTime,
             UpdateMrvData(o, p, t, at)
      PROVE  UNCHANGED <<now, listed, controlVars>>
  BY <1>7 DEF UpdateMrvData
<1> QED BY <1>1, <1>2, <1>3, <1>4, <1>5, <1>6, <1>7 DEF Next, TypeOK, controlVars

LEMMA ReadingType ==
  ASSUME TypeOK, NEW p, NEW point, Accepts(p, point)
  PROVE  /\ nonce' \in [OracleKeys -> Nat]
         /\ latest' \in [Project -> MrvDataPoint \cup {None}]
         /\ history' \in [Project -> Seq(MrvDataPoint)]
         /\ accepted' \in [Project -> Seq(MrvDataPoint)]
         /\ \A q \in Project : Len(history'[q]) <= MaxHistory
<1>1. p \in Project /\ point \in MrvDataPoint /\ point.oracle \in OracleKeys
  BY DEF Accepts, MrvDataPoint
<1>2. nonce' \in [OracleKeys -> Nat] /\ latest' \in [Project -> MrvDataPoint \cup {None}]
  BY <1>1 DEF Accepts, ConsumeNonce, TypeOK
<1>3. accepted' \in [Project -> Seq(MrvDataPoint)]
  BY <1>1 DEF Accepts, TypeOK
<1>4. /\ Kept(history[p]) \in Seq(MrvDataPoint)
      /\ Len(Kept(history[p])) < MaxHistory
  BY <1>1, KeptType DEF TypeOK
<1>5. /\ Append(Kept(history[p]), point) \in Seq(MrvDataPoint)
      /\ Len(Append(Kept(history[p]), point)) <= MaxHistory
  BY <1>1, <1>4
<1> QED BY <1>1, <1>2, <1>3, <1>5 DEF Accepts, TypeOK

LEMMA NextType ==
  ASSUME TypeOK, [Next]_vars
  PROVE  TypeOK'
<1>1. CASE UNCHANGED readingVars
  BY <1>1, ControlType DEF TypeOK, readingVars
<1>2. CASE \E p, point : Accepts(p, point)
  BY <1>2, ControlType, ReadingType DEF TypeOK
<1> QED BY <1>1, <1>2, ReadingCases

LEMMA InitType == Init => TypeOK
<1> SUFFICES ASSUME Init PROVE TypeOK
  OBVIOUS
<1>1. admin \in AdminKeys \cup {None} /\ pendingAdmin \in AdminKeys \cup {None}
      /\ paused \in BOOLEAN /\ listed \subseteq Project /\ oracles \subseteq OracleKeys
  BY Zenon DEF Init
<1>2. << >> \in Seq(MrvDataPoint) /\ Len(<< >>) = 0
  OBVIOUS
<1>3. /\ now \in 0 .. MaxTime /\ nonce \in [OracleKeys -> Nat]
      /\ latest \in [Project -> MrvDataPoint \cup {None}]
      /\ history \in [Project -> Seq(MrvDataPoint)]
      /\ accepted \in [Project -> Seq(MrvDataPoint)]
      /\ \A p \in Project : Len(history[p]) <= MaxHistory
  BY <1>2 DEF Init
<1> QED BY <1>1, <1>3 DEF TypeOK

(* Every variable keeps its type and no history outgrows MAX_HISTORY,       *)
(* whatever the cap is.                                                     *)
THEOREM OracleTypeCorrect == Spec => []TypeOK
BY InitType, NextType, PTL DEF Spec

-----------------------------------------------------------------------------
(* The history is a window on what was accepted. *)

(* h is the end of a, and all of it while there is room.                    *)
Window(h, a) ==
  /\ Len(h) <= Len(a)
  /\ \A i \in 1 .. Len(h) : h[i] = a[Len(a) - Len(h) + i]
  /\ Len(h) < MaxHistory => h = a

WindowInv ==
  \A p \in Project :
    /\ Window(history[p], accepted[p])
    /\ history[p] = << >> => latest[p] = None
    /\ history[p] # << >> => latest[p] = history[p][Len(history[p])]

LEMMA WindowMoves ==
  ASSUME NEW S, NEW h \in Seq(S), NEW a \in Seq(S), NEW x \in S,
         Len(h) <= MaxHistory, Window(h, a)
  PROVE  Window(Append(Kept(h), x), Append(a, x))
<1> DEFINE k == Kept(h)
           l == Append(k, x)
           b == Append(a, x)
<1>1. /\ k \in Seq(S) /\ Len(k) < MaxHistory /\ Len(k) \in {Len(h), Len(h) - 1}
      /\ \A i \in 1 .. Len(k) : k[i] = h[Len(h) - Len(k) + i]
      /\ Len(h) < MaxHistory => k = h
  BY KeptType
<1> HIDE DEF k
<1>2. /\ Len(l) = Len(k) + 1 /\ Len(b) = Len(a) + 1
      /\ l[Len(k) + 1] = x /\ b[Len(a) + 1] = x
      /\ \A i \in 1 .. Len(k) : l[i] = k[i]
      /\ \A i \in 1 .. Len(a) : b[i] = a[i]
      /\ Len(k) \in Nat /\ Len(a) \in Nat /\ Len(h) \in Nat
      /\ l \in Seq(S) /\ b \in Seq(S)
  BY <1>1
<1>3. Len(l) < MaxHistory => l = b
  BY <1>1, <1>2 DEF Window
<1> HIDE DEF l, b
<1>4. ASSUME NEW i \in 1 .. Len(l)
      PROVE  l[i] = b[Len(b) - Len(l) + i]
  <2>1. CASE i = Len(l)
    BY <1>2, <2>1
  <2>2. CASE i # Len(l)
    <3>1. i \in 1 .. Len(k) /\ l[i] = k[i] /\ k[i] = h[Len(h) - Len(k) + i]
      BY <1>1, <1>2, <2>2
    <3>2. Len(h) - Len(k) + i \in 1 .. Len(h)
      BY <1>1, <1>2, <3>1
    <3>3. h[Len(h) - Len(k) + i] = a[Len(a) - Len(k) + i] /\ Len(a) - Len(k) + i \in 1 .. Len(a)
      BY <1>2, <3>1, <3>2 DEF Window
    <3> QED BY <1>2, <3>1, <3>3
  <2> QED BY <2>1, <2>2
<1>5. Len(l) <= Len(b)
  BY <1>1, <1>2 DEF Window
<1> QED BY <1>3, <1>4, <1>5 DEF Window, l, b, k

LEMMA WindowStep ==
  ASSUME TypeOK, WindowInv, [Next]_vars
  PROVE  WindowInv'
<1>1. CASE UNCHANGED readingVars
  BY <1>1 DEF WindowInv, readingVars
<1>2. ASSUME NEW p, NEW point, Accepts(p, point)
      PROVE  WindowInv'
  <2>1. /\ p \in Project /\ point \in MrvDataPoint
        /\ latest' = [latest EXCEPT ![p] = point]
        /\ history' = [history EXCEPT ![p] = Append(Kept(history[p]), point)]
        /\ accepted' = [accepted EXCEPT ![p] = Append(accepted[p], point)]
    BY <1>2 DEF Accepts
  <2>2. /\ Window(Append(Kept(history[p]), point), Append(accepted[p], point))
        /\ Kept(history[p]) \in Seq(MrvDataPoint)
    BY <2>1, WindowMoves, KeptType DEF TypeOK, WindowInv
  <2>3. ASSUME NEW q \in Project
        PROVE  /\ Window(history'[q], accepted'[q])
               /\ history'[q] = << >> => latest'[q] = None
               /\ history'[q] # << >> => latest'[q] = history'[q][Len(history'[q])]
    <3>1. CASE q = p
      <4>1. history'[q] = Append(Kept(history[p]), point) /\ latest'[q] = point
            /\ accepted'[q] = Append(accepted[p], point)
        BY <2>1, <3>1 DEF TypeOK
      <4>2. Append(Kept(history[p]), point) # << >>
            /\ Len(Append(Kept(history[p]), point)) = Len(Kept(history[p])) + 1
            /\ Append(Kept(history[p]), point)[Len(Kept(history[p])) + 1] = point
        BY <2>2
      <4> QED BY <2>2, <4>1, <4>2
    <3>2. CASE q # p
      BY <2>1, <3>2 DEF TypeOK, WindowInv
    <3> QED BY <3>1, <3>2
  <2> QED BY <2>3 DEF WindowInv
<1> QED BY <1>1, <1>2, ReadingCases

LEMMA WindowAlways == Spec => [](TypeOK /\ WindowInv)
<1>1. Init => WindowInv
  BY DEF Init, WindowInv, Window
<1>2. TypeOK /\ WindowInv /\ [Next]_vars => WindowInv'
  BY WindowStep
<1> QED BY <1>1, <1>2, OracleTypeCorrect, PTL DEF Spec

LEMMA WindowIsSuffix ==
  ASSUME NEW S, NEW h \in Seq(S), NEW a \in Seq(S), Window(h, a)
  PROVE  IsSuffix(h, a)
<1> DEFINE rh == Reverse(h)
           ra == Reverse(a)
<1>1. /\ rh = [i \in 1 .. Len(h) |-> h[(Len(h) - i) + 1]]
      /\ ra = [i \in 1 .. Len(a) |-> a[(Len(a) - i) + 1]]
  BY DEF Reverse
<1>2. /\ rh \in Seq(S) /\ ra \in Seq(S) /\ Len(rh) = Len(h) /\ Len(ra) = Len(a)
      /\ Len(h) \in Nat /\ Len(a) \in Nat /\ Len(h) <= Len(a)
  <2>1. Len(h) \in Nat /\ Len(a) \in Nat /\ Len(h) <= Len(a)
    BY DEF Window
  <2>2. /\ \A i \in 1 .. Len(h) : (Len(h) - i) + 1 \in 1 .. Len(h)
        /\ \A i \in 1 .. Len(a) : (Len(a) - i) + 1 \in 1 .. Len(a)
    BY <2>1
  <2>3. /\ \A i \in 1 .. Len(h) : h[(Len(h) - i) + 1] \in S
        /\ \A i \in 1 .. Len(a) : a[(Len(a) - i) + 1] \in S
    BY <2>2
  <2>4. rh \in Seq(S) /\ Len(rh) = Len(h)
    BY <1>1, <2>1, <2>3
  <2>5. ra \in Seq(S) /\ Len(ra) = Len(a)
    BY <1>1, <2>1, <2>3
  <2> QED BY <2>1, <2>4, <2>5
<1>3. ASSUME NEW i \in 1 .. Len(h) PROVE rh[i] = ra[i]
  <2>1. (Len(h) - i) + 1 \in 1 .. Len(h) /\ i \in 1 .. Len(a)
    BY <1>2
  <2>2. Len(a) - Len(h) + ((Len(h) - i) + 1) = (Len(a) - i) + 1
    BY <1>2
  <2>3. h[(Len(h) - i) + 1] = a[(Len(a) - i) + 1]
    BY <2>1, <2>2 DEF Window
  <2> QED BY <1>1, <2>1, <2>3
<1> HIDE DEF rh, ra
<1>4. SubSeq(rh, 1, Len(rh)) = SubSeq(ra, 1, Len(rh))
  BY <1>2, <1>3
<1> QED BY <1>2, <1>4 DEF IsSuffix, IsPrefix, rh, ra

(* Eviction loses the oldest readings only: what is kept is the end of what *)
(* was accepted, in order, and Latest is its last entry.                    *)
THEOREM HistoryIsTheWindow == Spec => []HistoryIsRecentWindow
<1>1. ASSUME TypeOK, WindowInv, NEW p \in Project
      PROVE  /\ IsSuffix(history[p], accepted[p])
             /\ Len(history[p]) < MaxHistory => history[p] = accepted[p]
             /\ IF history[p] = << >> THEN latest[p] = None ELSE latest[p] = Last(history[p])
  BY <1>1, WindowIsSuffix DEF TypeOK, WindowInv, Window, Last
<1>2. TypeOK /\ WindowInv => HistoryIsRecentWindow
  BY <1>1 DEF HistoryIsRecentWindow
<1> QED BY <1>2, WindowAlways, PTL

-----------------------------------------------------------------------------
(* Flags. *)

LEMMA LatestIsLastAccepted ==
  ASSUME TypeOK, WindowInv, NEW p \in Project
  PROVE  /\ latest[p] = None <=> accepted[p] = << >>
         /\ accepted[p] # << >> => latest[p] = accepted[p][Len(accepted[p])]
<1> DEFINE h == history[p]
           a == accepted[p]
<1>1. /\ h \in Seq(MrvDataPoint) /\ a \in Seq(MrvDataPoint) /\ Window(h, a)
      /\ h = << >> => latest[p] = None
      /\ h # << >> => latest[p] = h[Len(h)]
  BY DEF TypeOK, WindowInv
<1> HIDE DEF h, a
<1>2. h = << >> <=> a = << >>
  BY <1>1 DEF Window
<1>3. h # << >> => h[Len(h)] = a[Len(a)] /\ a[Len(a)] \in MrvDataPoint
  BY <1>1 DEF Window
<1> QED BY <1>1, <1>2, <1>3 DEF h, a

(* A fifth of the previous reading, in integers and on the number line.     *)
LEMMA DeviationIsAFifth ==
  ASSUME NEW x \in Int, NEW y \in Int
  PROVE  Deviates(x, y) <=> \/ 100 * y > 100 * x + 20 * Abs(x)
                            \/ 100 * y < 100 * x - 20 * Abs(x)
BY DEF Deviates, Abs

LEMMA FlagsStep ==
  ASSUME TypeOK, WindowInv, FlagsCompareNeighbours, [Next]_vars
  PROVE  FlagsCompareNeighbours'
<1>1. CASE UNCHANGED readingVars
  BY <1>1 DEF FlagsCompareNeighbours, readingVars
<1>2. ASSUME NEW p, NEW point, Accepts(p, point)
      PROVE  FlagsCompareNeighbours'
  <2>1. /\ p \in Project /\ point \in MrvDataPoint
        /\ accepted' = [accepted EXCEPT ![p] = Append(accepted[p], point)]
        /\ accepted \in [Project -> Seq(MrvDataPoint)]
        /\ point.anomaly <=> Anomaly(p, point.tonnes)
    BY <1>2, AnomalyIsBoolean DEF Accepts, TypeOK
  <2> DEFINE Flagged(before, after) ==
               after.anomaly <=>
                 /\ before.tonnes # 0
                 /\ \/ 100 * after.tonnes > 100 * before.tonnes + 20 * Abs(before.tonnes)
                    \/ 100 * after.tonnes < 100 * before.tonnes - 20 * Abs(before.tonnes)
  <2>2. ASSUME NEW q \in Project, NEW i \in 1 .. Len(accepted'[q]) - 1
        PROVE  Flagged(accepted'[q][i], accepted'[q][i + 1])
    <3>1. CASE q # p
      BY <2>1, <3>1 DEF FlagsCompareNeighbours
    <3>2. CASE q = p
      <4> DEFINE a == accepted[p]
      <4>1. /\ a \in Seq(MrvDataPoint) /\ accepted'[q] = Append(a, point) /\ Len(a) \in Nat
            /\ i \in 1 .. Len(a)
        BY <2>1, <3>2
      <4>2. CASE i < Len(a)
        <5>1. accepted'[q][i] = a[i] /\ accepted'[q][i + 1] = a[i + 1] /\ i \in 1 .. Len(a) - 1
          BY <4>1, <4>2
        <5> QED BY <2>1, <5>1 DEF FlagsCompareNeighbours
      <4>3. CASE i = Len(a)
        <5>1. /\ accepted'[q][i] = a[Len(a)] /\ accepted'[q][i + 1] = point
              /\ a # << >> /\ a[Len(a)] \in MrvDataPoint
          BY <4>1, <4>3
        <5>2. latest[p] = a[Len(a)] /\ latest[p] # None
          BY <2>1, <5>1, LatestIsLastAccepted
        <5>3. a[Len(a)].tonnes \in Int /\ point.tonnes \in Int
          BY <2>1, <5>1 DEF MrvDataPoint, I128
        <5>4. Anomaly(p, point.tonnes) <=>
                a[Len(a)].tonnes # 0 /\ Deviates(a[Len(a)].tonnes, point.tonnes)
          BY <5>2 DEF Anomaly, Comparable
        <5>5. point.anomaly <=>
                /\ a[Len(a)].tonnes # 0
                /\ \/ 100 * point.tonnes > 100 * a[Len(a)].tonnes + 20 * Abs(a[Len(a)].tonnes)
                   \/ 100 * point.tonnes < 100 * a[Len(a)].tonnes - 20 * Abs(a[Len(a)].tonnes)
          BY <2>1, <5>3, <5>4, DeviationIsAFifth
        <5> QED BY <5>1, <5>5
      <4> QED BY <4>1, <4>2, <4>3
    <3> QED BY <3>1, <3>2
  <2> QED BY <2>2 DEF FlagsCompareNeighbours
<1> QED BY <1>1, <1>2, ReadingCases

(* A reading is flagged exactly when it lies more than a fifth from the     *)
(* reading accepted just before it for the project, whoever sent that.      *)
THEOREM FlagsAreRight == Spec => []FlagsCompareNeighbours
<1>1. Init => FlagsCompareNeighbours
  BY DEF Init, FlagsCompareNeighbours
<1>2. TypeOK /\ WindowInv /\ FlagsCompareNeighbours /\ [Next]_vars => FlagsCompareNeighbours'
  BY FlagsStep
<1> QED BY <1>1, <1>2, WindowAlways, PTL DEF Spec

-----------------------------------------------------------------------------
(* Nonces. *)

(* The readings of an oracle over all projects, as its nonce counts them.   *)
Counted(o) == UNION {{p} \X ReadingsOf(o, p) : p \in Project}

NonceInv ==
  \A o \in OracleKeys : IsFiniteSet(Counted(o)) /\ nonce[o] = Cardinality(Counted(o))

LEMMA NonceStep ==
  ASSUME TypeOK, NonceInv, [Next]_vars
  PROVE  NonceInv'
<1>1. CASE UNCHANGED readingVars
  BY <1>1 DEF NonceInv, Counted, ReadingsOf, readingVars
<1>2. ASSUME NEW p, NEW point, Accepts(p, point)
      PROVE  NonceInv'
  <2> PICK n : n = Len(accepted[p]) + 1
    OBVIOUS
  <2>0. /\ p \in Project /\ point \in MrvDataPoint /\ point.oracle \in OracleKeys
        /\ accepted \in [Project -> Seq(MrvDataPoint)]
        /\ accepted' = [accepted EXCEPT ![p] = Append(accepted[p], point)]
    BY <1>2 DEF Accepts, MrvDataPoint, TypeOK
  <2>1. /\ p \in Project /\ point.oracle \in OracleKeys
        /\ accepted[p] \in Seq(MrvDataPoint) /\ n \in Nat /\ n \notin DOMAIN accepted[p]
        /\ DOMAIN accepted'[p] = DOMAIN accepted[p] \cup {n}
        /\ accepted'[p][n] = point
        /\ \A i \in DOMAIN accepted[p] : accepted'[p][i] = accepted[p][i]
        /\ \A q \in Project : q # p => accepted'[q] = accepted[q]
    <3>1. accepted'[p] = Append(accepted[p], point) /\ accepted[p] \in Seq(MrvDataPoint)
      BY <2>0
    <3>2. Len(accepted[p]) \in Nat /\ DOMAIN accepted[p] = 1 .. Len(accepted[p])
      BY <3>1
    <3>3. /\ DOMAIN accepted'[p] = 1 .. Len(accepted[p]) + 1
          /\ accepted'[p][Len(accepted[p]) + 1] = point
          /\ \A i \in 1 .. Len(accepted[p]) : accepted'[p][i] = accepted[p][i]
      BY <2>0, <3>1, AppendProperties
    <3> QED BY <2>0, <3>2, <3>3
  <2>2. nonce' = [nonce EXCEPT ![point.oracle] = nonce[point.oracle] + 1]
    BY <1>2 DEF Accepts, ConsumeNonce
  <2>3. ASSUME NEW o \in OracleKeys
        PROVE  IsFiniteSet(Counted(o)') /\ nonce'[o] = Cardinality(Counted(o)')
    <3>1. CASE o = point.oracle
      <4>1. /\ ReadingsOf(o, p)' = ReadingsOf(o, p) \cup {n} /\ n \notin ReadingsOf(o, p)
            /\ \A q \in Project : q # p => ReadingsOf(o, q)' = ReadingsOf(o, q)
        BY <2>1, <3>1 DEF ReadingsOf
      <4>2. Counted(o)' = Counted(o) \cup {<<p, n>>} /\ <<p, n>> \notin Counted(o)
        BY <2>1, <4>1 DEF Counted
      <4>3. IsFiniteSet(Counted(o)') /\ Cardinality(Counted(o)') = Cardinality(Counted(o)) + 1
        BY <4>2, FS_AddElement DEF NonceInv
      <4>4. nonce'[o] = nonce[o] + 1
        BY <2>2, <3>1 DEF TypeOK
      <4> QED BY <4>3, <4>4 DEF NonceInv
    <3>2. CASE o # point.oracle
      <4>1. \A q \in Project : ReadingsOf(o, q)' = ReadingsOf(o, q)
        BY <2>1, <3>2 DEF ReadingsOf
      <4>2. Counted(o)' = Counted(o)
        BY <4>1 DEF Counted
      <4>3. nonce'[o] = nonce[o]
        BY <2>2, <3>2 DEF TypeOK
      <4> QED BY <4>2, <4>3 DEF NonceInv
    <3> QED BY <3>1, <3>2
  <2> QED BY <2>3 DEF NonceInv
<1> QED BY <1>1, <1>2, ReadingCases

(* No reading is applied twice, and none without a nonce: an oracle's nonce *)
(* is the number of its accepted readings, over any number of projects.     *)
THEOREM ReadingsCountOnce == Spec => []OneNoncePerReading
<1>1. Init => NonceInv
  <2>1. ASSUME Init, NEW o \in OracleKeys PROVE Counted(o) = {} /\ nonce[o] = 0
    BY <2>1 DEF Init, Counted, ReadingsOf
  <2> QED BY <2>1, FS_EmptySet DEF NonceInv
<1>2. TypeOK /\ NonceInv /\ [Next]_vars => NonceInv'
  BY NonceStep
<1>3. NonceInv => OneNoncePerReading
  BY DEF NonceInv, OneNoncePerReading, Counted
<1> QED BY <1>1, <1>2, <1>3, OracleTypeCorrect, PTL DEF Spec

-----------------------------------------------------------------------------
(* The mean of a period. *)

(* Rounding towards zero moves a quotient by less than one.                 *)
LEMMA QuotientIsWithinOne ==
  ASSUME NEW x \in Int, NEW n \in Nat \ {0}
  PROVE  /\ TruncatedQuotient(x, n) \in Int
         /\ (TruncatedQuotient(x, n) - 1) * n < x
         /\ x < (TruncatedQuotient(x, n) + 1) * n
<1> DEFINE q == TruncatedQuotient(x, n)
<1>1. CASE x >= 0
  <2>1. q = x \div n
    BY <1>1 DEF TruncatedQuotient
  <2>2. q \in Nat /\ q * n <= x /\ x < (q + 1) * n
    BY <1>1, <2>1
  <2>3. (q - 1) * n = q * n - n
    BY <2>2
  <2> QED BY <2>2, <2>3
<1>2. CASE x < 0
  <2> DEFINE d == (-x) \div n
  <2>1. q = -d
    BY <1>2 DEF TruncatedQuotient
  <2>2. d \in Nat /\ d * n <= -x /\ -x < (d + 1) * n
    BY <1>2
  <2>3. /\ (-d - 1) * n = -((d + 1) * n)
        /\ (-d + 1) * n = -(d * n) + n
    BY <2>2
  <2>4. d * n \in Int /\ (d + 1) * n \in Int
    BY <2>2
  <2>5. q \in Int /\ (q - 1) * n < x /\ x < (q + 1) * n
    <3> HIDE DEF d, q
    <3> QED BY <2>1, <2>2, <2>3, <2>4
  <2> QED BY <2>5
<1> QED BY <1>1, <1>2

LEMMA MeanIsWithin ==
  ASSUME TypeOK, NEW p \in Project, NEW period, period \subseteq DOMAIN history[p],
         period # {}
  PROVE  /\ \E i \in period : history[p][i].tonnes <= MeanOf(p, period)
         /\ \E i \in period : MeanOf(p, period) <= history[p][i].tonnes
<1> DEFINE n == Len(history[p])
           f == CountedIn(p, period)
           count == Cardinality(period)
           mean == MeanOf(p, period)
<1>1. n \in Nat /\ DOMAIN history[p] = 1 .. n /\ history[p] \in Seq(MrvDataPoint)
  BY DEF TypeOK
<1>2. \A i \in 1 .. n : history[p][i].tonnes \in Int
  <2>1. \A i \in 1 .. n : history[p][i] \in MrvDataPoint
    BY <1>1
  <2>2. I128 \subseteq Int
    BY DEF I128
  <2> QED BY <2>1, <2>2 DEF MrvDataPoint
<1>3. \A i \in 1 .. n : /\ f[i] \in Int
                        /\ f[i] = IF i \in period THEN history[p][i].tonnes ELSE 0
  BY <1>1, <1>2 DEF CountedIn
<1>4. SumTo(f, n) \in Int
  BY <1>1, <1>3, SumIsInt
<1>5. period \subseteq 1 .. n
  BY <1>1
<1>6. count \in Nat \ {0}
  <2>1. IsFiniteSet(1 .. n)
    BY <1>1, FS_Interval
  <2>2. IsFiniteSet(period)
    BY <1>5, <2>1, FS_Subset
  <2> QED BY <2>2, FS_CardinalityType, FS_EmptySet
<1>7. mean = TruncatedQuotient(SumTo(f, n), count)
  BY DEF MeanOf, SumOf, CountIn
<1>8. mean \in Int /\ (mean - 1) * count < SumTo(f, n) /\ SumTo(f, n) < (mean + 1) * count
  BY <1>4, <1>6, <1>7, QuotientIsWithinOne
<1> HIDE DEF n, f, count, mean
<1>9. mean - 1 \in Int /\ mean + 1 \in Int /\ \A i \in 1 .. n : f[i] \in Int
  BY <1>3, <1>8
<1>10. \E i \in period : mean <= history[p][i].tonnes
  <2> SUFFICES ASSUME \A i \in period : ~(mean <= history[p][i].tonnes) PROVE FALSE
    OBVIOUS
  <2>1. \A i \in 1 .. n : IF i \in period THEN f[i] <= mean - 1 ELSE f[i] = 0
    BY <1>2, <1>3, <1>8
  <2>2. SumTo(f, n) <= (mean - 1) * count
    BY <1>1, <1>5, <1>9, <2>1, SumOverSetAtMost, Zenon DEF count
  <2>3. (mean - 1) * count \in Int
    BY <1>6, <1>8
  <2> QED BY <1>4, <1>8, <2>2, <2>3
<1>11. \E i \in period : history[p][i].tonnes <= mean
  <2> SUFFICES ASSUME \A i \in period : ~(history[p][i].tonnes <= mean) PROVE FALSE
    OBVIOUS
  <2>1. \A i \in 1 .. n : IF i \in period THEN mean + 1 <= f[i] ELSE f[i] = 0
    BY <1>2, <1>3, <1>8
  <2>2. (mean + 1) * count <= SumTo(f, n)
    BY <1>1, <1>5, <1>9, <2>1, SumOverSetAtLeast DEF count
  <2>3. (mean + 1) * count \in Int
    BY <1>6, <1>8
  <2> QED BY <1>4, <1>8, <2>2, <2>3
<1> QED BY <1>10, <1>11 DEF mean

(* The mean of any period lies between two of its readings, however many    *)
(* readings the history keeps and whichever sign they have.                 *)
THEOREM MeanStaysWithinPeriod == Spec => []MeanWithinPeriod
<1>1. TypeOK => MeanWithinPeriod
  <2> SUFFICES ASSUME TypeOK, NEW p \in Project, NEW from \in 0 .. MaxTime, NEW to \in 0 .. MaxTime,
                      InPeriod(p, from, to) # {}
               PROVE  LET mean == MeanOf(p, InPeriod(p, from, to))
                      IN  /\ \E i \in InPeriod(p, from, to) : history[p][i].tonnes <= mean
                          /\ \E i \in InPeriod(p, from, to) : mean <= history[p][i].tonnes
    BY Zenon DEF MeanWithinPeriod
  <2>1. InPeriod(p, from, to) \subseteq DOMAIN history[p]
    BY DEF InPeriod
  <2> QED BY <2>1, MeanIsWithin
<1> QED BY <1>1, OracleTypeCorrect, PTL
=============================================================================
