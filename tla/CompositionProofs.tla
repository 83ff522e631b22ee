------------------------- MODULE CompositionProofs -------------------------
(***************************************************************************)
(* Proofs about what is built on the credit registry: the retirement       *)
(* contract, the sessions with the audit log, and the marketplace.  Each   *)
(* composition takes steps of the registry only, so that the registry's    *)
(* theorems hold of it; each part begins with that and goes on to the      *)
(* properties of what it adds.                                             *)
(***************************************************************************)
EXTENDS Retirement, RegistrySessions, Marketplace, CreditRegistryProofs

USE AddressAssumption, ThresholdAssumption, NonceBoundAssumption,
    CreditBoundAssumption, TonnesAssumption, YearAssumption,
    RecipientAssumption, MergeAssumption, NoneAssumption
    DEF CreditId

(*****************************************************************************)
(* Retirement.  The composition implements CreditRegistry's specification, *)
(* so whatever is proved of the registry holds of it too; on top of that   *)
(* come the properties of the retirement records.                          *)
(*****************************************************************************)
USE RetirementAddressAssumption, BatchAssumption, RetNonceBoundAssumption,
    NoRecordAssumption

-----------------------------------------------------------------------------
(* What a step of the composition is. *)

(* A call of the retirement contract that files the retirements of a list.  *)
Files(b, filed, tonnes) ==
  /\ b \in Address
  /\ filed \in Seq(RetirementId) /\ tonnes \in Seq(Int)
  /\ Len(filed) = Len(tonnes)
  /\ \A i \in DOMAIN tonnes : tonnes[i] > 0
  /\ \A i, j \in DOMAIN filed : filed[i][1] = filed[j][1] => i = j
  /\ \A i \in DOMAIN filed :
       status[filed[i][1]] = "Active" /\ status'[filed[i][1]] = "Retired"
  /\ \A c \in CreditId : status'[c] # status[c] =>
       \E i \in DOMAIN filed : filed[i][1] = c
  /\ ~retPaused
  /\ filed # << >> => ~paused
  /\ FileRecords(b, filed, tonnes)
  /\ ConsumeRetNonce(b)
  /\ UNCHANGED retControlVars

LEMMA MarksRetiredIsNext ==
  ASSUME NEW C \in SUBSET CreditId, RegistryMarksRetired(C)
  PROVE  [Next]_vars
<1>1. RetirementContractMarksRetired(C)
  BY DEF RegistryMarksRetired, RetirementContractMarksRetired
<1> QED BY <1>1 DEF Next

LEMMA RetireFiles ==
  ASSUME TypeOK, NEW b \in Account, NEW c \in CreditId, NEW t \in RetiredTonnesArg,
         Retire(b, c, t)
  PROVE  Files(b, << <<c, 0>> >>, <<t>>) /\ [Next]_vars
<1> DEFINE filed == << <<c, 0>> >>
<1>1. /\ filed \in Seq(RetirementId) /\ Len(filed) = 1 /\ DOMAIN filed = {1}
      /\ filed[1] = <<c, 0>> /\ filed[1][1] = c
  BY DEF RetirementId
<1>2. <<t>> \in Seq(Int) /\ Len(<<t>>) = 1 /\ DOMAIN <<t>> = {1} /\ <<t>>[1] = t
  OBVIOUS
<1>3. /\ ~retPaused /\ ~paused /\ t > 0 /\ ConsumeRetNonce(b) /\ UNCHANGED retControlVars
      /\ status[c] = "Active"
      /\ status' = [x \in CreditId |-> IF x \in {c} THEN "Retired" ELSE status[x]]
  BY DEF Retire, RegistryMarksRetired, MarkRetired
<1>4. FileRecords(b, filed, <<t>>) /\ RegistryMarksRetired({c})
  BY DEF Retire
<1>5. [Next]_vars
  BY <1>4, MarksRetiredIsNext
<1> HIDE DEF filed
<1>6. Files(b, filed, <<t>>)
  BY <1>1, <1>2, <1>3, <1>4 DEF Files, Account
<1> QED BY <1>5, <1>6 DEF filed

LEMMA BatchRetireFiles ==
  ASSUME TypeOK, NEW b \in Account, NEW batch \in BatchArg, BatchRetire(b, batch[1], batch[2])
  PROVE  /\ Files(b, [i \in DOMAIN batch[1] |-> <<batch[1][i], i>>], batch[2])
         /\ [Next]_vars
<1> DEFINE ids    == batch[1]
           tonnes == batch[2]
           filed  == [i \in DOMAIN ids |-> <<ids[i], i>>]
<1>1. ids \in Seq(CreditId) /\ tonnes \in Seq(Int) /\ Len(ids) <= MaxBatch /\ MaxBatch \in Nat
  OBVIOUS
<1>2. /\ ~retPaused /\ ConsumeRetNonce(b) /\ UNCHANGED retControlVars
      /\ ValidBatch(ids, tonnes)
      /\ (ids = << >> /\ UNCHANGED vars) \/ (ids # << >> /\ RegistryMarksRetired(Range(ids)))
      /\ FileRecords(b, filed, tonnes)
  BY DEF BatchRetire
<1> HIDE DEF ids, tonnes
<1>3. /\ DOMAIN filed = DOMAIN ids /\ DOMAIN ids = 1 .. Len(ids) /\ Len(ids) \in Nat
      /\ \A i \in DOMAIN ids : ids[i] \in CreditId /\ i \in 0 .. MaxBatch
      /\ \A i \in DOMAIN ids : filed[i] = <<ids[i], i>> /\ filed[i][1] = ids[i]
  BY <1>1
<1>4. filed \in Seq(RetirementId) /\ Len(filed) = Len(ids)
  <2>1. \A i \in 1 .. Len(ids) : filed[i] \in RetirementId
    BY <1>3 DEF RetirementId
  <2>2. filed \in [1 .. Len(ids) -> RetirementId]
    BY <1>3, <2>1
  <2> QED BY <1>3, <2>2
<1> HIDE DEF filed
<1>5. /\ Len(filed) = Len(tonnes)
      /\ \A i \in DOMAIN tonnes : tonnes[i] > 0
      /\ \A i, j \in DOMAIN filed : filed[i][1] = filed[j][1] => i = j
  BY <1>2, <1>3, <1>4 DEF ValidBatch, IsInjective
<1>6. CASE ids = << >> /\ UNCHANGED vars
  <2>1. status' = status /\ DOMAIN filed = {}
    BY <1>3, <1>6 DEF vars, creditVars
  <2>2. filed = << >>
    BY <1>4, <1>6
  <2>3. Files(b, filed, tonnes)
    BY <1>1, <1>2, <1>4, <1>5, <2>1, <2>2 DEF Files, Account
  <2> QED BY <1>6, <2>3 DEF filed, ids, tonnes
<1>7. CASE ids # << >> /\ RegistryMarksRetired(Range(ids))
  <2>1. Range(ids) \in SUBSET CreditId
    BY <1>1, RangeOfIds
  <2>2. /\ ~paused
        /\ \A c \in Range(ids) : status[c] = "Active"
        /\ status' = [c \in CreditId |-> IF c \in Range(ids) THEN "Retired" ELSE status[c]]
    BY <1>7 DEF RegistryMarksRetired, MarkRetired
  <2>3. \A i \in DOMAIN filed :
          status[filed[i][1]] = "Active" /\ status'[filed[i][1]] = "Retired"
    <3>1. \A i \in DOMAIN ids : ids[i] \in Range(ids)
      BY DEF Range
    <3> QED BY <1>3, <2>2, <3>1
  <2>4. \A c \in CreditId : status'[c] # status[c] => \E i \in DOMAIN filed : filed[i][1] = c
    <3>1. \A c \in CreditId : status'[c] # status[c] => c \in Range(ids)
      BY <2>2
    <3> QED BY <1>3, <3>1 DEF Range
  <2>5. Files(b, filed, tonnes)
    BY <1>1, <1>2, <1>4, <1>5, <2>2, <2>3, <2>4 DEF Files, Account
  <2>6. [Next]_vars
    BY <1>7, <2>1, MarksRetiredIsNext
  <2> QED BY <2>5, <2>6 DEF filed, ids, tonnes
<1> QED BY <1>2, <1>6, <1>7

(* Every step is a step of the registry or leaves it alone; it files a list *)
(* of retirements or leaves the records alone.                              *)
LEMMA CompositionStep ==
  ASSUME TypeOK, [RetirementNext]_allRetVars
  PROVE  /\ [Next]_vars
         /\ \/ \E b, filed, tonnes : Files(b, filed, tonnes)
            \/ UNCHANGED recordVars /\ (RegistryStep \/ UNCHANGED vars)
<1>1. CASE RegistryStep /\ UNCHANGED retVars
  BY <1>1 DEF Next, retVars
<1>2. CASE UNCHANGED allRetVars
  BY <1>2 DEF allRetVars, retVars
<1>3. ASSUME NEW a \in AdminKeys,
             \/ InitializeRetirement(a) \/ SetRetPaused(a, TRUE) \/ SetRetPaused(a, FALSE)
             \/ AcceptRetAdmin(a) \/ UpgradeRetirement(a)
             \/ \E candidate \in AdminKeys : ProposeRetAdmin(a, candidate)
      PROVE  UNCHANGED <<vars, recordVars>>
  BY <1>3 DEF InitializeRetirement, SetRetPaused, AcceptRetAdmin, UpgradeRetirement,
              ProposeRetAdmin
<1>4. ASSUME NEW b \in Account, NEW c \in CreditId, NEW t \in RetiredTonnesArg, Retire(b, c, t)
      PROVE  [Next]_vars /\ \E a, filed, tonnes : Files(a, filed, tonnes)
  BY <1>4, RetireFiles
<1>5. ASSUME NEW b \in Account, NEW batch \in BatchArg, BatchRetire(b, batch[1], batch[2])
      PROVE  [Next]_vars /\ \E a, filed, tonnes : Files(a, filed, tonnes)
  BY <1>5, BatchRetireFiles
<1> QED BY <1>1, <1>2, <1>3, <1>4, <1>5 DEF RetirementNext, RetirementStep

(* Composed with the retirement contract the registry still behaves as its  *)
(* own specification says.                                                  *)
THEOREM RetirementImplementsRegistry == RetirementSpec => Spec
<1>1. Init /\ RetirementInit => Init
  OBVIOUS
<1>2. TypeOK /\ [RetirementNext]_allRetVars => [Next]_vars
  BY CompositionStep
<1>3. Init => TypeOK
  BY InitType
<1>4. TypeOK /\ [Next]_vars => TypeOK'
  BY NextType
<1> QED BY <1>1, <1>2, <1>3, <1>4, PTL DEF RetirementSpec, Spec

-----------------------------------------------------------------------------
(* Types. *)

(* The record that a call files under r, and all others kept. *)
LEMMA FiledRecords ==
  ASSUME NEW b, NEW filed, NEW tonnes, Files(b, filed, tonnes)
  PROVE  /\ \A r \in Range(filed) :
              r \in RetirementId /\
              \E t \in Nat \ {0} : records'[r] = [credit |-> r[1], buyer |-> b, tonnes |-> t]
         /\ \A r \in RetirementId \ Range(filed) : records'[r] = records[r]
         /\ DOMAIN records' = RetirementId
<1> DEFINE place(r) == CHOOSE i \in DOMAIN filed : filed[i] = r
<1>1. records' = [r \in RetirementId |->
        IF r \in Range(filed)
        THEN [credit |-> r[1], buyer |-> b, tonnes |-> tonnes[place(r)]]
        ELSE records[r]]
  BY DEF Files, FileRecords
<1>2. ASSUME NEW r \in Range(filed)
      PROVE  r \in RetirementId /\ tonnes[place(r)] \in Nat \ {0}
  <2>1. \E i \in DOMAIN filed : filed[i] = r
    BY DEF Range
  <2>2. place(r) \in DOMAIN filed /\ filed[place(r)] = r
    BY <2>1
  <2> HIDE DEF place
  <2>3. /\ DOMAIN filed = DOMAIN tonnes
        /\ \A i \in DOMAIN filed : filed[i] \in RetirementId
        /\ \A i \in DOMAIN tonnes : tonnes[i] \in Int /\ tonnes[i] > 0
    BY DEF Files
  <2> QED BY <2>2, <2>3
<1> HIDE DEF place
<1> QED BY <1>1, <1>2

LEMMA FiledIndex ==
  ASSUME NEW b, NEW filed, NEW tonnes, Files(b, filed, tonnes),
         accountRetirements \in [Address -> Seq(RetirementId)]
  PROVE  \A a \in Address :
           accountRetirements'[a] = IF a = b THEN accountRetirements[a] \o filed
                                             ELSE accountRetirements[a]
BY DEF Files, FileRecords, ExtendIndex

LEMMA ConsumeRetNonceType ==
  ASSUME retNonce \in [Address -> Nat], NEW a \in Address, ConsumeRetNonce(a)
  PROVE  retNonce' \in [Address -> Nat]
BY DEF ConsumeRetNonce

LEMMA FilesType ==
  ASSUME RetTypeOK, NEW b, NEW filed, NEW tonnes, Files(b, filed, tonnes)
  PROVE  RetTypeOK'
<1>1. /\ retNonce' \in [Address -> Nat]
      /\ UNCHANGED retControlVars
      /\ b \in Address /\ filed \in Seq(RetirementId)
  <2>1. b \in Address /\ filed \in Seq(RetirementId) /\ ConsumeRetNonce(b) /\ UNCHANGED retControlVars
    BY DEF Files
  <2>2. retNonce' \in [Address -> Nat]
    BY <2>1, ConsumeRetNonceType DEF RetTypeOK
  <2> QED BY <2>1, <2>2
<1>2. records' \in [RetirementId -> Record \cup {None}]
  <2>1. ASSUME NEW r \in RetirementId
        PROVE  records'[r] \in Record \cup {None}
    <3>1. CASE r \in Range(filed)
      <4>1. PICK t \in Nat \ {0} : records'[r] = [credit |-> r[1], buyer |-> b, tonnes |-> t]
        BY <3>1, FiledRecords
      <4>2. r[1] \in CreditId
        BY DEF RetirementId
      <4> QED BY <1>1, <4>1, <4>2 DEF Record
    <3>2. CASE r \notin Range(filed)
      BY <3>2, FiledRecords DEF RetTypeOK
    <3> QED BY <3>1, <3>2
  <2>2. DOMAIN records' = RetirementId
    BY FiledRecords
  <2>3. records' = [r \in RetirementId |-> records'[r]]
    BY <2>2 DEF Files, FileRecords
  <2> QED BY <2>1, <2>3
<1>3. accountRetirements' \in [Address -> Seq(RetirementId)]
  <2>1. accountRetirements' = [accountRetirements EXCEPT ![b] = @ \o filed]
    BY DEF Files, FileRecords, ExtendIndex
  <2> QED BY <1>1, <2>1 DEF RetTypeOK
<1> QED BY <1>1, <1>2, <1>3 DEF RetTypeOK, retControlVars

LEMMA RetTypeStep ==
  ASSUME TypeOK, RetTypeOK, [RetirementNext]_allRetVars
  PROVE  RetTypeOK'
<1>1. CASE UNCHANGED retVars
  BY <1>1 DEF retVars, retControlVars, recordVars, RetTypeOK
<1>2. ASSUME NEW a \in AdminKeys,
             \/ InitializeRetirement(a) \/ SetRetPaused(a, TRUE) \/ SetRetPaused(a, FALSE)
             \/ AcceptRetAdmin(a) \/ UpgradeRetirement(a)
             \/ \E candidate \in AdminKeys : ProposeRetAdmin(a, candidate)
      PROVE  RetTypeOK'
  <2>1. UNCHANGED recordVars
    BY <1>2 DEF InitializeRetirement, SetRetPaused, AcceptRetAdmin, UpgradeRetirement,
                ProposeRetAdmin
  <2>2. retNonce' \in [Address -> Nat]
    <3>1. retNonce' = retNonce \/ ConsumeRetNonce(a)
      BY <1>2 DEF InitializeRetirement, SetRetPaused, AcceptRetAdmin, UpgradeRetirement,
                  ProposeRetAdmin
    <3> QED BY <3>1, ConsumeRetNonceType DEF RetTypeOK
  <2>3. /\ retAdmin' \in AdminKeys \cup {None}
        /\ retPendingAdmin' \in AdminKeys \cup {None}
    BY <1>2 DEF InitializeRetirement, SetRetPaused, AcceptRetAdmin, UpgradeRetirement,
                ProposeRetAdmin, RetTypeOK, retControlVars
  <2>4. retPaused' \in BOOLEAN
    <3>1. retPaused' \in {TRUE, FALSE} \/ retPaused' = retPaused
      BY <1>2 DEF InitializeRetirement, SetRetPaused, AcceptRetAdmin, UpgradeRetirement,
                  ProposeRetAdmin, retControlVars
    <3> QED BY <3>1 DEF RetTypeOK
  <2> QED BY <2>1, <2>2, <2>3, <2>4 DEF RetTypeOK, recordVars
<1>3. ASSUME NEW b \in Account, NEW c \in CreditId, NEW t \in RetiredTonnesArg, Retire(b, c, t)
      PROVE  RetTypeOK'
  BY <1>3, RetireFiles, FilesType
<1>4. ASSUME NEW b \in Account, NEW batch \in BatchArg, BatchRetire(b, batch[1], batch[2])
      PROVE  RetTypeOK'
  BY <1>4, BatchRetireFiles, FilesType
<1> QED BY <1>1, <1>2, <1>3, <1>4 DEF RetirementNext, RetirementStep, allRetVars

LEMMA RetirementTypesAlways == RetirementSpec => [](TypeOK /\ RetTypeOK)
<1>1. Init /\ RetirementInit => TypeOK /\ RetTypeOK
  <2>1. ASSUME RetirementInit PROVE RetTypeOK
    <3>1. retPaused \in BOOLEAN
      BY Zenon, <2>1 DEF RetirementInit
    <3>2. accountRetirements \in [Address -> Seq(RetirementId)]
      BY <2>1 DEF RetirementInit
    <3>3. records \in [RetirementId -> Record \cup {None}] /\ retNonce \in [Address -> Nat]
      BY <2>1 DEF RetirementInit
    <3>4. retAdmin = None /\ retPendingAdmin = None
      BY <2>1 DEF RetirementInit
    <3> QED BY <3>1, <3>2, <3>3, <3>4 DEF RetTypeOK
  <2> QED BY <2>1, InitType
<1>2. TypeOK /\ RetTypeOK /\ [RetirementNext]_allRetVars => (TypeOK /\ RetTypeOK)'
  BY CompositionStep, NextType, RetTypeStep
<1> QED BY <1>1, <1>2, PTL DEF RetirementSpec

(* Both contracts' variables keep their types; no record states a volume of *)
(* zero tonnes.                                                             *)
THEOREM RetirementTypeCorrect == RetirementSpec => []RetTypeOK
BY RetirementTypesAlways, PTL

-----------------------------------------------------------------------------
(* Records. *)

LEMMA RecordsBackedStep ==
  ASSUME TypeOK, RetTypeOK, RecordsAreBacked, [RetirementNext]_allRetVars
  PROVE  RecordsAreBacked'
<1>0. \A c \in CreditId : status[c] = "Retired" => status'[c] = "Retired"
  BY CompositionStep, CreditsAreKept DEF KeepsCredit, Exists
<1>1. CASE UNCHANGED recordVars
  <2>1. \A r \in RetirementId : r[1] \in CreditId
    BY DEF RetirementId
  <2>2. records' = records
    BY <1>1 DEF recordVars
  <2>3. \A r \in RetirementId : records[r] # None => status'[r[1]] = "Retired"
    BY <1>0, <2>1 DEF RecordsAreBacked
  <2> QED BY <2>2, <2>3 DEF RecordsAreBacked
<1>2. ASSUME NEW b, NEW filed, NEW tonnes, Files(b, filed, tonnes)
      PROVE  RecordsAreBacked'
  <2>1. \A r \in RetirementId : records'[r] # None =>
          \/ r \in Range(filed) /\ records'[r].credit = r[1]
          \/ r \notin Range(filed) /\ records'[r] = records[r] /\ records[r] # None
    <3>1. ASSUME NEW r \in Range(filed)
          PROVE  records'[r].credit = r[1]
      <4>1. PICK t \in Nat \ {0} : records'[r] = [credit |-> r[1], buyer |-> b, tonnes |-> t]
        BY <1>2, <3>1, FiledRecords
      <4> QED BY <4>1
    <3> QED BY <1>2, <3>1, FiledRecords
  <2>2. ASSUME NEW r \in Range(filed)
        PROVE  /\ status[r[1]] = "Active" /\ status'[r[1]] = "Retired"
               /\ \A s \in Range(filed) : s[1] = r[1] => s = r
    <3>1. PICK i \in DOMAIN filed : filed[i] = r
      BY DEF Range
    <3>2. \A s \in Range(filed) : \E j \in DOMAIN filed : filed[j] = s
      BY DEF Range
    <3> QED BY <1>2, <3>1, <3>2 DEF Files
  <2>3. \A r \in RetirementId : records[r] # None =>
          /\ r[1] \in CreditId
          /\ records[r].credit = r[1] /\ status[r[1]] = "Retired"
          /\ \A s \in RetirementId : records[s] # None /\ s[1] = r[1] => s = r
    BY DEF RecordsAreBacked, RetirementId
  <2>4. ASSUME NEW r \in RetirementId, records'[r] # None
        PROVE  records'[r].credit = r[1] /\ status'[r[1]] = "Retired"
    BY <1>0, <2>1, <2>2, <2>3, <2>4
  <2>5. ASSUME NEW r \in RetirementId, records'[r] # None,
               NEW s \in RetirementId, records'[s] # None, s[1] = r[1]
        PROVE  s = r
    <3>1. CASE r \in Range(filed) /\ s \in Range(filed)
      BY <2>2, <2>5, <3>1
    <3>2. CASE r \in Range(filed) /\ s \notin Range(filed)
      BY <2>1, <2>2, <2>3, <2>5, <3>2
    <3>3. CASE r \notin Range(filed) /\ s \in Range(filed)
      BY <2>1, <2>2, <2>3, <2>5, <3>3
    <3>4. CASE r \notin Range(filed) /\ s \notin Range(filed)
      BY <2>1, <2>3, <2>5, <3>4
    <3> QED BY <3>1, <3>2, <3>3, <3>4
  <2> QED BY <2>4, <2>5 DEF RecordsAreBacked
<1> QED BY <1>1, <1>2, CompositionStep

LEMMA RecordsBackedAlways == RetirementSpec => [](TypeOK /\ RetTypeOK /\ RecordsAreBacked)
<1>1. Init /\ RetirementInit => RecordsAreBacked
  BY DEF RetirementInit, RecordsAreBacked
<1>2. TypeOK /\ RetTypeOK /\ RecordsAreBacked /\ [RetirementNext]_allRetVars => RecordsAreBacked'
  BY RecordsBackedStep
<1> QED BY <1>1, <1>2, RetirementTypesAlways, PTL DEF RetirementSpec

(* One record for a retired credit at most, and none for a credit that is   *)
(* still in circulation, whichever calls of the two contracts interleave.   *)
THEOREM RecordsStayBacked == RetirementSpec => []RecordsAreBacked
BY RecordsBackedAlways, PTL

(* A retirement is filed where there was no record, and shows there. *)
LEMMA FiledAreNew ==
  ASSUME RecordsAreBacked, NEW b, NEW filed, NEW tonnes, Files(b, filed, tonnes)
  PROVE  \A r \in Range(filed) : r \in RetirementId /\ records[r] = None /\ records'[r] # None
                                  /\ records'[r].buyer = b
<1> SUFFICES ASSUME NEW r \in Range(filed)
             PROVE  r \in RetirementId /\ records[r] = None /\ records'[r] # None
                    /\ records'[r].buyer = b
  OBVIOUS
<1>1. PICK t \in Nat \ {0} : records'[r] = [credit |-> r[1], buyer |-> b, tonnes |-> t]
  BY FiledRecords
<1>2. r \in RetirementId
  BY FiledRecords
<1>3. status[r[1]] = "Active"
  <2>1. PICK i \in DOMAIN filed : filed[i] = r
    BY DEF Range
  <2> QED BY <2>1 DEF Files
<1>4. records[r] = None
  BY <1>2, <1>3 DEF RecordsAreBacked
<1>5. [credit |-> r[1], buyer |-> b, tonnes |-> t] # None
  <2>1. r[1] \in CreditId /\ b \in Address
    BY <1>2 DEF RetirementId, Files
  <2>2. [credit |-> r[1], buyer |-> b, tonnes |-> t] \in Record
    BY <2>1 DEF Record
  <2> QED BY <2>2
<1> QED BY <1>1, <1>2, <1>4, <1>5

LEMMA AccountIndexStep ==
  ASSUME TypeOK, RetTypeOK, RecordsAreBacked, AccountIndexExact, [RetirementNext]_allRetVars
  PROVE  AccountIndexExact'
<1>1. CASE UNCHANGED recordVars
  BY <1>1 DEF recordVars, AccountIndexExact
<1>2. ASSUME NEW b, NEW filed, NEW tonnes, Files(b, filed, tonnes)
      PROVE  AccountIndexExact'
  <2>1. /\ \A r \in Range(filed) : r \in RetirementId /\ records[r] = None
                                  /\ records'[r] # None /\ records'[r].buyer = b
        /\ \A r \in RetirementId \ Range(filed) : records'[r] = records[r]
    BY <1>2, FiledRecords, FiledAreNew
  <2>2. filed \in Seq(RetirementId) /\ IsInjective(filed) /\ b \in Address
    BY <1>2 DEF Files, IsInjective
  <2>3. \A a \in Address :
          /\ accountRetirements[a] \in Seq(RetirementId)
          /\ IsInjective(accountRetirements[a])
          /\ Range(accountRetirements[a]) =
               {r \in RetirementId : records[r] # None /\ records[r].buyer = a}
    BY DEF AccountIndexExact, RetTypeOK
  <2>4. \A a \in Address :
          accountRetirements'[a] = IF a = b THEN accountRetirements[a] \o filed
                                            ELSE accountRetirements[a]
    BY <1>2, FiledIndex DEF RetTypeOK
  <2>5. /\ IsInjective(accountRetirements[b] \o filed)
        /\ Range(accountRetirements[b] \o filed) = Range(accountRetirements[b]) \cup Range(filed)
    <3>1. Range(accountRetirements[b]) \cap Range(filed) = {}
      BY <2>1, <2>2, <2>3
    <3> QED BY <2>2, <2>3, <3>1, ConcatDisjointInjective
  <2>6. ASSUME NEW a \in Address
        PROVE  {r \in RetirementId : records'[r] # None /\ records'[r].buyer = a} =
                 {r \in RetirementId : records[r] # None /\ records[r].buyer = a}
                   \cup (IF a = b THEN Range(filed) ELSE {})
    BY <2>1
  <2>7. ASSUME NEW a \in Address
        PROVE  /\ IsInjective(accountRetirements'[a])
               /\ Range(accountRetirements'[a]) =
                    {r \in RetirementId : records'[r] # None /\ records'[r].buyer = a}
    <3>1. CASE a = b
      BY <2>3, <2>4, <2>5, <2>6, <3>1
    <3>2. CASE a # b
      BY <2>3, <2>4, <2>6, <3>2
    <3> QED BY <3>1, <3>2
  <2> QED BY <2>7 DEF AccountIndexExact
<1> QED BY <1>1, <1>2, CompositionStep

(* get_retirements_by_account lists an account's records, each of them once. *)
THEOREM AccountIndexIsExact == RetirementSpec => []AccountIndexExact
<1>1. Init /\ RetirementInit => AccountIndexExact
  BY EmptyInjective DEF RetirementInit, AccountIndexExact
<1>2. TypeOK /\ RetTypeOK /\ RecordsAreBacked /\ AccountIndexExact /\ [RetirementNext]_allRetVars
        => AccountIndexExact'
  BY AccountIndexStep
<1> QED BY <1>1, <1>2, RecordsBackedAlways, PTL DEF RetirementSpec

-----------------------------------------------------------------------------
(* Steps. *)

LEMMA PrefixOfConcat ==
  ASSUME NEW S, NEW q \in Seq(S), NEW r \in Seq(S)
  PROVE  IsPrefix(q, q \o r)
<1> DEFINE s == q \o r
<1>1. /\ s \in Seq(S) /\ Len(s) = Len(q) + Len(r) /\ Len(q) \in Nat /\ Len(r) \in Nat
      /\ \A i \in 1 .. Len(q) : s[i] = q[i]
  OBVIOUS
<1> HIDE DEF s
<1>2. SubSeq(q, 1, Len(q)) = SubSeq(s, 1, Len(q))
  BY <1>1
<1> QED BY <1>1, <1>2 DEF IsPrefix, s

LEMMA PrefixOfItself ==
  ASSUME NEW S, NEW q \in Seq(S)
  PROVE  IsPrefix(q, q)
BY DEF IsPrefix

LEMMA ImmutableStep ==
  ASSUME TypeOK, RetTypeOK, RecordsAreBacked, [RetirementNext]_allRetVars
  PROVE  /\ \A r \in RetirementId : records[r] # None => records'[r] = records[r]
         /\ \A a \in Address : IsPrefix(accountRetirements[a], accountRetirements'[a])
<1>0. \A a \in Address : accountRetirements[a] \in Seq(RetirementId)
  BY DEF RetTypeOK
<1>1. CASE UNCHANGED recordVars
  BY <1>0, <1>1, PrefixOfItself DEF recordVars
<1>2. ASSUME NEW b, NEW filed, NEW tonnes, Files(b, filed, tonnes)
      PROVE  /\ \A r \in RetirementId : records[r] # None => records'[r] = records[r]
             /\ \A a \in Address : IsPrefix(accountRetirements[a], accountRetirements'[a])
  <2>1. \A r \in RetirementId : records[r] # None => records'[r] = records[r]
    BY <1>2, FiledRecords, FiledAreNew
  <2>2. filed \in Seq(RetirementId)
    BY <1>2 DEF Files
  <2>3. ASSUME NEW a \in Address
        PROVE  IsPrefix(accountRetirements[a], accountRetirements'[a])
    <3>1. accountRetirements'[a] = IF a = b THEN accountRetirements[a] \o filed
                                            ELSE accountRetirements[a]
      BY <1>2, FiledIndex DEF RetTypeOK
    <3> QED BY <1>0, <2>2, <3>1, PrefixOfConcat, PrefixOfItself
  <2> QED BY <2>1, <2>3
<1> QED BY <1>1, <1>2, CompositionStep

(* A stored certificate never changes and is never lost. *)
THEOREM RecordsNeverChange == RetirementSpec => RecordsAreImmutable
<1>1. TypeOK /\ RetTypeOK /\ RecordsAreBacked /\ [RetirementNext]_allRetVars =>
        [/\ \A r \in RetirementId : records[r] # None => records'[r] = records[r]
         /\ \A a \in Address : IsPrefix(accountRetirements[a], accountRetirements'[a])]_allRetVars
  BY ImmutableStep
<1> QED BY <1>1, RecordsBackedAlways, PTL DEF RetirementSpec, RecordsAreImmutable

(* Left to its other callers, the registry retires a credit only when it    *)
(* derives new ones: by a split or a merge.                                 *)
LEMMA RegistryRetiresByReplacing ==
  ASSUME TypeOK, RegistryStep \/ UNCHANGED vars, NEW x \in CreditId,
         status[x] # "Retired", status'[x] = "Retired"
  PROVE  creditNonce' > creditNonce
<1>0. creditNonce \in Nat /\ status \in [CreditId -> Status \cup {"Absent"}]
  BY DEF TypeOK
<1>1. CASE (GovernanceStep /\ UNCHANGED creditVars) \/ UNCHANGED vars
  BY <1>1 DEF vars, creditVars
<1>2. CASE SubmissionStep
  BY <1>0, <1>2 DEF SubmissionStep, SubmitCredit, DeriveIds
<1>3. ASSUME NEW v \in VerifierKeys, NEW c \in CreditId, ApproveAndMint(v, c) \/ FlagCredit(v, c)
      PROVE  FALSE
  <2>1. \/ status' = status
        \/ status' = [status EXCEPT ![c] = "Active"]
        \/ status' = [status EXCEPT ![c] = "Flagged"]
    BY <1>3 DEF ApproveAndMint, FlagCredit
  <2> QED BY <1>0, <2>1
<1>4. ASSUME NEW from \in Account, NEW to \in Recipient, NEW c \in CreditId,
             TransferCredit(from, to, c)
      PROVE  FALSE
  BY <1>4 DEF TransferCredit
<1>5. ASSUME NEW a \in Account, NEW c \in CreditId, NEW t \in SplitArg, SplitCredit(a, c, t)
      PROVE  creditNonce' > creditNonce
  BY <1>0, <1>5 DEF SplitCredit, DeriveIds
<1>6. ASSUME NEW a \in Account, NEW ids \in MergeArg, MergeCredits(a, ids)
      PROVE  creditNonce' > creditNonce
  BY <1>0, <1>6 DEF MergeCredits, DeriveIds
<1>7. ASSUME NEW c \in CreditId,
             \/ \E a \in AdminKeys : ExpireCredit(a, c)
             \/ DisputeCredit(c)
             \/ \E a \in AdminKeys, o \in {0, 1} : ResolveDispute(a, c, o)
      PROVE  FALSE
  <2>1. \E s \in {"Expired", "Disputed", "Active", "Flagged"} : status' = [status EXCEPT ![c] = s]
    BY <1>7 DEF ExpireCredit, DisputeCredit, ResolveDispute, SetStatus
  <2> QED BY <1>0, <2>1
<1> QED BY <1>1, <1>2, <1>3, <1>4, <1>5, <1>6, <1>7 DEF RegistryStep, HandlingStep

LEMMA BurnStep ==
  ASSUME TypeOK, RetTypeOK, RecordsAreBacked, [RetirementNext]_allRetVars, NEW c \in CreditId,
         status[c] \notin {"Absent", "Retired"}, status'[c] = "Retired"
  PROVE  \/ \E r \in RetirementId : r[1] = c /\ records[r] = None /\ records'[r] # None
         \/ creditNonce' > creditNonce /\ records' = records
<1>1. CASE UNCHANGED recordVars /\ (RegistryStep \/ UNCHANGED vars)
  BY <1>1, RegistryRetiresByReplacing DEF recordVars
<1>2. ASSUME NEW b, NEW filed, NEW tonnes, Files(b, filed, tonnes)
      PROVE  \E r \in RetirementId : r[1] = c /\ records[r] = None /\ records'[r] # None
  <2>1. PICK i \in DOMAIN filed : filed[i][1] = c
    BY <1>2 DEF Files
  <2>2. filed[i] \in Range(filed)
    BY DEF Range
  <2> QED BY <1>2, <2>1, <2>2, FiledAreNew
<1> QED BY <1>1, <1>2, CompositionStep

(* A credit retired in place has a certificate from that very step on.      *)
THEOREM EveryBurnIsRecorded == RetirementSpec => BurnsAreRecorded
<1>1. TypeOK /\ RetTypeOK /\ RecordsAreBacked /\ [RetirementNext]_allRetVars =>
        [\A c \in CreditId :
           status[c] \notin {"Absent", "Retired"} /\ status'[c] = "Retired" =>
             \/ \E r \in RetirementId : r[1] = c /\ records[r] = None /\ records'[r] # None
             \/ creditNonce' > creditNonce /\ records' = records]_allRetVars
  BY BurnStep
<1> QED BY <1>1, RecordsBackedAlways, PTL DEF RetirementSpec, BurnsAreRecorded

LEMMA PausedRetirementStep ==
  ASSUME TypeOK, RetTypeOK, [RetirementNext]_allRetVars, paused \/ retPaused
  PROVE  /\ records' = records
         /\ \A c \in CreditId : status[c] = "Active" /\ status'[c] = "Retired" =>
              creditNonce' > creditNonce
<1>1. CASE UNCHANGED recordVars /\ (RegistryStep \/ UNCHANGED vars)
  BY <1>1, RegistryRetiresByReplacing DEF recordVars
<1>2. ASSUME NEW b, NEW filed, NEW tonnes, Files(b, filed, tonnes)
      PROVE  records' = records /\ \A c \in CreditId : status'[c] = status[c]
  <2>1. filed = << >>
    BY <1>2 DEF Files
  <2>2. DOMAIN filed = {} /\ Range(filed) = {}
    BY <2>1, EmptyInjective
  <2>3. \A c \in CreditId : status'[c] = status[c]
    BY <1>2, <2>2 DEF Files
  <2>4. \A r \in RetirementId : records'[r] = records[r]
    BY <1>2, <2>2, FiledRecords
  <2>5. records' = [r \in RetirementId |-> records'[r]]
    BY <1>2 DEF Files, FileRecords
  <2>6. records = [r \in RetirementId |-> records[r]]
    BY DEF RetTypeOK
  <2> QED BY <2>3, <2>4, <2>5, <2>6
<1> QED BY <1>1, <1>2, CompositionStep

(* Either contract's pause switch stops retirement in both.                 *)
THEOREM PausesStopRetirement == RetirementSpec => EitherPauseStopsRetirement
<1>1. TypeOK /\ RetTypeOK /\ [RetirementNext]_allRetVars =>
        [paused \/ retPaused =>
           /\ records' = records
           /\ \A c \in CreditId : status[c] = "Active" /\ status'[c] = "Retired" =>
                creditNonce' > creditNonce]_allRetVars
  BY PausedRetirementStep
<1> QED BY <1>1, RetirementTypesAlways, PTL DEF RetirementSpec, EitherPauseStopsRetirement

(*****************************************************************************)
(* Sessions and the audit log.  Sessions add state to the registry and     *)
(* never change what it does, so the registry's theorems carry over; the   *)
(* log's own properties rest on one fact about the ids: each contains the  *)
(* length the log had when the id was derived.                             *)
(*****************************************************************************)
USE SessionAssumption, ClockAssumption

-----------------------------------------------------------------------------
(* What a step is. *)

(* A submission by i in session s, as far as the sessions' state tells.     *)
Logs(s, i) ==
  /\ s \in sessions /\ i \in IssuerKeys
  /\ SubmissionStep
  /\ creditNonce \in CreditId
  /\ meta'[creditNonce].issuer = i /\ status'[creditNonce] = "Pending"
  /\ auditLog' = [x \in DOMAIN auditLog \cup {<<s, auditLogCount>>} |->
                    IF x = <<s, auditLogCount>> THEN SubmissionEntry(s, i) ELSE auditLog[x]]
  /\ auditLogCount' = auditLogCount + 1
  /\ opCount' = [x \in DOMAIN opCount \cup {s} |-> IF x = s THEN OpCount(s) + 1 ELSE opCount[x]]
  /\ UNCHANGED <<now, sessions>>

LEMMA SubmissionLogs ==
  ASSUME TypeOK, NEW s \in sessions, NEW i \in IssuerKeys, NEW p \in Project, NEW v \in Vintage,
         NEW m \in Methodology, NEW g \in Geography, NEW t \in TonnesArg,
         SubmitCreditWithSession(s, i, p, v, m, g, t)
  PROVE  Logs(s, i)
<1>1. SubmitCredit(i, p, v, m, g, t)
  BY DEF SubmitCreditWithSession
<1>2. creditNonce \in CreditId
  BY <1>1 DEF SubmitCredit, DeriveIds, TypeOK
<1>3. /\ meta' = [meta EXCEPT ![creditNonce] = [project |-> p, issuer |-> i, vintage |-> v,
                                               methodology |-> m, geography |-> g, tonnes |-> t]]
      /\ status' = [status EXCEPT ![creditNonce] = "Pending"]
      /\ meta \in [CreditId -> Metadata \cup {NoMetadata}]
      /\ status \in [CreditId -> Status \cup {"Absent"}]
  BY <1>1 DEF SubmitCredit, TypeOK
<1>4. meta'[creditNonce].issuer = i /\ status'[creditNonce] = "Pending"
  BY <1>2, <1>3
<1>5. SubmissionStep
  BY <1>1 DEF SubmissionStep
<1>6. /\ auditLog' = [x \in DOMAIN auditLog \cup {<<s, auditLogCount>>} |->
                    IF x = <<s, auditLogCount>> THEN SubmissionEntry(s, i) ELSE auditLog[x]]
      /\ auditLogCount' = auditLogCount + 1
      /\ opCount' = [x \in DOMAIN opCount \cup {s} |-> IF x = s THEN OpCount(s) + 1 ELSE opCount[x]]
      /\ UNCHANGED <<now, sessions>>
  BY DEF SubmitCreditWithSession, AppendAuditLog, CountOperation, SubmissionEntry
<1> QED BY <1>2, <1>4, <1>5, <1>6 DEF Logs

(* The ledger's time and the set of sessions only grow.                     *)
OpensOrWaits ==
  /\ \/ UNCHANGED sessions /\ now' \in now .. MaxTime
     \/ /\ \E a \in Initiator : sessions' = sessions \cup {NextSession(a)}
        /\ UNCHANGED now
  /\ UNCHANGED logVars

LEMMA SessionsStepCases ==
  ASSUME TypeOK, SessionsTypeOK, [SessionsNext]_allSessionVars
  PROVE  /\ [Next]_vars
         /\ (\E s \in sessions, i \in IssuerKeys : Logs(s, i)) \/ OpensOrWaits
<1>0. now \in 0 .. MaxTime
  BY DEF SessionsTypeOK
<1>1. CASE UNCHANGED allSessionVars
  BY <1>0, <1>1 DEF allSessionVars, sessionVars, OpensOrWaits
<1>2. CASE Next /\ UNCHANGED sessionVars
  BY <1>0, <1>2 DEF sessionVars, OpensOrWaits
<1>3. CASE LedgerCloses /\ UNCHANGED <<vars, sessions, logVars>>
  BY <1>0, <1>3 DEF LedgerCloses, OpensOrWaits
<1>4. ASSUME NEW a \in Initiator, CreateSession(a)
      PROVE  [Next]_vars /\ OpensOrWaits
  BY <1>4 DEF CreateSession, OpensOrWaits
<1>5. ASSUME NEW s \in sessions, NEW i \in IssuerKeys, NEW p \in Project, NEW v \in Vintage,
             NEW m \in Methodology, NEW g \in Geography, NEW t \in TonnesArg,
             SubmitCreditWithSession(s, i, p, v, m, g, t)
      PROVE  [Next]_vars /\ Logs(s, i)
  <2>1. Logs(s, i)
    BY <1>5, SubmissionLogs
  <2> QED BY <2>1 DEF Logs, Next, RegistryStep
<1> QED BY <1>1, <1>2, <1>3, <1>4, <1>5 DEF SessionsNext, SessionStep

-----------------------------------------------------------------------------
(* Types. *)

LEMMA SessionsTypeStep ==
  ASSUME TypeOK, SessionsTypeOK, [SessionsNext]_allSessionVars
  PROVE  SessionsTypeOK'
<1>1. CASE OpensOrWaits
  <2>1. now' \in 0 .. MaxTime
    BY <1>1 DEF OpensOrWaits, SessionsTypeOK
  <2>2. sessions' \subseteq SessionId /\ sessions \subseteq sessions'
    BY <1>1 DEF OpensOrWaits, SessionsTypeOK, NextSession, SessionId
  <2>3. UNCHANGED <<opCount, auditLog, auditLogCount>>
    BY <1>1 DEF OpensOrWaits, logVars
  <2> QED BY <2>1, <2>2, <2>3 DEF SessionsTypeOK
<1>2. ASSUME NEW s \in sessions, NEW i \in IssuerKeys, Logs(s, i)
      PROVE  SessionsTypeOK'
  <2>1. UNCHANGED <<now, sessions>> /\ auditLogCount' = auditLogCount + 1
    BY <1>2 DEF Logs
  <2>2. /\ DOMAIN opCount' = DOMAIN opCount \cup {s}
        /\ \A x \in DOMAIN opCount' : opCount'[x] \in Nat \ {0}
    <3>1. OpCount(s) \in Nat
      BY DEF OpCount, SessionsTypeOK
    <3> QED BY <1>2, <3>1 DEF Logs, SessionsTypeOK
  <2>3. SubmissionEntry(s, i) \in Entry
    <3>1. i \in Address /\ s \in SessionId /\ creditNonce \in CreditId /\ now \in 0 .. MaxTime
      BY <1>2 DEF Logs, SessionsTypeOK
    <3> QED BY <3>1 DEF SubmissionEntry, Entry
  <2>4. /\ DOMAIN auditLog' = DOMAIN auditLog \cup {<<s, auditLogCount>>}
        /\ \A x \in DOMAIN auditLog' :
             auditLog'[x] = IF x = <<s, auditLogCount>> THEN SubmissionEntry(s, i) ELSE auditLog[x]
    BY <1>2 DEF Logs
  <2>5. DOMAIN auditLog' \subseteq LogId
    BY <2>4 DEF SessionsTypeOK, LogId
  <2>6. ASSUME NEW x \in DOMAIN auditLog'
        PROVE  auditLog'[x] \in Entry /\ x[2] < auditLogCount'
    <3>1. CASE x = <<s, auditLogCount>>
      BY <2>1, <2>3, <2>4, <3>1 DEF SessionsTypeOK
    <3>2. CASE x # <<s, auditLogCount>>
      <4>1. x \in DOMAIN auditLog /\ auditLog'[x] = auditLog[x]
        BY <2>4, <3>2
      <4>2. auditLog[x] \in Entry /\ x[2] < auditLogCount /\ x[2] \in Nat /\ auditLogCount \in Nat
        BY <4>1 DEF SessionsTypeOK, LogId
      <4> QED BY <2>1, <4>1, <4>2
    <3> QED BY <3>1, <3>2
  <2> QED BY <2>1, <2>2, <2>5, <2>6 DEF SessionsTypeOK
<1> QED BY <1>1, <1>2, SessionsStepCases

LEMMA SessionsTypeInit == SessionsInit => SessionsTypeOK
BY DEF SessionsInit, SessionsTypeOK

LEMMA SessionsTypesAlways == SessionsSpec => [](TypeOK /\ SessionsTypeOK)
<1>1. Init /\ SessionsInit => TypeOK /\ SessionsTypeOK
  BY InitType, SessionsTypeInit
<1>2. TypeOK /\ SessionsTypeOK /\ [SessionsNext]_allSessionVars => TypeOK' /\ SessionsTypeOK'
  BY SessionsTypeStep, SessionsStepCases, NextType
<1> QED BY <1>1, <1>2, PTL DEF SessionsSpec

(* Whatever happens in sessions, the registry behaves as it does without    *)
(* them: its own theorems hold here too.                                    *)
THEOREM SessionsImplementRegistry == SessionsSpec => Spec
<1>1. TypeOK /\ SessionsTypeOK /\ [SessionsNext]_allSessionVars => [Next]_vars
  BY SessionsStepCases
<1> QED BY <1>1, SessionsTypesAlways, PTL DEF SessionsSpec, Spec

(* Types of sessions and log; the log's keys carry positions below its      *)
(* length.                                                                  *)
THEOREM SessionsTypeCorrect == SessionsSpec => []SessionsTypeOK
BY SessionsTypesAlways, PTL

-----------------------------------------------------------------------------
(* The log. *)

LEMMA LogKeyIsNew ==
  ASSUME SessionsTypeOK, NEW s
  PROVE  <<s, auditLogCount>> \notin DOMAIN auditLog
BY DEF SessionsTypeOK

LEMMA LogGrows ==
  ASSUME TypeOK, SessionsTypeOK, [SessionsNext]_allSessionVars
  PROVE  /\ \A x \in DOMAIN auditLog : x \in DOMAIN auditLog' /\ auditLog'[x] = auditLog[x]
         /\ sessions \subseteq sessions'
<1>1. CASE OpensOrWaits
  BY <1>1 DEF OpensOrWaits, logVars
<1>2. ASSUME NEW s \in sessions, NEW i \in IssuerKeys, Logs(s, i)
      PROVE  /\ \A x \in DOMAIN auditLog : x \in DOMAIN auditLog' /\ auditLog'[x] = auditLog[x]
             /\ sessions \subseteq sessions'
  BY <1>2, LogKeyIsNew DEF Logs
<1> QED BY <1>1, <1>2, SessionsStepCases

(* Nothing in the log is ever rewritten or dropped, because each entry's    *)
(* key carries a position that no later entry can have.                     *)
THEOREM AuditTrailIsImmutable == SessionsSpec => AuditTrailImmutable
<1>1. TypeOK /\ SessionsTypeOK /\ [SessionsNext]_allSessionVars =>
        [/\ \A x \in DOMAIN auditLog : x \in DOMAIN auditLog' /\ auditLog'[x] = auditLog[x]
         /\ sessions \subseteq sessions']_allSessionVars
  BY LogGrows
<1> QED BY <1>1, SessionsTypesAlways, PTL DEF SessionsSpec, AuditTrailImmutable

(* What an id remembers: the time, and the length of the log, when the      *)
(* session was opened; once something is logged in it, the log is longer.   *)
IdsAreDated ==
  /\ \A s \in sessions : s[2] <= now /\ s[3] <= auditLogCount
  /\ \A s \in DOMAIN opCount : s[3] < auditLogCount
  /\ \A x \in DOMAIN auditLog : x[1][3] <= x[2]

LEMMA IdsStep ==
  ASSUME TypeOK, SessionsTypeOK, IdsAreDated, [SessionsNext]_allSessionVars
  PROVE  IdsAreDated'
<1>0. /\ now \in 0 .. MaxTime /\ auditLogCount \in Nat
      /\ \A s \in sessions : s[2] \in 0 .. MaxTime /\ s[3] \in Nat
      /\ DOMAIN opCount \subseteq sessions
  BY DEF SessionsTypeOK, SessionId
<1>1. CASE OpensOrWaits
  <2>1. now' \in Int /\ now <= now' /\ UNCHANGED <<opCount, auditLog, auditLogCount>>
    BY <1>0, <1>1 DEF OpensOrWaits, logVars
  <2>2. ASSUME NEW s \in sessions'
        PROVE  s[2] <= now' /\ s[3] <= auditLogCount'
    <3>1. CASE s \in sessions
      BY <1>0, <2>1, <3>1 DEF IdsAreDated
    <3>2. ASSUME NEW a \in Initiator, s = NextSession(a), now' = now
          PROVE  s[2] <= now' /\ s[3] <= auditLogCount'
      BY <1>0, <2>1, <3>2 DEF NextSession
    <3> QED BY <1>1, <3>1, <3>2 DEF OpensOrWaits
  <2> QED BY <2>1, <2>2 DEF IdsAreDated
<1>2. ASSUME NEW s \in sessions, NEW i \in IssuerKeys, Logs(s, i)
      PROVE  IdsAreDated'
  <2>1. /\ UNCHANGED <<now, sessions>> /\ auditLogCount' = auditLogCount + 1
        /\ DOMAIN opCount' = DOMAIN opCount \cup {s}
        /\ DOMAIN auditLog' = DOMAIN auditLog \cup {<<s, auditLogCount>>}
    BY <1>2 DEF Logs
  <2> QED BY <1>0, <2>1 DEF IdsAreDated
<1> QED BY <1>1, <1>2, SessionsStepCases

LEMMA IdsAlways == SessionsSpec => [](TypeOK /\ SessionsTypeOK /\ IdsAreDated)
<1>1. SessionsInit => IdsAreDated
  BY DEF SessionsInit, IdsAreDated
<1>2. TypeOK /\ SessionsTypeOK /\ IdsAreDated /\ [SessionsNext]_allSessionVars => IdsAreDated'
  BY IdsStep
<1> QED BY <1>1, <1>2, SessionsTypesAlways, PTL DEF SessionsSpec

(* An id under which something was logged or counted is never handed out    *)
(* again, for any number of initiators, ledgers and issuers; before that it *)
(* may be, within one ledger.                                               *)
THEOREM UsedSessionIdsNeverReturn == SessionsSpec => []UsedSessionsAreSpent
<1>1. ASSUME TypeOK, SessionsTypeOK, IdsAreDated PROVE UsedSessionsAreSpent
  <2> SUFFICES ASSUME NEW a \in Initiator
               PROVE  /\ OpCount(NextSession(a)) = 0
                      /\ \A x \in DOMAIN auditLog : x[1] # NextSession(a)
    BY DEF UsedSessionsAreSpent
  <2>0. auditLogCount \in Nat /\ NextSession(a)[3] = auditLogCount
    BY <1>1 DEF SessionsTypeOK, NextSession
  <2>1. NextSession(a) \notin DOMAIN opCount
    BY <1>1, <2>0 DEF IdsAreDated
  <2>2. ASSUME NEW x \in DOMAIN auditLog, x[1] = NextSession(a) PROVE FALSE
    <3>1. x[2] \in Nat /\ x[2] < auditLogCount /\ x[1][3] <= x[2]
      BY <1>1 DEF SessionsTypeOK, LogId, IdsAreDated
    <3> QED BY <2>0, <2>2, <3>1
  <2> QED BY <2>1, <2>2 DEF OpCount
<1> QED BY <1>1, IdsAlways, PTL

-----------------------------------------------------------------------------
(* What the log says. *)

(* An entry tells the truth about its credit, its issuer and its session.   *)
TrueEntry(x) ==
  /\ Exists(auditLog[x].credit) /\ meta[auditLog[x].credit].issuer = auditLog[x].actor
  /\ auditLog[x].session = x[1] /\ x[1] \in sessions
  /\ x[1][2] <= auditLog[x].timestamp /\ auditLog[x].timestamp <= now

LEMMA TruthfulStep ==
  ASSUME TypeOK, SessionsTypeOK, IdsAreDated, AuditTrailTruthful, [SessionsNext]_allSessionVars
  PROVE  AuditTrailTruthful'
<1>0. /\ \A c \in CreditId : KeepsCredit(c)
      /\ \A x \in DOMAIN auditLog : x \in DOMAIN auditLog' /\ auditLog'[x] = auditLog[x]
      /\ sessions \subseteq sessions'
  BY SessionsStepCases, CreditsAreKept, LogGrows
<1>1. ASSUME NEW x \in DOMAIN auditLog, now' \in now .. MaxTime
      PROVE  TrueEntry(x)'
  <2>1. auditLog[x] \in Entry /\ x \in LogId /\ now \in 0 .. MaxTime
    BY DEF SessionsTypeOK
  <2>2. /\ auditLog[x].credit \in CreditId /\ auditLog[x].timestamp \in 0 .. MaxTime
        /\ x[1][2] \in 0 .. MaxTime
    BY <2>1 DEF Entry, LogId, SessionId
  <2>3. KeepsCredit(auditLog[x].credit) /\ Exists(auditLog[x].credit)
    BY <1>0, <2>2 DEF AuditTrailTruthful
  <2>4. meta'[auditLog[x].credit] = meta[auditLog[x].credit] /\ status'[auditLog[x].credit] # "Absent"
    BY <2>3 DEF KeepsCredit
  <2>5. auditLog'[x] = auditLog[x]
    BY <1>0
  <2>6. TrueEntry(x)
    BY DEF AuditTrailTruthful, TrueEntry
  <2> QED BY <1>0, <1>1, <2>1, <2>2, <2>4, <2>5, <2>6 DEF Exists, TrueEntry
<1>2. CASE OpensOrWaits
  <2>1. now' \in now .. MaxTime /\ auditLog' = auditLog
    BY <1>2 DEF OpensOrWaits, logVars, SessionsTypeOK
  <2> QED BY <1>1, <2>1 DEF AuditTrailTruthful, TrueEntry
<1>3. ASSUME NEW s \in sessions, NEW i \in IssuerKeys, Logs(s, i)
      PROVE  AuditTrailTruthful'
  <2> PICK k : k = <<s, auditLogCount>>
    OBVIOUS
  <2> PICK e : e = SubmissionEntry(s, i)
    OBVIOUS
  <2>1. /\ DOMAIN auditLog' = DOMAIN auditLog \cup {k}
        /\ auditLog'[k] = e
        /\ k \notin DOMAIN auditLog
        /\ now' = now /\ now \in 0 .. MaxTime /\ s \in sessions'
    BY <1>3, LogKeyIsNew DEF Logs, SessionsTypeOK
  <2>2. /\ e.session = s /\ e.credit = creditNonce /\ e.actor = i /\ e.timestamp = now
        /\ k[1] = s
    BY DEF SubmissionEntry
  <2>3. s \in SessionId /\ s[2] \in 0 .. MaxTime
    BY DEF SessionsTypeOK, SessionId
  <2>4. s[2] <= now
    BY DEF IdsAreDated
  <2>5. /\ meta'[creditNonce].issuer = i /\ status'[creditNonce] = "Pending"
        /\ ~Exists(creditNonce)
    BY <1>3 DEF Logs, TypeOK
  <2>6. TrueEntry(k)'
    BY <2>1, <2>2, <2>3, <2>4, <2>5 DEF Exists, TrueEntry
  <2>7. \A x \in DOMAIN auditLog : auditLog'[x].credit # creditNonce /\ auditLog'[x] = auditLog[x]
    BY <1>0, <2>5 DEF AuditTrailTruthful
  <2>8. ASSUME NEW x \in DOMAIN auditLog', NEW y \in DOMAIN auditLog',
               auditLog'[y].credit = auditLog'[x].credit
        PROVE  y = x
    <3>1. CASE x \in DOMAIN auditLog /\ y \in DOMAIN auditLog
      BY <2>7, <2>8, <3>1 DEF AuditTrailTruthful
    <3> QED BY <2>1, <2>2, <2>7, <2>8, <3>1
  <2>9. \A x \in DOMAIN auditLog' : x = k \/ x \in DOMAIN auditLog
    BY <2>1
  <2>10. now' \in now .. MaxTime
    BY <2>1
  <2>11. ASSUME NEW x \in DOMAIN auditLog'
         PROVE  TrueEntry(x)'
    <3>1. CASE x = k
      BY <2>6, <3>1
    <3>2. CASE x \in DOMAIN auditLog
      BY <1>1, <2>10, <3>2
    <3> QED BY <2>9, <3>1, <3>2
  <2> QED BY <2>8, <2>11 DEF AuditTrailTruthful, TrueEntry
<1> QED BY <1>2, <1>3, SessionsStepCases

(* Whoever opened the session, the log names the issuer who submitted, the  *)
(* credit submitted and a time at which the session was open.               *)
THEOREM AuditTrailIsTruthful == SessionsSpec => []AuditTrailTruthful
<1>1. SessionsInit => AuditTrailTruthful
  BY DEF SessionsInit, AuditTrailTruthful
<1>2. TypeOK /\ SessionsTypeOK /\ IdsAreDated /\ AuditTrailTruthful /\ [SessionsNext]_allSessionVars
        => AuditTrailTruthful'
  BY TruthfulStep
<1> QED BY <1>1, <1>2, IdsAlways, PTL DEF SessionsSpec

-----------------------------------------------------------------------------
(* Counting. *)

EntriesOf(s) == {x \in DOMAIN auditLog : x[1] = s}

(* Neither the log's finiteness nor the sessions it names follow from types. *)
CountsInv ==
  /\ IsFiniteSet(DOMAIN auditLog)
  /\ \A x \in DOMAIN auditLog : x[1] \in sessions
  /\ SessionCountsExact

LEMMA CountsStep ==
  ASSUME TypeOK, SessionsTypeOK, CountsInv, [SessionsNext]_allSessionVars
  PROVE  CountsInv'
<1>0. /\ \A s \in sessions : OpCount(s) = Cardinality(EntriesOf(s))
      /\ \A s : s \notin sessions => OpCount(s) = 0 /\ EntriesOf(s) = {}
  BY DEF CountsInv, SessionCountsExact, EntriesOf, OpCount, SessionsTypeOK
<1>1. CASE OpensOrWaits
  <2>1. UNCHANGED <<opCount, auditLog>> /\ sessions \subseteq sessions'
    BY <1>1 DEF OpensOrWaits, logVars
  <2>2. ASSUME NEW s
        PROVE  OpCount(s)' = Cardinality(EntriesOf(s)')
    <3>1. OpCount(s)' = OpCount(s) /\ EntriesOf(s)' = EntriesOf(s)
      BY <2>1 DEF OpCount, EntriesOf
    <3>2. OpCount(s) = Cardinality(EntriesOf(s))
      BY <1>0, FS_EmptySet
    <3> QED BY <3>1, <3>2
  <2>3. SessionCountsExact'
    BY <2>2 DEF SessionCountsExact, EntriesOf
  <2> QED BY <2>1, <2>3 DEF CountsInv
<1>2. ASSUME NEW s \in sessions, NEW i \in IssuerKeys, Logs(s, i)
      PROVE  CountsInv'
  <2> DEFINE k == <<s, auditLogCount>>
  <2>1. /\ DOMAIN auditLog' = DOMAIN auditLog \cup {k}
        /\ k \notin DOMAIN auditLog /\ k[1] = s
        /\ sessions' = sessions
        /\ opCount' = [x \in DOMAIN opCount \cup {s} |-> IF x = s THEN OpCount(s) + 1 ELSE opCount[x]]
    BY <1>2, LogKeyIsNew DEF Logs
  <2> HIDE DEF k
  <2>2. IsFiniteSet(DOMAIN auditLog) /\ IsFiniteSet(DOMAIN auditLog')
    BY <2>1, FS_AddElement DEF CountsInv
  <2>3. ASSUME NEW x \in sessions
        PROVE  OpCount(x)' = Cardinality(EntriesOf(x)')
    <3>1. CASE x = s
      <4>1. EntriesOf(s)' = EntriesOf(s) \cup {k} /\ k \notin EntriesOf(s)
        BY <2>1 DEF EntriesOf
      <4>2. IsFiniteSet(EntriesOf(s))
        BY <2>2, FS_Subset DEF EntriesOf
      <4>3. Cardinality(EntriesOf(s)') = Cardinality(EntriesOf(s)) + 1
        BY <4>1, <4>2, FS_AddElement
      <4>4. OpCount(s)' = OpCount(s) + 1
        BY <2>1 DEF OpCount
      <4> QED BY <1>0, <3>1, <4>3, <4>4
    <3>2. CASE x # s
      <4>1. EntriesOf(x)' = EntriesOf(x)
        BY <2>1, <3>2 DEF EntriesOf
      <4>2. OpCount(x)' = OpCount(x)
        BY <2>1, <3>2 DEF OpCount
      <4> QED BY <1>0, <4>1, <4>2
    <3> QED BY <3>1, <3>2
  <2>4. SessionCountsExact'
    BY <2>1, <2>3 DEF SessionCountsExact, EntriesOf
  <2> QED BY <2>1, <2>2, <2>4 DEF CountsInv
<1> QED BY <1>1, <1>2, SessionsStepCases

(* The operation count of a session is the number of its log entries, for   *)
(* any number of sessions, issuers and submissions.                         *)
THEOREM SessionsAreComplete == SessionsSpec => []SessionCountsExact
<1>1. SessionsInit => CountsInv
  BY FS_EmptySet DEF SessionsInit, CountsInv, SessionCountsExact
<1>2. TypeOK /\ SessionsTypeOK /\ CountsInv /\ [SessionsNext]_allSessionVars => CountsInv'
  BY CountsStep
<1>3. CountsInv => SessionCountsExact
  BY DEF CountsInv
<1> QED BY <1>1, <1>2, <1>3, SessionsTypesAlways, PTL DEF SessionsSpec

(*****************************************************************************)
(* The marketplace.  The registry's own steps are followed by the lemmas of*)
(* its proofs; the market adds the one transfer that a contract makes, out *)
(* of escrow.                                                              *)
(*****************************************************************************)
USE MarketAssumption, NoOfferAssumption
    DEF Account

-----------------------------------------------------------------------------
(* Steps. *)

(* A step that neither lists, nor returns, nor closes an offer.             *)
Administers ==
  /\ UNCHANGED <<vars, offerVars>>
  /\ [\/ LedgerCloses /\ UNCHANGED <<mktControlVars, mktNonce>>
      \/ \E a \in AdminKeys : SetMktPaused(a, TRUE) \/ SetMktPaused(a, FALSE) \/ UpgradeMarket(a)
      \/ \E a \in AdminKeys, floor \in MinPriceArg :
           InitializeMarket(a, floor) \/ UpdateMinPrice(a, floor)]_mktVars

LEMMA MarketCases ==
  ASSUME [MarketNext]_allMktVars
  PROVE  \/ [Next]_vars /\ UNCHANGED mktVars
         \/ Administers
         \/ \E s \in Account, c \in CreditId, price \in Price, t \in OfferTonnes, x \in Expiry :
              CreateOffer(s, c, price, t, x)
         \/ \E s \in Account, o \in OfferId : CancelOffer(s, o)
         \/ \E a \in AdminKeys : CleanupExpiredOffers(a)
<1>1. CASE UNCHANGED allMktVars
  BY <1>1 DEF allMktVars
<1>2. CASE Next /\ UNCHANGED mktVars
  BY <1>2
<1>3. ASSUME LedgerCloses, UNCHANGED <<vars, mktControlVars, mktNonce, offerVars>>
      PROVE  Administers
  BY <1>3 DEF LedgerCloses, Administers, offerVars
<1>4. ASSUME NEW a \in AdminKeys,
             SetMktPaused(a, TRUE) \/ SetMktPaused(a, FALSE) \/ UpgradeMarket(a)
      PROVE  Administers
  BY <1>4 DEF SetMktPaused, UpgradeMarket, Administers, offerVars
<1>5. ASSUME NEW a \in AdminKeys, NEW floor \in MinPriceArg,
             InitializeMarket(a, floor) \/ UpdateMinPrice(a, floor)
      PROVE  Administers
  BY <1>5 DEF InitializeMarket, UpdateMinPrice, Administers, offerVars
<1> QED BY <1>1, <1>2, <1>3, <1>4, <1>5 DEF MarketNext, MarketStep

-----------------------------------------------------------------------------
(* Types. *)

LEMMA NoRecordIsNone ==
  ASSUME MarketTypeOK, NEW o \in OfferId
  PROVE  /\ Listed(o) <=> offers[o] \in Offer
         /\ Open(o) => offers[o] \in Offer /\ offers[o].active
         /\ [offers[o] EXCEPT !.active = FALSE] # None \/ ~Listed(o)
<1>1. offers[o] \in Offer \cup {None}
  BY DEF MarketTypeOK
<1>2. offers[o] \in Offer => [offers[o] EXCEPT !.active = FALSE] \in Offer
  BY DEF Offer
<1> QED BY <1>1, <1>2 DEF Listed, Open

LEMMA MktNonceType ==
  ASSUME mktNonce \in [Address -> Nat], NEW a \in Address, ConsumeMktNonce(a)
  PROVE  mktNonce' \in [Address -> Nat]
BY DEF ConsumeMktNonce

(* The parts of the type invariant that an offer's steps write.             *)
OffersTyped ==
  /\ offers \in [OfferId -> Offer \cup {None}]
  /\ \A o \in OfferId : Listed(o) <=> o < offerCount
  /\ offerCount \in 0 .. MaxOffers
  /\ escrowed \subseteq OfferId
  /\ sellerOffers \in [Address -> Seq(OfferId)]

(* The new offer takes the next id, and no other offer is touched.          *)
LEMMA CreateOfferEffect ==
  ASSUME MarketTypeOK, NEW s \in Account, NEW c \in CreditId, NEW price \in Price,
         NEW t \in OfferTonnes, NEW x \in Expiry, CreateOffer(s, c, price, t, x)
  PROVE  /\ offerCount \in OfferId /\ offerCount' = offerCount + 1 /\ ~Listed(offerCount)
         /\ offers' \in [OfferId -> Offer \cup {None}]
         /\ \A o \in OfferId : Listed(o)' <=> Listed(o) \/ o = offerCount
         /\ \A o \in OfferId : o # offerCount => offers'[o] = offers[o]
         /\ offers'[offerCount].seller = s /\ offers'[offerCount].credit = c
<1> DEFINE new == [seller |-> s, credit |-> c, price |-> price, tonnes |-> t,
                   active |-> TRUE, expires |-> x]
<1>1. offerCount \in Nat /\ offerCount < MaxOffers /\ offerCount' = offerCount + 1
  BY DEF MarketTypeOK, CreateOffer, NextOfferId
<1>2. offerCount \in OfferId /\ ~Listed(offerCount)
  <2>1. offerCount \in OfferId
    BY <1>1 DEF OfferId
  <2> QED BY <1>1, <2>1 DEF MarketTypeOK
<1>3. new \in Offer /\ new.seller = s /\ new.credit = c
  <2>1. price \in Nat \ {0} /\ t \in Nat \ {0}
    BY DEF CreateOffer, Acceptable
  <2> QED BY <2>1 DEF Offer
<1>4. offers' = [offers EXCEPT ![offerCount] = new] /\ offers \in [OfferId -> Offer \cup {None}]
  BY DEF CreateOffer, MarketTypeOK
<1> HIDE DEF new
<1>5. /\ offers' \in [OfferId -> Offer \cup {None}]
      /\ \A o \in OfferId : Listed(o)' <=> Listed(o) \/ o = offerCount
  BY <1>2, <1>3, <1>4 DEF Listed
<1> QED BY <1>1, <1>2, <1>3, <1>4, <1>5

LEMMA CreateOfferType ==
  ASSUME TypeOK, MarketTypeOK, NEW s \in Account, NEW c \in CreditId, NEW price \in Price,
         NEW t \in OfferTonnes, NEW x \in Expiry, CreateOffer(s, c, price, t, x)
  PROVE  TypeOK' /\ MarketTypeOK'
<1>1. TypeOK'
  BY TransferType DEF CreateOffer
<1>2. /\ offerCount \in OfferId /\ offerCount' = offerCount + 1 /\ MaxOffers \in Nat
      /\ offers' \in [OfferId -> Offer \cup {None}]
      /\ \A o \in OfferId : Listed(o)' <=> Listed(o) \/ o = offerCount
  BY CreateOfferEffect
<1>3. \A o \in OfferId : Listed(o)' <=> o < offerCount'
  <2>1. \A o \in OfferId : Listed(o) <=> o < offerCount
    BY DEF MarketTypeOK
  <2>2. \A o \in OfferId : o < offerCount \/ o = offerCount <=> o < offerCount + 1
    BY <1>2 DEF OfferId
  <2> QED BY <1>2, <2>1, <2>2
<1>4. escrowed' \subseteq OfferId /\ offerCount' \in 0 .. MaxOffers
  <2>1. escrowed' \subseteq OfferId
    BY <1>2 DEF MarketTypeOK, CreateOffer
  <2>2. offerCount \in 0 .. MaxOffers - 1
    BY <1>2 DEF OfferId
  <2>3. offerCount + 1 \in 0 .. MaxOffers
    BY <1>2, <2>2
  <2> QED BY <1>2, <2>1, <2>3
<1>5. sellerOffers' \in [Address -> Seq(OfferId)]
  <2>1. Append(sellerOffers[s], offerCount) \in Seq(OfferId)
    BY <1>2 DEF MarketTypeOK
  <2> QED BY <2>1 DEF MarketTypeOK, CreateOffer, IndexOffer
<1>6. mktNonce' \in [Address -> Nat]
  BY MktNonceType DEF MarketTypeOK, CreateOffer
<1> QED
  BY <1>1, <1>2, <1>3, <1>4, <1>5, <1>6 DEF MarketTypeOK, CreateOffer, mktControlVars

LEMMA CancelOfferType ==
  ASSUME TypeOK, MarketTypeOK, NEW s \in Account, NEW o \in OfferId, CancelOffer(s, o)
  PROVE  TypeOK' /\ MarketTypeOK'
<1>1. Open(o) /\ offers[o] \in Offer
  BY NoRecordIsNone DEF CancelOffer, Cancellable
<1>2. TypeOK'
  <2>1. offers[o].credit \in CreditId
    BY <1>1 DEF Offer
  <2> QED BY <2>1, TransferType DEF CancelOffer
<1>3. /\ offers' = [offers EXCEPT ![o] = [offers[o] EXCEPT !.active = FALSE]]
      /\ [offers[o] EXCEPT !.active = FALSE] \in Offer
  BY <1>1 DEF CancelOffer, Offer
<1>4. /\ offers' \in [OfferId -> Offer \cup {None}]
      /\ \A x \in OfferId : Listed(x)' <=> Listed(x)
  BY <1>1, <1>3 DEF MarketTypeOK, Listed
<1>5. mktNonce' \in [Address -> Nat] /\ escrowed' \subseteq OfferId
  BY MktNonceType DEF MarketTypeOK, CancelOffer
<1> QED BY <1>2, <1>4, <1>5 DEF MarketTypeOK, CancelOffer, mktControlVars

(* The clean-up keeps every offer's record but for the switch of some.      *)
LEMMA CleanupCloses ==
  ASSUME MarketTypeOK, NEW a \in AdminKeys, CleanupExpiredOffers(a), NEW o \in OfferId
  PROVE  \/ offers'[o] = offers[o]
         \/ Open(o) /\ offers'[o] = [offers[o] EXCEPT !.active = FALSE]
BY DEF CleanupExpiredOffers, AfterCleanup

LEMMA CleanupType ==
  ASSUME TypeOK, MarketTypeOK, NEW a \in AdminKeys, CleanupExpiredOffers(a)
  PROVE  TypeOK' /\ MarketTypeOK'
<1>1. TypeOK'
  BY NextType DEF CleanupExpiredOffers
<1>2. offers' \in [OfferId -> Offer \cup {None}]
  <2>1. ASSUME NEW o \in OfferId PROVE offers'[o] \in Offer \cup {None}
    <3>1. CASE offers'[o] = offers[o]
      BY <3>1 DEF MarketTypeOK
    <3>2. CASE Open(o) /\ offers'[o] = [offers[o] EXCEPT !.active = FALSE]
      BY <3>2, NoRecordIsNone DEF Offer
    <3> QED BY <3>1, <3>2, CleanupCloses
  <2>2. offers' = [o \in OfferId |-> offers'[o]]
    BY DEF CleanupExpiredOffers
  <2> QED BY <2>1, <2>2
<1>3. \A o \in OfferId : Listed(o)' <=> Listed(o)
  BY CleanupCloses, NoRecordIsNone DEF Listed, Open
<1> QED BY <1>1, <1>2, <1>3 DEF MarketTypeOK, CleanupExpiredOffers, mktControlVars

LEMMA AdministersType ==
  ASSUME TypeOK, MarketTypeOK, Administers
  PROVE  TypeOK' /\ MarketTypeOK'
<1>1. TypeOK'
  BY NextType DEF Administers
<1>2. /\ OffersTyped'
      /\ OffersTyped
  BY DEF MarketTypeOK, OffersTyped, Administers, offerVars, Listed
<1>3. /\ now' \in 0 .. MaxTime
      /\ mktAdmin' \in AdminKeys \cup {None}
      /\ mktPaused' \in BOOLEAN
      /\ minPrice' \in Int
  <2>1. CASE UNCHANGED mktVars
    BY <2>1 DEF mktVars, mktControlVars, MarketTypeOK
  <2>2. CASE LedgerCloses /\ UNCHANGED <<mktControlVars, mktNonce>>
    BY <2>2 DEF LedgerCloses, mktControlVars, MarketTypeOK
  <2>3. ASSUME NEW a \in AdminKeys,
               SetMktPaused(a, TRUE) \/ SetMktPaused(a, FALSE) \/ UpgradeMarket(a)
        PROVE  /\ now' = now /\ mktAdmin' = mktAdmin /\ minPrice' = minPrice
               /\ mktPaused' \in BOOLEAN
    BY <2>3 DEF SetMktPaused, UpgradeMarket, mktControlVars, MarketTypeOK
  <2>4. ASSUME NEW a \in AdminKeys, NEW floor \in MinPriceArg,
               InitializeMarket(a, floor) \/ UpdateMinPrice(a, floor)
        PROVE  /\ now' = now /\ mktAdmin' \in AdminKeys \cup {None} /\ minPrice' = floor
               /\ mktPaused' = mktPaused
    BY <2>4 DEF InitializeMarket, UpdateMinPrice, MarketTypeOK
  <2> QED BY <2>1, <2>2, <2>3, <2>4 DEF Administers, MarketTypeOK
<1>4. mktNonce' \in [Address -> Nat]
  <2>1. \/ mktNonce' = mktNonce
        \/ \E a \in AdminKeys : ConsumeMktNonce(a)
    BY DEF Administers, LedgerCloses, SetMktPaused, UpgradeMarket, InitializeMarket,
           UpdateMinPrice, mktVars
  <2> QED BY <2>1, MktNonceType DEF MarketTypeOK
<1> QED BY <1>1, <1>2, <1>3, <1>4 DEF MarketTypeOK, OffersTyped, Listed

LEMMA MarketTypeStep ==
  ASSUME TypeOK, MarketTypeOK, [MarketNext]_allMktVars
  PROVE  TypeOK' /\ MarketTypeOK'
<1>1. CASE [Next]_vars /\ UNCHANGED mktVars
  BY <1>1, NextType DEF mktVars, mktControlVars, offerVars, MarketTypeOK, Listed
<1> QED
  BY <1>1, MarketCases, AdministersType, CreateOfferType, CancelOfferType, CleanupType

LEMMA MarketInitType == MarketInit => MarketTypeOK
<1> SUFFICES ASSUME MarketInit PROVE MarketTypeOK
  OBVIOUS
<1>1. << >> \in Seq(OfferId)
  OBVIOUS
<1>2. mktAdmin \in AdminKeys \cup {None} /\ mktPaused \in BOOLEAN
  BY DEF MarketInit
<1>3. \A o \in OfferId : ~Listed(o) /\ ~(o < offerCount)
  BY DEF MarketInit, Listed, OfferId
<1> QED BY <1>1, <1>2, <1>3 DEF MarketInit, MarketTypeOK

LEMMA MarketTypesAlways == MarketSpec => [](TypeOK /\ MarketTypeOK)
BY InitType, MarketInitType, MarketTypeStep, PTL DEF MarketSpec

(* Every variable of the marketplace keeps its type, and the offers that    *)
(* exist are those whose ids lie below the counter.                         *)
THEOREM MarketTypeCorrect == MarketSpec => []MarketTypeOK
BY MarketTypesAlways, PTL

-----------------------------------------------------------------------------
(* What the registry does with a credit in escrow. *)

OnlyCreditsAreOwned == \A c \in CreditId : ~Exists(c) => owner[c] = None

LEMMA OwnedStep ==
  ASSUME TypeOK, OnlyCreditsAreOwned, [Next]_vars
  PROVE  OnlyCreditsAreOwned'
<1> SUFFICES ASSUME NEW x \in CreditId, ~Exists(x)'
             PROVE  owner'[x] = owner[x]
  BY CreditsAreKept DEF OnlyCreditsAreOwned, KeepsCredit, Exists
<1>0. /\ owner \in [CreditId -> Address \cup {None}]
      /\ status \in [CreditId -> Status \cup {"Absent"}]
      /\ status'[x] = "Absent"
  BY DEF TypeOK, Exists
<1>1. CASE UNCHANGED vars \/ (GovernanceStep /\ UNCHANGED creditVars)
  BY <1>1 DEF vars, creditVars
<1>2. ASSUME NEW i \in IssuerKeys, NEW p \in Project, NEW v \in Vintage, NEW m \in Methodology,
             NEW g \in Geography, NEW t \in TonnesArg, SubmitCredit(i, p, v, m, g, t)
      PROVE  owner'[x] = owner[x]
  <2>1. /\ owner' = [owner EXCEPT ![creditNonce] = i]
        /\ status' = [status EXCEPT ![creditNonce] = "Pending"]
    BY <1>2 DEF SubmitCredit
  <2> QED BY <1>0, <2>1
<1>3. ASSUME NEW from \in Account, NEW to \in Recipient, NEW c \in CreditId,
             TransferCredit(from, to, c)
      PROVE  owner'[x] = owner[x]
  BY <1>0, <1>3 DEF TransferCredit, OwnedBy, Exists
<1>4. ASSUME NEW a \in Account, NEW c \in CreditId, NEW t \in SplitArg, SplitCredit(a, c, t)
      PROVE  owner'[x] = owner[x]
  <2>1. /\ Exists(c)
        /\ owner' = [owner EXCEPT ![creditNonce] = a, ![creditNonce + 1] = a]
        /\ status' = [status EXCEPT ![creditNonce] = status[c], ![creditNonce + 1] = status[c],
                                    ![c] = "Retired"]
    BY <1>4 DEF SplitCredit, OwnedBy
  <2> QED BY <1>0, <2>1 DEF Exists
<1>5. ASSUME NEW a \in Account, NEW ids \in MergeArg, MergeCredits(a, ids)
      PROVE  owner'[x] = owner[x]
  <2>1. /\ owner' = [owner EXCEPT ![creditNonce] = a]
        /\ status'[x] = IF x = creditNonce THEN "Active"
                        ELSE IF x \in Range(ids) THEN "Retired" ELSE status[x]
    BY <1>5 DEF MergeCredits
  <2> QED BY <1>0, <2>1
<1>6. ASSUME NEW c \in CreditId,
             \/ \E v \in VerifierKeys : ApproveAndMint(v, c) \/ FlagCredit(v, c)
             \/ \E a \in AdminKeys : ExpireCredit(a, c)
             \/ DisputeCredit(c)
             \/ \E a \in AdminKeys, o \in {0, 1} : ResolveDispute(a, c, o)
      PROVE  owner' = owner
  BY <1>6 DEF ApproveAndMint, FlagCredit, ExpireCredit, DisputeCredit, ResolveDispute, SetStatus
<1>7. ASSUME NEW C \in SUBSET CreditId, RetirementContractMarksRetired(C)
      PROVE  owner' = owner
  BY <1>7 DEF RetirementContractMarksRetired, MarkRetired
<1> QED
  BY <1>1, <1>2, <1>3, <1>4, <1>5, <1>6, <1>7
     DEF Next, RegistryStep, SubmissionStep, HandlingStep

(* No call of the registry moves a credit that a contract owns.             *)
LEMMA ContractsKeepCustody ==
  ASSUME TypeOK, OnlyCreditsAreOwned, [Next]_vars,
         NEW c \in CreditId, owner[c] \in Contract
  PROVE  owner'[c] = owner[c]
<1>1. Exists(c)
  BY DEF OnlyCreditsAreOwned
<1> QED BY <1>1, CustodyStep

LEMMA TransferKeepsOwned ==
  ASSUME TypeOK, OnlyCreditsAreOwned, NEW from \in Address, NEW to \in Address,
         NEW c \in CreditId, TransferCredit(from, to, c)
  PROVE  OnlyCreditsAreOwned'
BY DEF TypeOK, TransferCredit, OwnedBy, OnlyCreditsAreOwned, Exists

LEMMA MarketOwnedStep ==
  ASSUME TypeOK, MarketTypeOK, OnlyCreditsAreOwned, [MarketNext]_allMktVars
  PROVE  OnlyCreditsAreOwned'
<1>1. ASSUME NEW s \in Account, NEW c \in CreditId, NEW price \in Price,
             NEW t \in OfferTonnes, NEW x \in Expiry, CreateOffer(s, c, price, t, x)
      PROVE  OnlyCreditsAreOwned'
  BY <1>1, TransferKeepsOwned DEF CreateOffer
<1>2. ASSUME NEW s \in Account, NEW o \in OfferId, CancelOffer(s, o)
      PROVE  OnlyCreditsAreOwned'
  <2>1. offers[o].credit \in CreditId
    BY <1>2, NoRecordIsNone DEF CancelOffer, Cancellable, Offer
  <2> QED BY <1>2, <2>1, TransferKeepsOwned DEF CancelOffer
<1>3. ASSUME UNCHANGED vars PROVE OnlyCreditsAreOwned'
  BY <1>3, OwnedStep
<1> QED
  BY <1>1, <1>2, <1>3, MarketCases, OwnedStep DEF Administers, CleanupExpiredOffers

-----------------------------------------------------------------------------
(* Escrow. *)

EscrowInv ==
  /\ TypeOK
  /\ MarketTypeOK
  /\ OnlyCreditsAreOwned
  /\ EscrowHeld

LEMMA CreateOfferHolds ==
  ASSUME EscrowInv, NEW s \in Account, NEW c \in CreditId, NEW price \in Price,
         NEW t \in OfferTonnes, NEW x \in Expiry, CreateOffer(s, c, price, t, x)
  PROVE  EscrowHeld'
<1>1. /\ offerCount \in OfferId /\ ~Listed(offerCount)
      /\ \A o \in OfferId : Listed(o)' <=> Listed(o) \/ o = offerCount
      /\ \A o \in OfferId : o # offerCount => offers'[o] = offers[o]
      /\ offers'[offerCount].credit = c
  BY CreateOfferEffect DEF EscrowInv
<1>2. /\ owner' = [owner EXCEPT ![c] = Market]
      /\ owner[c] = s
      /\ owner \in [CreditId -> Address \cup {None}]
      /\ escrowed' = escrowed \cup {offerCount}
  BY DEF EscrowInv, TypeOK, CreateOffer, TransferCredit, OwnedBy
<1>3. escrowed \subseteq OfferId /\ offerCount \notin escrowed
  BY <1>1 DEF EscrowInv, EscrowHeld, MarketTypeOK
<1>4. ASSUME NEW o \in escrowed
      PROVE  /\ o \in OfferId /\ o # offerCount /\ offers'[o] = offers[o]
             /\ Listed(o)' /\ offers[o].credit # c
             /\ owner'[offers[o].credit] = Market
  <2>1. Listed(o) /\ owner[offers[o].credit] = Market /\ o \in OfferId
    BY <1>3 DEF EscrowInv, EscrowHeld
  <2>2. offers[o].credit \in CreditId
    BY <2>1, NoRecordIsNone DEF EscrowInv, Offer
  <2> QED BY <1>1, <1>2, <1>3, <2>1, <2>2
<1>5. ASSUME NEW o \in OfferId, Open(o)'
      PROVE  o \in escrowed'
  <2>1. CASE o = offerCount
    BY <1>2, <2>1
  <2>2. CASE o # offerCount
    BY <1>1, <1>2, <1>5, <2>2 DEF EscrowInv, EscrowHeld, Open, Listed
  <2> QED BY <2>1, <2>2
<1>6. ASSUME NEW o \in escrowed'
      PROVE  /\ Listed(o)' /\ owner'[offers'[o].credit] = Market
             /\ \A y \in escrowed' : offers'[y].credit = offers'[o].credit => y = o
  <2>1. CASE o = offerCount
    BY <1>1, <1>2, <1>4, <2>1
  <2>2. CASE o \in escrowed
    <3>1. \A y \in escrowed : offers[y].credit = offers[o].credit => y = o
      BY <2>2 DEF EscrowInv, EscrowHeld
    <3> QED BY <1>1, <1>2, <1>4, <2>2, <3>1
  <2> QED BY <1>2, <2>1, <2>2
<1> QED BY <1>5, <1>6 DEF EscrowHeld

LEMMA CancelOfferHolds ==
  ASSUME EscrowInv, NEW s \in Account, NEW o \in OfferId, CancelOffer(s, o)
  PROVE  EscrowHeld'
<1>1. /\ Open(o) /\ offers[o] \in Offer /\ o \in escrowed
      /\ offers' = [offers EXCEPT ![o] = [offers[o] EXCEPT !.active = FALSE]]
      /\ escrowed' = escrowed \ {o}
      /\ owner' = [owner EXCEPT ![offers[o].credit] = s]
      /\ offers \in [OfferId -> Offer \cup {None}]
      /\ escrowed \subseteq OfferId
  BY NoRecordIsNone
     DEF EscrowInv, EscrowHeld, MarketTypeOK, CancelOffer, Cancellable, TransferCredit
<1>2. \A x \in OfferId : x # o => offers'[x] = offers[x]
  BY <1>1
<1>3. ~Open(o)'
  BY <1>1 DEF Open, Offer
<1>4. ASSUME NEW x \in OfferId, Open(x)' PROVE x \in escrowed'
  BY <1>1, <1>2, <1>3, <1>4 DEF EscrowInv, EscrowHeld, Open, Listed
<1>5. ASSUME NEW x \in escrowed'
      PROVE  /\ Listed(x)' /\ owner'[offers'[x].credit] = Market
             /\ \A y \in escrowed' : offers'[y].credit = offers'[x].credit => y = x
  <2>1. x \in OfferId /\ x # o /\ x \in escrowed
    BY <1>1
  <2>2. /\ Listed(x) /\ owner[offers[x].credit] = Market
        /\ \A y \in escrowed : offers[y].credit = offers[x].credit => y = x
    BY <2>1 DEF EscrowInv, EscrowHeld
  <2>3. offers[x].credit \in CreditId /\ offers[x].credit # offers[o].credit
    BY <1>1, <2>1, <2>2, NoRecordIsNone DEF EscrowInv, Offer
  <2>4. owner'[offers[x].credit] = Market
    BY <1>1, <2>2, <2>3 DEF EscrowInv, TypeOK
  <2> QED BY <1>1, <1>2, <2>1, <2>2, <2>4 DEF Listed
<1> QED BY <1>4, <1>5 DEF EscrowHeld

LEMMA CleanupHolds ==
  ASSUME EscrowInv, NEW a \in AdminKeys, CleanupExpiredOffers(a)
  PROVE  EscrowHeld'
<1>1. /\ escrowed \subseteq OfferId /\ escrowed' = escrowed /\ owner' = owner
      /\ MarketTypeOK
  BY DEF EscrowInv, MarketTypeOK, CleanupExpiredOffers, vars, creditVars
<1>2. ASSUME NEW o \in OfferId
      PROVE  /\ Listed(o) => Listed(o)' /\ offers'[o].credit = offers[o].credit
             /\ Open(o)' => Open(o)
  <2>1. CASE offers'[o] = offers[o]
    BY <2>1 DEF Open, Listed
  <2>2. CASE Open(o) /\ offers'[o] = [offers[o] EXCEPT !.active = FALSE]
    <3>1. offers[o] \in Offer /\ [offers[o] EXCEPT !.active = FALSE] \in Offer
      BY <1>1, <2>2, NoRecordIsNone DEF Offer
    <3> QED BY <2>2, <3>1 DEF Listed, Offer
  <2> QED BY <1>1, <2>1, <2>2, CleanupCloses
<1> QED BY <1>1, <1>2 DEF EscrowInv, EscrowHeld

LEMMA EscrowStep ==
  ASSUME EscrowInv, [MarketNext]_allMktVars
  PROVE  EscrowInv'
<1>1. TypeOK' /\ MarketTypeOK' /\ OnlyCreditsAreOwned'
  BY MarketTypeStep, MarketOwnedStep DEF EscrowInv
<1>2. ASSUME [Next]_vars, UNCHANGED offerVars
      PROVE  EscrowHeld'
  <2>1. ASSUME NEW o \in escrowed PROVE owner'[offers[o].credit] = owner[offers[o].credit]
    <3>1. o \in OfferId /\ Listed(o) /\ owner[offers[o].credit] = Market
      BY DEF EscrowInv, EscrowHeld, MarketTypeOK
    <3>2. offers[o].credit \in CreditId
      BY <3>1, NoRecordIsNone DEF EscrowInv, Offer
    <3> QED BY <1>2, <3>1, <3>2, ContractsKeepCustody DEF EscrowInv
  <2> QED BY <1>2, <2>1 DEF offerVars, EscrowInv, EscrowHeld, Open, Listed
<1>3. EscrowHeld'
  BY <1>2, MarketCases, CreateOfferHolds, CancelOfferHolds, CleanupHolds
     DEF Administers, mktVars
<1> QED BY <1>1, <1>3 DEF EscrowInv

LEMMA EscrowAlways == MarketSpec => []EscrowInv
<1>1. Init /\ MarketInit => EscrowInv
  <2> SUFFICES ASSUME Init, MarketInit PROVE EscrowInv
    OBVIOUS
  <2>1. OnlyCreditsAreOwned
    BY DEF Init, CreditInit, OnlyCreditsAreOwned
  <2>2. EscrowHeld
    BY DEF MarketInit, EscrowHeld, Open, Listed
  <2> QED BY <2>1, <2>2, InitType, MarketInitType DEF EscrowInv
<1>2. EscrowInv /\ [MarketNext]_allMktVars => EscrowInv'
  BY EscrowStep
<1> QED BY <1>1, <1>2, PTL DEF MarketSpec

(* Whatever the registry does meanwhile, the credit of every escrowed offer *)
(* belongs to the market and to no second offer.                            *)
THEOREM EscrowIsHeld == MarketSpec => []EscrowHeld
<1>1. EscrowInv => EscrowHeld
  BY DEF EscrowInv
<1> QED BY <1>1, EscrowAlways, PTL

(* A credit leaves the market only to the seller of the open offer that     *)
(* escrowed it, in the step that closes that offer.                         *)
THEOREM EscrowGoesBack == MarketSpec => EscrowReturnsToSeller
<1>1. ASSUME EscrowInv, [MarketNext]_allMktVars,
             NEW c \in CreditId, owner[c] = Market, owner'[c] # Market
      PROVE  \E o \in escrowed :
               /\ Open(o) /\ offers[o].credit = c /\ offers[o].seller = owner'[c]
               /\ ~offers'[o].active /\ o \notin escrowed'
  <2>1. ~[Next]_vars
    BY <1>1, ContractsKeepCustody DEF EscrowInv
  <2>2. ASSUME NEW s \in Account, NEW x \in CreditId, NEW price \in Price,
               NEW t \in OfferTonnes, NEW e \in Expiry, CreateOffer(s, x, price, t, e)
        PROVE  FALSE
    BY <1>1, <2>2 DEF CreateOffer, TransferCredit, EscrowInv, TypeOK
  <2>3. PICK s \in Account, o \in OfferId : CancelOffer(s, o)
    BY <1>1, <2>1, <2>2, MarketCases DEF Administers, CleanupExpiredOffers
  <2>4. /\ Open(o) /\ offers[o].seller = s /\ offers[o] \in Offer /\ o \in escrowed
        /\ owner' = [owner EXCEPT ![offers[o].credit] = s]
        /\ offers' = [offers EXCEPT ![o] = [offers[o] EXCEPT !.active = FALSE]]
        /\ o \notin escrowed'
    BY <1>1, <2>3, NoRecordIsNone
       DEF EscrowInv, EscrowHeld, CancelOffer, Cancellable, TransferCredit
  <2>5. offers[o].credit = c /\ owner'[c] = s
    BY <1>1, <2>4 DEF EscrowInv, TypeOK
  <2>6. ~offers'[o].active
    BY <1>1, <2>4 DEF EscrowInv, MarketTypeOK, Offer
  <2> QED BY <2>4, <2>5, <2>6
<1>2. EscrowInv /\ [MarketNext]_allMktVars =>
        [\A c \in CreditId : owner[c] = Market /\ owner'[c] # Market =>
           \E o \in escrowed :
             /\ Open(o) /\ offers[o].credit = c /\ offers[o].seller = owner'[c]
             /\ ~offers'[o].active /\ o \notin escrowed']_allMktVars
  BY <1>1
<1> QED BY <1>2, EscrowAlways, PTL DEF MarketSpec, EscrowReturnsToSeller

(* Neither contract's pause lets a credit into escrow or out of it.         *)
THEOREM PauseKeepsEscrow == MarketSpec => PauseHoldsEscrow
<1>1. ASSUME EscrowInv, [MarketNext]_allMktVars, paused \/ mktPaused
      PROVE  /\ escrowed' = escrowed
             /\ \A c \in CreditId : owner[c] = Market => owner'[c] = Market
  <2>1. ASSUME [Next]_vars, UNCHANGED offerVars
        PROVE  /\ escrowed' = escrowed
               /\ \A c \in CreditId : owner[c] = Market => owner'[c] = Market
    <3>1. escrowed' = escrowed
      BY <2>1 DEF offerVars
    <3>2. TypeOK /\ OnlyCreditsAreOwned
      BY <1>1 DEF EscrowInv
    <3>3. \A c \in CreditId : owner[c] = Market => owner'[c] = Market
      BY <2>1, <3>2, ContractsKeepCustody
    <3> QED BY <3>1, <3>3
  <2>2. ASSUME NEW s \in Account, NEW x \in CreditId, NEW price \in Price,
               NEW t \in OfferTonnes, NEW e \in Expiry, CreateOffer(s, x, price, t, e)
        PROVE  FALSE
    BY <1>1, <2>2 DEF CreateOffer, TransferCredit
  <2>3. ASSUME NEW s \in Account, NEW o \in OfferId, CancelOffer(s, o)
        PROVE  FALSE
    BY <1>1, <2>3 DEF CancelOffer, TransferCredit
  <2>4. ASSUME NEW a \in AdminKeys, CleanupExpiredOffers(a)
        PROVE  escrowed' = escrowed /\ owner' = owner
    BY <2>4 DEF CleanupExpiredOffers, vars, creditVars
  <2> QED BY <1>1, <2>1, <2>2, <2>3, <2>4, MarketCases DEF Administers, mktVars
<1>2. EscrowInv /\ [MarketNext]_allMktVars =>
        [paused \/ mktPaused =>
           /\ escrowed' = escrowed
           /\ \A c \in CreditId : owner[c] = Market => owner'[c] = Market]_allMktVars
  BY <1>1
<1> QED BY <1>2, EscrowAlways, PTL DEF MarketSpec, PauseHoldsEscrow

-----------------------------------------------------------------------------
(* Offers and their index. *)

(* An offer's terms never change and a closed offer stays closed.           *)
THEOREM OffersStayFinal == MarketSpec => OffersAreFinal
<1>1. ASSUME MarketTypeOK, [MarketNext]_allMktVars, NEW o \in OfferId, Listed(o)
      PROVE  \/ offers'[o] = offers[o]
             \/ offers[o].active /\ offers'[o] = [offers[o] EXCEPT !.active = FALSE]
  <2>1. ASSUME UNCHANGED offerVars PROVE offers' = offers
    BY <2>1 DEF offerVars
  <2>2. ASSUME NEW s \in Account, NEW c \in CreditId, NEW price \in Price,
               NEW t \in OfferTonnes, NEW e \in Expiry, CreateOffer(s, c, price, t, e)
        PROVE  offers'[o] = offers[o]
    <3>1. o # offerCount
      BY <1>1 DEF MarketTypeOK, OfferId
    <3> QED BY <2>2, <3>1 DEF CreateOffer, MarketTypeOK
  <2>3. ASSUME NEW s \in Account, NEW x \in OfferId, CancelOffer(s, x)
        PROVE  \/ offers'[o] = offers[o]
               \/ offers[o].active /\ offers'[o] = [offers[o] EXCEPT !.active = FALSE]
    <3>1. Open(x) /\ offers' = [offers EXCEPT ![x] = [offers[x] EXCEPT !.active = FALSE]]
      BY <2>3 DEF CancelOffer, Cancellable
    <3> QED BY <1>1, <3>1 DEF Open, MarketTypeOK
  <2> QED
    BY <1>1, <2>1, <2>2, <2>3, MarketCases, CleanupCloses DEF Administers, mktVars, Open
<1>2. MarketTypeOK /\ [MarketNext]_allMktVars =>
        [\A o \in OfferId : Listed(o) =>
           \/ offers'[o] = offers[o]
           \/ offers[o].active /\ offers'[o] = [offers[o] EXCEPT !.active = FALSE]]_allMktVars
  BY <1>1
<1> QED BY <1>2, MarketTypeCorrect, PTL DEF MarketSpec, OffersAreFinal

OffersOf(a) == {o \in OfferId : Listed(o) /\ offers[o].seller = a}

LEMMA SellerIndexStep ==
  ASSUME TypeOK, MarketTypeOK, SellerIndexExact, [MarketNext]_allMktVars
  PROVE  SellerIndexExact'
<1>1. ASSUME sellerOffers' = sellerOffers,
             \A o \in OfferId : /\ Listed(o)' <=> Listed(o)
                                /\ Listed(o) => offers'[o].seller = offers[o].seller
      PROVE  SellerIndexExact'
  BY <1>1 DEF SellerIndexExact
<1>2. ASSUME UNCHANGED offerVars PROVE SellerIndexExact'
  BY <1>2 DEF offerVars, SellerIndexExact, Listed
<1>3. ASSUME NEW s \in Account, NEW o \in OfferId, CancelOffer(s, o)
      PROVE  SellerIndexExact'
  <2>1. /\ Open(o) /\ offers[o] \in Offer
        /\ offers' = [offers EXCEPT ![o] = [offers[o] EXCEPT !.active = FALSE]]
        /\ sellerOffers' = sellerOffers
    BY <1>3, NoRecordIsNone DEF CancelOffer, Cancellable
  <2>2. /\ [offers[o] EXCEPT !.active = FALSE] \in Offer
        /\ [offers[o] EXCEPT !.active = FALSE].seller = offers[o].seller
    BY <2>1 DEF Offer
  <2> QED BY <1>1, <2>1, <2>2 DEF MarketTypeOK, Listed
<1>4. ASSUME NEW a \in AdminKeys, CleanupExpiredOffers(a)
      PROVE  SellerIndexExact'
  <2>1. ASSUME NEW o \in OfferId
        PROVE  /\ Listed(o)' <=> Listed(o)
               /\ Listed(o) => offers'[o].seller = offers[o].seller
    <3>1. CASE offers'[o] = offers[o]
      BY <3>1 DEF Listed
    <3>2. CASE Open(o) /\ offers'[o] = [offers[o] EXCEPT !.active = FALSE]
      <4>1. offers[o] \in Offer /\ [offers[o] EXCEPT !.active = FALSE] \in Offer
        BY <3>2, NoRecordIsNone DEF Offer
      <4> QED BY <3>2, <4>1 DEF Listed, Offer
    <3> QED BY <1>4, <3>1, <3>2, CleanupCloses
  <2> QED BY <1>1, <1>4, <2>1 DEF CleanupExpiredOffers
<1>5. ASSUME NEW s \in Account, NEW c \in CreditId, NEW price \in Price,
             NEW t \in OfferTonnes, NEW e \in Expiry, CreateOffer(s, c, price, t, e)
      PROVE  SellerIndexExact'
  <2>1. PICK o \in OfferId :
          /\ o = offerCount /\ ~Listed(o)
          /\ \A x \in OfferId : Listed(x)' <=> Listed(x) \/ x = o
          /\ \A x \in OfferId : x # o => offers'[x] = offers[x]
          /\ offers'[o].seller = s
    BY <1>5, CreateOfferEffect
  <2>2. sellerOffers' = [sellerOffers EXCEPT ![s] = Append(sellerOffers[s], o)]
    BY <1>5, <2>1 DEF CreateOffer, IndexOffer
  <2>3. ASSUME NEW a \in Address
        PROVE  /\ a # s => OffersOf(a)' = OffersOf(a)
               /\ OffersOf(s)' = OffersOf(s) \cup {o} /\ o \notin OffersOf(s)
    BY <2>1 DEF OffersOf
  <2>4. /\ sellerOffers[s] \in Seq(OfferId)
        /\ IsInjective(sellerOffers[s]) /\ Range(sellerOffers[s]) = OffersOf(s)
    BY DEF MarketTypeOK, SellerIndexExact, OffersOf
  <2>5. /\ IsInjective(Append(sellerOffers[s], o))
        /\ Range(Append(sellerOffers[s], o)) = OffersOf(s) \cup {o}
    BY <2>3, <2>4, AppendNewInjective, RangeOfAppend
  <2>6. ASSUME NEW a \in Address
        PROVE  IsInjective(sellerOffers'[a]) /\ Range(sellerOffers'[a]) = OffersOf(a)'
    <3>1. CASE a = s
      BY <2>2, <2>3, <2>5, <3>1 DEF MarketTypeOK
    <3>2. CASE a # s
      BY <2>2, <2>3, <3>2 DEF MarketTypeOK, SellerIndexExact, OffersOf
    <3> QED BY <3>1, <3>2
  <2> QED BY <2>6 DEF SellerIndexExact, OffersOf
<1> QED BY <1>2, <1>3, <1>4, <1>5, MarketCases DEF Administers, mktVars

(* get_offers_by_seller returns each of the seller's offers, once.          *)
THEOREM SellerIndexIsExact == MarketSpec => []SellerIndexExact
<1>1. MarketInit => SellerIndexExact
  BY EmptyInjective DEF MarketInit, SellerIndexExact, Listed
<1>2. TypeOK /\ MarketTypeOK /\ SellerIndexExact /\ [MarketNext]_allMktVars => SellerIndexExact'
  BY SellerIndexStep
<1> QED BY <1>1, <1>2, MarketTypesAlways, PTL DEF MarketSpec
=============================================================================
