------------------------------- MODULE TlbProofs -------------------------------
(***************************************************************************)
(* No stale translation survives a shootdown, whatever the number of CPUs.  *)
(***************************************************************************)
EXTENDS Tlb, TLAPS

LEMMA FillStep ==
    ASSUME IInv, NEW c \in Cpus, Fill(c)
    PROVE  IInv'
<1>1. TypeOK'
    BY DEF IInv, TypeOK, Fill, memoryVars, handlerVars, initiatorVars
<1>2. Support'
  <2>1. AcksBounded'
    BY DEF IInv, TypeOK, Support, AcksBounded, Fresh, Fill, memoryVars, handlerVars,
           initiatorVars
  <2>2. InitiatorCurrent'
    BY DEF IInv, TypeOK, Support, InitiatorCurrent, Fresh, Fill, memoryVars,
           handlerVars, initiatorVars
  <2>3. InitiatorFresh'
    BY DEF IInv, TypeOK, Support, InitiatorFresh, Fresh, Fill, memoryVars, handlerVars,
           initiatorVars
  <2>4. AckedFresh'
    BY DEF IInv, TypeOK, Support, AckedFresh, Fresh, Fill, memoryVars, handlerVars,
           initiatorVars
  <2>5. AckingFresh'
    BY DEF IInv, TypeOK, Support, AckingFresh, Fresh, Fill, memoryVars, handlerVars,
           initiatorVars
  <2>6. WaitedFresh'
    BY DEF IInv, TypeOK, Support, WaitedFresh, Fresh, Fill, memoryVars, handlerVars,
           initiatorVars
  <2> QED
    BY <2>1, <2>2, <2>3, <2>4, <2>5, <2>6 DEF Support
<1>3. NoStaleTranslation'
    BY DEF IInv, TypeOK, NoStaleTranslation, Fresh, Fill, memoryVars, handlerVars,
           initiatorVars
<1> QED
    BY <1>1, <1>2, <1>3 DEF IInv

LEMMA NmiEnterStep ==
    ASSUME IInv, NEW c \in Cpus, NmiEnter(c)
    PROVE  IInv'
<1>1. TypeOK'
    BY DEF IInv, TypeOK, NmiEnter, memoryVars, handlerVars, initiatorVars
<1>2. Support'
  <2>1. AcksBounded'
    BY DEF IInv, TypeOK, Support, AcksBounded, Fresh, NmiEnter, memoryVars,
           handlerVars, initiatorVars
  <2>2. InitiatorCurrent'
    BY DEF IInv, TypeOK, Support, InitiatorCurrent, Fresh, NmiEnter, memoryVars,
           handlerVars, initiatorVars
  <2>3. InitiatorFresh'
    BY DEF IInv, TypeOK, Support, InitiatorFresh, Fresh, NmiEnter, memoryVars,
           handlerVars, initiatorVars
  <2>4. AckedFresh'
    BY DEF IInv, TypeOK, Support, AckedFresh, Fresh, NmiEnter, memoryVars, handlerVars,
           initiatorVars
  <2>5. AckingFresh'
    BY DEF IInv, TypeOK, Support, AckingFresh, Fresh, NmiEnter, memoryVars,
           handlerVars, initiatorVars
  <2>6. WaitedFresh'
    BY DEF IInv, TypeOK, Support, WaitedFresh, Fresh, NmiEnter, memoryVars,
           handlerVars, initiatorVars
  <2> QED
    BY <2>1, <2>2, <2>3, <2>4, <2>5, <2>6 DEF Support
<1>3. NoStaleTranslation'
    BY DEF IInv, TypeOK, NoStaleTranslation, Fresh, NmiEnter, memoryVars, handlerVars,
           initiatorVars
<1> QED
    BY <1>1, <1>2, <1>3 DEF IInv

LEMMA NmiLoadStep ==
    ASSUME IInv, NEW c \in Cpus, NmiLoad(c)
    PROVE  IInv'
<1>1. TypeOK'
    BY DEF IInv, TypeOK, NmiLoad, memoryVars, handlerVars, initiatorVars
<1>2. Support'
  <2>1. AcksBounded'
    BY DEF IInv, TypeOK, Support, AcksBounded, Fresh, NmiLoad, memoryVars, handlerVars,
           initiatorVars
  <2>2. InitiatorCurrent'
    BY DEF IInv, TypeOK, Support, InitiatorCurrent, Fresh, NmiLoad, memoryVars,
           handlerVars, initiatorVars
  <2>3. InitiatorFresh'
    BY DEF IInv, TypeOK, Support, InitiatorFresh, Fresh, NmiLoad, memoryVars,
           handlerVars, initiatorVars
  <2>4. AckedFresh'
    BY DEF IInv, TypeOK, Support, AckedFresh, Fresh, NmiLoad, memoryVars, handlerVars,
           initiatorVars
  <2>5. AckingFresh'
    BY DEF IInv, TypeOK, Support, AckingFresh, Fresh, NmiLoad, memoryVars, handlerVars,
           initiatorVars
  <2>6. WaitedFresh'
    BY DEF IInv, TypeOK, Support, WaitedFresh, Fresh, NmiLoad, memoryVars, handlerVars,
           initiatorVars
  <2> QED
    BY <2>1, <2>2, <2>3, <2>4, <2>5, <2>6 DEF Support
<1>3. NoStaleTranslation'
    BY DEF IInv, TypeOK, NoStaleTranslation, Fresh, NmiLoad, memoryVars, handlerVars,
           initiatorVars
<1> QED
    BY <1>1, <1>2, <1>3 DEF IInv

LEMMA NmiFlushStep ==
    ASSUME IInv, NEW c \in Cpus, NmiFlush(c)
    PROVE  IInv'
<1>1. TypeOK'
    BY DEF IInv, TypeOK, NmiFlush, memoryVars, handlerVars, initiatorVars
<1>2. Support'
  <2>1. AcksBounded'
    BY DEF IInv, TypeOK, Support, AcksBounded, Fresh, NmiFlush, memoryVars,
           handlerVars, initiatorVars
  <2>2. InitiatorCurrent'
    BY DEF IInv, TypeOK, Support, InitiatorCurrent, Fresh, NmiFlush, memoryVars,
           handlerVars, initiatorVars
  <2>3. InitiatorFresh'
    BY DEF IInv, TypeOK, Support, InitiatorFresh, Fresh, NmiFlush, memoryVars,
           handlerVars, initiatorVars
  <2>4. AckedFresh'
    BY DEF IInv, TypeOK, Support, AckedFresh, Fresh, NmiFlush, memoryVars, handlerVars,
           initiatorVars
  <2>5. AckingFresh'
    BY DEF IInv, TypeOK, Support, AckingFresh, Fresh, NmiFlush, memoryVars,
           handlerVars, initiatorVars
  <2>6. WaitedFresh'
    BY DEF IInv, TypeOK, Support, WaitedFresh, Fresh, NmiFlush, memoryVars,
           handlerVars, initiatorVars
  <2> QED
    BY <2>1, <2>2, <2>3, <2>4, <2>5, <2>6 DEF Support
<1>3. NoStaleTranslation'
    BY DEF IInv, TypeOK, NoStaleTranslation, Fresh, NmiFlush, memoryVars, handlerVars,
           initiatorVars
<1> QED
    BY <1>1, <1>2, <1>3 DEF IInv

LEMMA NmiAckStep ==
    ASSUME IInv, NEW c \in Cpus, NmiAck(c)
    PROVE  IInv'
<1>1. TypeOK'
    BY DEF IInv, TypeOK, NmiAck, memoryVars, handlerVars, initiatorVars
<1>2. Support'
  <2>1. AcksBounded'
    BY DEF IInv, TypeOK, Support, AcksBounded, Fresh, NmiAck, memoryVars, handlerVars,
           initiatorVars
  <2>2. InitiatorCurrent'
    BY DEF IInv, TypeOK, Support, InitiatorCurrent, Fresh, NmiAck, memoryVars,
           handlerVars, initiatorVars
  <2>3. InitiatorFresh'
    BY DEF IInv, TypeOK, Support, InitiatorFresh, Fresh, NmiAck, memoryVars,
           handlerVars, initiatorVars
  <2>4. AckedFresh'
    BY DEF IInv, TypeOK, Support, AckedFresh, AckingFresh, Fresh, NmiAck, memoryVars,
           handlerVars, initiatorVars
  <2>5. AckingFresh'
    BY DEF IInv, TypeOK, Support, AckingFresh, Fresh, NmiAck, memoryVars, handlerVars,
           initiatorVars
  <2>6. WaitedFresh'
    BY DEF IInv, TypeOK, Support, WaitedFresh, Fresh, NmiAck, memoryVars, handlerVars,
           initiatorVars
  <2> QED
    BY <2>1, <2>2, <2>3, <2>4, <2>5, <2>6 DEF Support
<1>3. NoStaleTranslation'
    BY DEF IInv, TypeOK, NoStaleTranslation, Fresh, NmiAck, memoryVars, handlerVars,
           initiatorVars
<1> QED
    BY <1>1, <1>2, <1>3 DEF IInv

LEMMA NmiReturnStep ==
    ASSUME IInv, NEW c \in Cpus, NmiReturn(c)
    PROVE  IInv'
<1>1. TypeOK'
    BY DEF IInv, TypeOK, NmiReturn, memoryVars, handlerVars, initiatorVars
<1>2. Support'
  <2>1. AcksBounded'
    BY DEF IInv, TypeOK, Support, AcksBounded, Fresh, NmiReturn, memoryVars,
           handlerVars, initiatorVars
  <2>2. InitiatorCurrent'
    BY DEF IInv, TypeOK, Support, InitiatorCurrent, Fresh, NmiReturn, memoryVars,
           handlerVars, initiatorVars
  <2>3. InitiatorFresh'
    BY DEF IInv, TypeOK, Support, InitiatorFresh, Fresh, NmiReturn, memoryVars,
           handlerVars, initiatorVars
  <2>4. AckedFresh'
    BY DEF IInv, TypeOK, Support, AckedFresh, Fresh, NmiReturn, memoryVars,
           handlerVars, initiatorVars
  <2>5. AckingFresh'
    BY DEF IInv, TypeOK, Support, AckingFresh, Fresh, NmiReturn, memoryVars,
           handlerVars, initiatorVars
  <2>6. WaitedFresh'
    BY DEF IInv, TypeOK, Support, WaitedFresh, Fresh, NmiReturn, memoryVars,
           handlerVars, initiatorVars
  <2> QED
    BY <2>1, <2>2, <2>3, <2>4, <2>5, <2>6 DEF Support
<1>3. NoStaleTranslation'
    BY DEF IInv, TypeOK, NoStaleTranslation, Fresh, NmiReturn, memoryVars, handlerVars,
           initiatorVars
<1> QED
    BY <1>1, <1>2, <1>3 DEF IInv

LEMMA LockPagingStep ==
    ASSUME IInv, NEW c \in Cpus, LockPaging(c)
    PROVE  IInv'
<1>1. TypeOK'
    BY TlbAssumption DEF TlbAssumption, IInv, TypeOK, Sites, Locked, Shooting,
           LockPaging, memoryVars, handlerVars, initiatorVars, At, Goto
<1>2. Support'
  <2>1. AcksBounded'
    BY DEF IInv, TypeOK, Support, AcksBounded, Fresh, LockPaging, memoryVars,
           handlerVars, initiatorVars, At, Goto
  <2>2. InitiatorCurrent'
    BY DEF IInv, TypeOK, Support, InitiatorCurrent, Fresh, Published, Shooting,
           LockPaging, memoryVars, handlerVars, initiatorVars, At, Goto
  <2>3. InitiatorFresh'
    BY DEF IInv, TypeOK, Support, InitiatorFresh, Fresh, LockPaging, memoryVars,
           handlerVars, initiatorVars, At, Goto
  <2>4. AckedFresh'
    BY DEF IInv, TypeOK, Support, AckedFresh, Fresh, Published, Shooting, LockPaging,
           memoryVars, handlerVars, initiatorVars, At, Goto
  <2>5. AckingFresh'
    BY DEF IInv, TypeOK, Support, AckingFresh, Fresh, Published, Shooting, LockPaging,
           memoryVars, handlerVars, initiatorVars, At, Goto
  <2>6. WaitedFresh'
    BY DEF IInv, TypeOK, Support, WaitedFresh, Fresh, LockPaging, memoryVars,
           handlerVars, initiatorVars, At, Goto
  <2> QED
    BY <2>1, <2>2, <2>3, <2>4, <2>5, <2>6 DEF Support
<1>3. NoStaleTranslation'
    BY DEF IInv, TypeOK, NoStaleTranslation, Fresh, LockPaging, memoryVars,
           handlerVars, initiatorVars, At, Goto
<1> QED
    BY <1>1, <1>2, <1>3 DEF IInv

LEMMA StorePteStep ==
    ASSUME IInv, NEW c \in Cpus, StorePte(c)
    PROVE  IInv'
<1>1. TypeOK'
    BY DEF IInv, TypeOK, Sites, Locked, Shooting, StorePte, memoryVars, handlerVars,
           initiatorVars, At, Goto
<1>2. Support'
  <2>1. AcksBounded'
    BY DEF IInv, TypeOK, Support, AcksBounded, Fresh, StorePte, memoryVars,
           handlerVars, initiatorVars, At, Goto
  <2>2. InitiatorCurrent'
    BY DEF IInv, TypeOK, InitiatorCurrent, Fresh, Published, Locked, Shooting,
           StorePte, memoryVars, handlerVars, initiatorVars, At, Goto
  <2>3. InitiatorFresh'
    BY DEF IInv, TypeOK, InitiatorFresh, Fresh, Locked, StorePte, memoryVars,
           handlerVars, initiatorVars, At, Goto
  <2>4. AckedFresh'
    BY DEF IInv, TypeOK, AckedFresh, Fresh, Published, Locked, Shooting, StorePte,
           memoryVars, handlerVars, initiatorVars, At, Goto
  <2>5. AckingFresh'
    BY DEF IInv, TypeOK, AckingFresh, Fresh, Published, Locked, Shooting, StorePte,
           memoryVars, handlerVars, initiatorVars, At, Goto
  <2>6. WaitedFresh'
    BY DEF IInv, TypeOK, WaitedFresh, Fresh, Locked, StorePte, memoryVars, handlerVars,
           initiatorVars, At, Goto
  <2> QED
    BY <2>1, <2>2, <2>3, <2>4, <2>5, <2>6 DEF Support
<1>3. NoStaleTranslation'
    BY DEF IInv, TypeOK, NoStaleTranslation, Fresh, Locked, StorePte, memoryVars,
           handlerVars, initiatorVars, At, Goto
<1> QED
    BY <1>1, <1>2, <1>3 DEF IInv

LEMMA InvalidateLocalStep ==
    ASSUME IInv, NEW c \in Cpus, InvalidateLocal(c)
    PROVE  IInv'
<1>1. TypeOK'
    BY DEF IInv, TypeOK, Sites, Locked, Shooting, InvalidateLocal, memoryVars,
           handlerVars, initiatorVars, At, Goto
<1>2. Support'
  <2>1. AcksBounded'
    BY DEF IInv, TypeOK, Support, AcksBounded, Fresh, InvalidateLocal, memoryVars,
           handlerVars, initiatorVars, At, Goto
  <2>2. InitiatorCurrent'
    BY DEF IInv, TypeOK, InitiatorCurrent, Fresh, Published, Locked, Shooting,
           InvalidateLocal, memoryVars, handlerVars, initiatorVars, At, Goto
  <2>3. InitiatorFresh'
    BY DEF IInv, TypeOK, InitiatorFresh, Fresh, Locked, InvalidateLocal, memoryVars,
           handlerVars, initiatorVars, At, Goto
  <2>4. AckedFresh'
    BY DEF IInv, TypeOK, AckedFresh, Fresh, Published, Locked, Shooting,
           InvalidateLocal, memoryVars, handlerVars, initiatorVars, At, Goto
  <2>5. AckingFresh'
    BY DEF IInv, TypeOK, AckingFresh, Fresh, Published, Locked, Shooting,
           InvalidateLocal, memoryVars, handlerVars, initiatorVars, At, Goto
  <2>6. WaitedFresh'
    BY DEF IInv, TypeOK, WaitedFresh, Fresh, Locked, InvalidateLocal, memoryVars,
           handlerVars, initiatorVars, At, Goto
  <2> QED
    BY <2>1, <2>2, <2>3, <2>4, <2>5, <2>6 DEF Support
<1>3. NoStaleTranslation'
    BY DEF IInv, TypeOK, NoStaleTranslation, Fresh, InvalidateLocal, memoryVars,
           handlerVars, initiatorVars, At, Goto
<1> QED
    BY <1>1, <1>2, <1>3 DEF IInv

LEMMA ShootAloneStep ==
    ASSUME IInv, NEW c \in Cpus, ShootAlone(c)
    PROVE  IInv'
<1>1. TypeOK'
    BY DEF IInv, TypeOK, Sites, Locked, Shooting, ShootAlone, memoryVars, handlerVars,
           initiatorVars, At, Goto
<1>2. Support'
  <2>1. AcksBounded'
    BY DEF IInv, TypeOK, Support, AcksBounded, Fresh, ShootAlone, memoryVars,
           handlerVars, initiatorVars, At, Goto
  <2>2. InitiatorCurrent'
    BY DEF IInv, TypeOK, InitiatorCurrent, Fresh, Published, Locked, Shooting,
           ShootAlone, memoryVars, handlerVars, initiatorVars, At, Goto
  <2>3. InitiatorFresh'
    BY DEF IInv, TypeOK, InitiatorFresh, Fresh, Locked, ShootAlone, memoryVars,
           handlerVars, initiatorVars, At, Goto
  <2>4. AckedFresh'
    BY DEF IInv, TypeOK, AckedFresh, Fresh, Published, Locked, Shooting, ShootAlone,
           memoryVars, handlerVars, initiatorVars, At, Goto
  <2>5. AckingFresh'
    BY DEF IInv, TypeOK, AckingFresh, Fresh, Published, Locked, Shooting, ShootAlone,
           memoryVars, handlerVars, initiatorVars, At, Goto
  <2>6. WaitedFresh'
    BY DEF IInv, TypeOK, WaitedFresh, Fresh, Locked, ShootAlone, memoryVars,
           handlerVars, initiatorVars, At, Goto
  <2> QED
    BY <2>1, <2>2, <2>3, <2>4, <2>5, <2>6 DEF Support
<1>3. NoStaleTranslation'
    BY DEF IInv, TypeOK, Support, InitiatorFresh, NoStaleTranslation, Fresh,
           ShootAlone, memoryVars, handlerVars, initiatorVars, At, Goto
<1> QED
    BY <1>1, <1>2, <1>3 DEF IInv

LEMMA ShootLockStep ==
    ASSUME IInv, NEW c \in Cpus, ShootLock(c)
    PROVE  IInv'
<1>1. TypeOK'
    BY DEF IInv, TypeOK, Sites, Locked, Shooting, ShootLock, memoryVars, handlerVars,
           initiatorVars, At, Goto
<1>2. Support'
  <2>1. AcksBounded'
    BY DEF IInv, TypeOK, Support, AcksBounded, Fresh, ShootLock, memoryVars,
           handlerVars, initiatorVars, At, Goto
  <2>2. InitiatorCurrent'
    BY DEF IInv, TypeOK, InitiatorCurrent, Fresh, Published, Locked, Shooting,
           ShootLock, memoryVars, handlerVars, initiatorVars, At, Goto
  <2>3. InitiatorFresh'
    BY DEF IInv, TypeOK, InitiatorFresh, Fresh, Locked, ShootLock, memoryVars,
           handlerVars, initiatorVars, At, Goto
  <2>4. AckedFresh'
    BY DEF IInv, TypeOK, AckedFresh, Fresh, Published, Locked, Shooting, ShootLock,
           memoryVars, handlerVars, initiatorVars, At, Goto
  <2>5. AckingFresh'
    BY DEF IInv, TypeOK, AckingFresh, Fresh, Published, Locked, Shooting, ShootLock,
           memoryVars, handlerVars, initiatorVars, At, Goto
  <2>6. WaitedFresh'
    BY DEF IInv, TypeOK, WaitedFresh, Fresh, Locked, ShootLock, memoryVars,
           handlerVars, initiatorVars, At, Goto
  <2> QED
    BY <2>1, <2>2, <2>3, <2>4, <2>5, <2>6 DEF Support
<1>3. NoStaleTranslation'
    BY DEF IInv, TypeOK, NoStaleTranslation, Fresh, ShootLock, memoryVars, handlerVars,
           initiatorVars, At, Goto
<1> QED
    BY <1>1, <1>2, <1>3 DEF IInv

LEMMA NewGenerationStep ==
    ASSUME IInv, NEW c \in Cpus, NewGeneration(c)
    PROVE  IInv'
<1>1. TypeOK'
    BY DEF IInv, TypeOK, Sites, Locked, Shooting, NewGeneration, memoryVars,
           handlerVars, initiatorVars, At, Goto
<1>2. Support'
  <2>1. AcksBounded'
    BY DEF IInv, TypeOK, Support, AcksBounded, Fresh, NewGeneration, memoryVars,
           handlerVars, initiatorVars, At, Goto
  <2>2. InitiatorCurrent'
    BY DEF IInv, TypeOK, InitiatorCurrent, Fresh, Published, Locked, Shooting,
           NewGeneration, memoryVars, handlerVars, initiatorVars, At, Goto
  <2>3. InitiatorFresh'
    BY DEF IInv, TypeOK, InitiatorFresh, Fresh, Locked, NewGeneration, memoryVars,
           handlerVars, initiatorVars, At, Goto
  <2>4. AckedFresh'
    BY DEF IInv, TypeOK, Support, AcksBounded, AckedFresh, Fresh, NewGeneration,
           memoryVars, handlerVars, initiatorVars, At, Goto
  <2>5. AckingFresh'
    BY DEF IInv, TypeOK, Support, AcksBounded, AckingFresh, Fresh, NewGeneration,
           memoryVars, handlerVars, initiatorVars, At, Goto
  <2>6. WaitedFresh'
    BY DEF IInv, TypeOK, WaitedFresh, Fresh, Shooting, NewGeneration, memoryVars,
           handlerVars, initiatorVars, At, Goto
  <2> QED
    BY <2>1, <2>2, <2>3, <2>4, <2>5, <2>6 DEF Support
<1>3. NoStaleTranslation'
    BY DEF IInv, TypeOK, NoStaleTranslation, Fresh, NewGeneration, memoryVars,
           handlerVars, initiatorVars, At, Goto
<1> QED
    BY <1>1, <1>2, <1>3 DEF IInv

LEMMA AckLoadStep ==
    ASSUME IInv, NEW c \in Cpus, AckLoad(c)
    PROVE  IInv'
<1>1. TypeOK'
    BY DEF IInv, TypeOK, Sites, Locked, Shooting, AckLoad, memoryVars, handlerVars,
           initiatorVars, At, Goto
<1>2. Support'
  <2>1. AcksBounded'
    BY DEF IInv, TypeOK, Support, AcksBounded, Fresh, AckLoad, memoryVars, handlerVars,
           initiatorVars, At, Goto
  <2>2. InitiatorCurrent'
    BY DEF IInv, TypeOK, Support, InitiatorCurrent, Fresh, Published, Shooting,
           AckLoad, memoryVars, handlerVars, initiatorVars, At, Goto
  <2>3. InitiatorFresh'
    BY DEF IInv, TypeOK, InitiatorFresh, Fresh, Locked, AckLoad, memoryVars,
           handlerVars, initiatorVars, At, Goto
  <2>4. AckedFresh'
    BY DEF IInv, TypeOK, Support, AckedFresh, Fresh, Published, Shooting, AckLoad,
           memoryVars, handlerVars, initiatorVars, At, Goto
  <2>5. AckingFresh'
    BY DEF IInv, TypeOK, Support, AckingFresh, Fresh, Published, Shooting, AckLoad,
           memoryVars, handlerVars, initiatorVars, At, Goto
  <2>6. WaitedFresh'
    BY DEF IInv, TypeOK, WaitedFresh, Fresh, Shooting, AckLoad, memoryVars,
           handlerVars, initiatorVars, At, Goto
  <2> QED
    BY <2>1, <2>2, <2>3, <2>4, <2>5, <2>6 DEF Support
<1>3. NoStaleTranslation'
    BY DEF IInv, TypeOK, NoStaleTranslation, Fresh, AckLoad, memoryVars, handlerVars,
           initiatorVars, At, Goto
<1> QED
    BY <1>1, <1>2, <1>3 DEF IInv

LEMMA AckFlushStep ==
    ASSUME IInv, NEW c \in Cpus, AckFlush(c)
    PROVE  IInv'
<1>1. TypeOK'
    BY DEF IInv, TypeOK, Sites, Locked, Shooting, AckFlush, memoryVars, handlerVars,
           initiatorVars, At, Goto
<1>2. Support'
  <2>1. AcksBounded'
    BY DEF IInv, TypeOK, Support, AcksBounded, Fresh, AckFlush, memoryVars,
           handlerVars, initiatorVars, At, Goto
  <2>2. InitiatorCurrent'
    BY DEF IInv, TypeOK, Support, InitiatorCurrent, Fresh, Published, Shooting,
           AckFlush, memoryVars, handlerVars, initiatorVars, At, Goto
  <2>3. InitiatorFresh'
    BY DEF IInv, TypeOK, InitiatorFresh, Fresh, Locked, AckFlush, memoryVars,
           handlerVars, initiatorVars, At, Goto
  <2>4. AckedFresh'
    BY DEF IInv, TypeOK, Support, AckedFresh, Fresh, Published, Shooting, AckFlush,
           memoryVars, handlerVars, initiatorVars, At, Goto
  <2>5. AckingFresh'
    BY DEF IInv, TypeOK, Support, AckingFresh, Fresh, Published, Shooting, AckFlush,
           memoryVars, handlerVars, initiatorVars, At, Goto
  <2>6. WaitedFresh'
    BY DEF IInv, TypeOK, WaitedFresh, Fresh, Shooting, AckFlush, memoryVars,
           handlerVars, initiatorVars, At, Goto
  <2> QED
    BY <2>1, <2>2, <2>3, <2>4, <2>5, <2>6 DEF Support
<1>3. NoStaleTranslation'
    BY DEF IInv, TypeOK, NoStaleTranslation, Fresh, AckFlush, memoryVars, handlerVars,
           initiatorVars, At, Goto
<1> QED
    BY <1>1, <1>2, <1>3 DEF IInv

LEMMA AckStoreStep ==
    ASSUME IInv, NEW c \in Cpus, AckStore(c)
    PROVE  IInv'
<1>1. TypeOK'
    BY DEF IInv, TypeOK, Sites, Locked, Shooting, AckStore, memoryVars, handlerVars,
           initiatorVars, At, Goto
<1>2. Support'
  <2>1. AcksBounded'
    BY DEF IInv, TypeOK, Support, AcksBounded, InitiatorCurrent, Fresh, AckStore,
           memoryVars, handlerVars, initiatorVars, At, Goto
  <2>2. InitiatorCurrent'
    BY DEF IInv, TypeOK, Support, InitiatorCurrent, Fresh, Published, Shooting,
           AckStore, memoryVars, handlerVars, initiatorVars, At, Goto
  <2>3. InitiatorFresh'
    BY DEF IInv, TypeOK, InitiatorFresh, Fresh, Locked, AckStore, memoryVars,
           handlerVars, initiatorVars, At, Goto
  <2>4. AckedFresh'
    BY DEF IInv, TypeOK, Support, InitiatorFresh, AckedFresh, Fresh, Published,
           Shooting, AckStore, memoryVars, handlerVars, initiatorVars, At, Goto
  <2>5. AckingFresh'
    BY DEF IInv, TypeOK, Support, AckingFresh, Fresh, Published, Shooting, AckStore,
           memoryVars, handlerVars, initiatorVars, At, Goto
  <2>6. WaitedFresh'
    BY DEF IInv, TypeOK, WaitedFresh, Fresh, Shooting, AckStore, memoryVars,
           handlerVars, initiatorVars, At, Goto
  <2> QED
    BY <2>1, <2>2, <2>3, <2>4, <2>5, <2>6 DEF Support
<1>3. NoStaleTranslation'
    BY DEF IInv, TypeOK, NoStaleTranslation, Fresh, AckStore, memoryVars, handlerVars,
           initiatorVars, At, Goto
<1> QED
    BY <1>1, <1>2, <1>3 DEF IInv

LEMMA SendNmiStep ==
    ASSUME IInv, NEW c \in Cpus, NEW d \in Cpus, SendNmi(c, d)
    PROVE  IInv'
<1>1. TypeOK'
    BY DEF IInv, TypeOK, Sites, Locked, Shooting, SendNmi, memoryVars, handlerVars,
           initiatorVars, At, Goto
<1>2. Support'
  <2>1. AcksBounded'
    BY DEF IInv, TypeOK, Support, AcksBounded, Fresh, SendNmi, memoryVars, handlerVars,
           initiatorVars, At, Goto
  <2>2. InitiatorCurrent'
    BY DEF IInv, TypeOK, Support, InitiatorCurrent, Fresh, Published, Shooting,
           SendNmi, memoryVars, handlerVars, initiatorVars, At, Goto
  <2>3. InitiatorFresh'
    BY DEF IInv, TypeOK, InitiatorFresh, Fresh, Locked, SendNmi, memoryVars,
           handlerVars, initiatorVars, At, Goto
  <2>4. AckedFresh'
    BY DEF IInv, TypeOK, Support, AckedFresh, Fresh, Published, Shooting, SendNmi,
           memoryVars, handlerVars, initiatorVars, At, Goto
  <2>5. AckingFresh'
    BY DEF IInv, TypeOK, Support, AckingFresh, Fresh, Published, Shooting, SendNmi,
           memoryVars, handlerVars, initiatorVars, At, Goto
  <2>6. WaitedFresh'
    BY DEF IInv, TypeOK, WaitedFresh, Fresh, Shooting, SendNmi, memoryVars,
           handlerVars, initiatorVars, At, Goto
  <2> QED
    BY <2>1, <2>2, <2>3, <2>4, <2>5, <2>6 DEF Support
<1>3. NoStaleTranslation'
    BY DEF IInv, TypeOK, NoStaleTranslation, Fresh, SendNmi, memoryVars, handlerVars,
           initiatorVars, At, Goto
<1> QED
    BY <1>1, <1>2, <1>3 DEF IInv

LEMMA AllAckedStep ==
    ASSUME IInv, NEW c \in Cpus, AllAcked(c)
    PROVE  IInv'
<1>1. TypeOK'
    BY DEF IInv, TypeOK, Sites, Locked, Shooting, AllAcked, memoryVars, handlerVars,
           initiatorVars, At, Goto, Acknowledged
<1>2. Support'
  <2>1. AcksBounded'
    BY DEF IInv, TypeOK, Support, AcksBounded, Fresh, AllAcked, memoryVars,
           handlerVars, initiatorVars, At, Goto, Acknowledged
  <2>2. InitiatorCurrent'
    BY DEF IInv, TypeOK, Support, InitiatorCurrent, Fresh, Published, Shooting,
           AllAcked, memoryVars, handlerVars, initiatorVars, At, Goto, Acknowledged
  <2>3. InitiatorFresh'
    BY DEF IInv, TypeOK, InitiatorFresh, Fresh, Locked, AllAcked, memoryVars,
           handlerVars, initiatorVars, At, Goto, Acknowledged
  <2>4. AckedFresh'
    BY DEF IInv, TypeOK, Support, AckedFresh, Fresh, Published, Shooting, AllAcked,
           memoryVars, handlerVars, initiatorVars, At, Goto, Acknowledged
  <2>5. AckingFresh'
    BY DEF IInv, TypeOK, Support, AckingFresh, Fresh, Published, Shooting, AllAcked,
           memoryVars, handlerVars, initiatorVars, At, Goto, Acknowledged
  <2>6. WaitedFresh'
    BY DEF IInv, TypeOK, Support, AcksBounded, InitiatorCurrent, AckedFresh,
           WaitedFresh, Fresh, Published, Shooting, AllAcked, memoryVars, handlerVars,
           initiatorVars, At, Goto, Acknowledged
  <2> QED
    BY <2>1, <2>2, <2>3, <2>4, <2>5, <2>6 DEF Support
<1>3. NoStaleTranslation'
    BY DEF IInv, TypeOK, NoStaleTranslation, Fresh, AllAcked, memoryVars, handlerVars,
           initiatorVars, At, Goto, Acknowledged
<1> QED
    BY <1>1, <1>2, <1>3 DEF IInv

LEMMA ShootUnlockStep ==
    ASSUME IInv, NEW c \in Cpus, ShootUnlock(c)
    PROVE  IInv'
<1>1. TypeOK'
    BY TlbAssumption DEF TlbAssumption, IInv, TypeOK, Sites, Locked, Shooting,
           ShootUnlock, memoryVars, handlerVars, initiatorVars, At, Goto
<1>2. Support'
  <2>1. AcksBounded'
    BY DEF IInv, TypeOK, Support, AcksBounded, Fresh, ShootUnlock, memoryVars,
           handlerVars, initiatorVars, At, Goto
  <2>2. InitiatorCurrent'
    BY DEF IInv, TypeOK, InitiatorCurrent, Fresh, Published, Locked, Shooting,
           ShootUnlock, memoryVars, handlerVars, initiatorVars, At, Goto
  <2>3. InitiatorFresh'
    BY DEF IInv, TypeOK, InitiatorFresh, Fresh, Locked, ShootUnlock, memoryVars,
           handlerVars, initiatorVars, At, Goto
  <2>4. AckedFresh'
    BY DEF IInv, TypeOK, AckedFresh, Fresh, Published, Shooting, ShootUnlock,
           memoryVars, handlerVars, initiatorVars, At, Goto
  <2>5. AckingFresh'
    BY DEF IInv, TypeOK, AckingFresh, Fresh, Published, Shooting, ShootUnlock,
           memoryVars, handlerVars, initiatorVars, At, Goto
  <2>6. WaitedFresh'
    BY DEF IInv, TypeOK, WaitedFresh, Fresh, Shooting, ShootUnlock, memoryVars,
           handlerVars, initiatorVars, At, Goto
  <2> QED
    BY <2>1, <2>2, <2>3, <2>4, <2>5, <2>6 DEF Support
<1>3. NoStaleTranslation'
    BY DEF IInv, TypeOK, Support, WaitedFresh, NoStaleTranslation, Fresh, ShootUnlock,
           memoryVars, handlerVars, initiatorVars, At, Goto
<1> QED
    BY <1>1, <1>2, <1>3 DEF IInv

LEMMA RetireFrameStep ==
    ASSUME IInv, NEW c \in Cpus, RetireFrame(c)
    PROVE  IInv'
<1>1. TypeOK'
    BY DEF IInv, TypeOK, Sites, Locked, Shooting, RetireFrame, memoryVars, handlerVars,
           initiatorVars, At, Goto
<1>2. Support'
  <2>1. AcksBounded'
    BY DEF IInv, TypeOK, Support, AcksBounded, Fresh, RetireFrame, memoryVars,
           handlerVars, initiatorVars, At, Goto
  <2>2. InitiatorCurrent'
    BY DEF IInv, TypeOK, InitiatorCurrent, Fresh, Published, Locked, Shooting,
           RetireFrame, memoryVars, handlerVars, initiatorVars, At, Goto
  <2>3. InitiatorFresh'
    BY DEF IInv, TypeOK, InitiatorFresh, Fresh, Locked, RetireFrame, memoryVars,
           handlerVars, initiatorVars, At, Goto
  <2>4. AckedFresh'
    BY DEF IInv, TypeOK, AckedFresh, Fresh, Published, Locked, Shooting, RetireFrame,
           memoryVars, handlerVars, initiatorVars, At, Goto
  <2>5. AckingFresh'
    BY DEF IInv, TypeOK, AckingFresh, Fresh, Published, Locked, Shooting, RetireFrame,
           memoryVars, handlerVars, initiatorVars, At, Goto
  <2>6. WaitedFresh'
    BY DEF IInv, TypeOK, WaitedFresh, Fresh, Locked, RetireFrame, memoryVars,
           handlerVars, initiatorVars, At, Goto
  <2> QED
    BY <2>1, <2>2, <2>3, <2>4, <2>5, <2>6 DEF Support
<1>3. NoStaleTranslation'
    BY DEF IInv, TypeOK, NoStaleTranslation, Fresh, RetireFrame, memoryVars,
           handlerVars, initiatorVars, At, Goto
<1> QED
    BY <1>1, <1>2, <1>3 DEF IInv

LEMMA InitInvariant == Init => IInv
<1> SUFFICES ASSUME Init PROVE IInv
    OBVIOUS
<1>1. TypeOK
    BY TlbAssumption DEF TlbAssumption, Init, TypeOK, Sites, Locked, Shooting
<1>2. Support /\ NoStaleTranslation
    BY DEF Init, Support, AcksBounded, InitiatorCurrent, InitiatorFresh, AckedFresh,
           AckingFresh, WaitedFresh, NoStaleTranslation, Published, Locked, Shooting, Sites
<1> QED
    BY <1>1, <1>2 DEF IInv

LEMMA StutterStep ==
    ASSUME IInv, UNCHANGED vars
    PROVE  IInv'
BY DEF IInv, TypeOK, Support, AcksBounded, InitiatorCurrent, InitiatorFresh, AckedFresh,
       AckingFresh, WaitedFresh, NoStaleTranslation, Fresh, vars

\* Every step of every CPU, of its NMI handler and of the hardware keeps the
\* inductive invariant.
THEOREM Invariance == Spec => []IInv
<1>1. IInv /\ [Next]_vars => IInv'
  <2> SUFFICES ASSUME IInv, [Next]_vars PROVE IInv'
    OBVIOUS
  <2>1. CASE UNCHANGED vars
    BY <2>1, StutterStep
  <2>2. ASSUME NEW c \in Cpus, Fill(c) PROVE IInv'
    BY <2>2, FillStep
  <2>3. ASSUME NEW c \in Cpus, Handler(c) PROVE IInv'
    BY <2>3, NmiEnterStep, NmiLoadStep, NmiFlushStep, NmiAckStep,
           NmiReturnStep DEF Handler
  <2>4. ASSUME NEW c \in Cpus, LockPaging(c) PROVE IInv'
    BY <2>4, LockPagingStep
  <2>5. ASSUME NEW c \in Cpus, Shootdown(c) PROVE IInv'
    BY <2>5, StorePteStep, InvalidateLocalStep, ShootAloneStep, ShootLockStep,
       NewGenerationStep, AckLoadStep, AckFlushStep, AckStoreStep, SendNmiStep,
       AllAckedStep, ShootUnlockStep, RetireFrameStep DEF Shootdown
  <2> QED
    BY <2>1, <2>2, <2>3, <2>4, <2>5 DEF Next
<1> QED
    BY <1>1, InitInvariant, PTL DEF Spec

\* The frame a page table entry named is reused only when no online CPU can
\* still reach it through its TLB: smp.rs's shootdown returns after every
\* flush that matters.
THEOREM NoStaleFrame == Spec => []NoStaleTranslation
<1>1. IInv => NoStaleTranslation
    BY DEF IInv
<1> QED
    BY <1>1, Invariance, PTL

\* The plain stores of acknowledge_tlb from a CPU's two contexts never move
\* its acknowledgement backwards.
THEOREM AcksOnlyGrow == Spec => AckMonotone
<1>1. IInv /\ [Next]_vars => [\A c \in Cpus : ack'[c] >= ack[c]]_vars
  <2> SUFFICES ASSUME IInv, Next PROVE \A c \in Cpus : ack'[c] >= ack[c]
    OBVIOUS
  <2>1. ASSUME NEW c \in Cpus, NmiAck(c) PROVE \A e \in Cpus : ack'[e] >= ack[e]
    BY <2>1 DEF NmiAck, IInv, TypeOK, Support, AcksBounded
  <2>2. ASSUME NEW c \in Cpus, AckStore(c) PROVE \A e \in Cpus : ack'[e] >= ack[e]
    BY <2>2 DEF AckStore, At, IInv, TypeOK, Support, AcksBounded, InitiatorCurrent
  <2>3. \A c \in Cpus : ack[c] \in Nat
    BY DEF IInv, TypeOK
  <2>4. CASE ack' = ack
    BY <2>3, <2>4
  <2>5. \/ ack' = ack
        \/ \E c \in Cpus : NmiAck(c)
        \/ \E c \in Cpus : AckStore(c)
    BY DEF Next, Fill, Handler, NmiEnter, NmiLoad, NmiFlush, NmiReturn, LockPaging,
           Shootdown, StorePte, InvalidateLocal, ShootAlone, ShootLock, NewGeneration,
           AckLoad, AckFlush, SendNmi, AllAcked, ShootUnlock, RetireFrame
  <2> QED
    BY <2>1, <2>2, <2>4, <2>5
<1> QED
    BY <1>1, Invariance, PTL DEF Spec, AckMonotone

=============================================================================
