------------------------ MODULE DriverLifecycleProofs ------------------------
(***************************************************************************)
(* Proofs about DriverLifecycle, for any of the drivers, any set of steps  *)
(* that may fail and any number of probes, removals and open files: as     *)
(* long as the module is removed only while nobody opens the device, all   *)
(* that a file operation may miss is the mapping that a probe failed to    *)
(* create without noticing.                                                *)
(***************************************************************************)
EXTENDS DriverLifecycle, SequenceTheorems, TLAPS

USE LifecycleAssumption DEF LifecycleAssumption

(***************************************************************************)
(* The device file is the last thing a probe creates and the first that    *)
(* remove takes away.  A probe that is under way has what it has passed;   *)
(* if it got past its first step, the driver had no device before.         *)
(***************************************************************************)
StepName == {"chrdev", "mapping", "dma", "locks", "irq", "port", "device", "mute"}

Passed(k) ==
  /\ todo = SubSeq(ProbeSteps(drv), k, Len(ProbeSteps(drv)))
  /\ \A i \in 1 .. k - 1 : ProbeSteps(drv)[i] \in {"chrdev"} \cup Uses(drv)
                             => ProbeSteps(drv)[i] \in held \cup unnoticed
  /\ k > 1 => "device" \notin held

Probing == \E k \in 1 .. Len(ProbeSteps(drv)) : Passed(k)

Removing ==
  /\ todo \in Seq(StepName) /\ todo # <<>>
  /\ todo = RemoveSteps(drv) \/ "device" \notin held

LifecycleInv ==
  /\ "device" \in held => {"chrdev"} \cup Uses(drv) \subseteq held \cup unnoticed
  /\ unnoticed \subseteq MayFail
  /\ files > 0 => "device" \in held /\ phase # "removing"
  /\ phase = "probing" => Probing
  /\ phase = "removing" => Removing
  /\ locked \in BOOLEAN

\* The steps of probe and of remove, by number.
StepsOf(d, P, R) ==
  /\ P \in Seq(StepName) /\ Len(P) \in 3 .. 7
  /\ P[1] = "chrdev" /\ P[2] = "mapping"
  /\ d # "con" => Len(P) >= 5 /\ P[3] = "dma"
  /\ P[Len(P)] = "device"
  /\ \A k \in 1 .. Len(P) - 1 : P[k] # "device"
  /\ \A k \in 1 .. Len(P) : P[k] = "locks" => d = "ppu" /\ k > 1
  /\ \A k \in 2 .. Len(P) : P[k] # "chrdev"
  /\ R \in Seq(StepName) /\ R # <<>> /\ Head(R) = "device"

\* Whichever the driver, a probe starts with the device number and the
\* mapping and ends with the device file, which remove takes away first.
LEMMA Steps ==
  ASSUME NEW d \in {"ppu", "apu", "con"}
  PROVE  StepsOf(d, ProbeSteps(d), RemoveSteps(d))
<1>1. CASE d = "ppu"
  <2> DEFINE P == <<"chrdev", "mapping", "dma", "locks", "irq", "port", "device">>
             R == <<"device", "chrdev", "mapping", "dma", "irq">>
  <2>1. ProbeSteps(d) = P /\ RemoveSteps(d) = R
    BY <1>1 DEF ProbeSteps, RemoveSteps
  <2>2. P \in Seq(StepName) /\ Len(P) = 7
    BY DEF StepName
  <2>3. /\ P[1] = "chrdev" /\ P[2] = "mapping" /\ P[3] = "dma" /\ P[4] = "locks"
        /\ P[5] = "irq" /\ P[6] = "port" /\ P[7] = "device"
    OBVIOUS
  <2>4. R \in Seq(StepName) /\ R # <<>> /\ Head(R) = "device"
    BY DEF StepName
  <2> HIDE DEF P, R
  <2>5. \A k \in 1 .. 7 : k = 1 \/ k = 2 \/ k = 3 \/ k = 4 \/ k = 5 \/ k = 6 \/ k = 7
    OBVIOUS
  <2>6. /\ \A k \in 1 .. 7 - 1 : P[k] # "device"
        /\ \A k \in 1 .. 7 : P[k] = "locks" => k > 1
        /\ \A k \in 2 .. 7 : P[k] # "chrdev"
    BY <2>3, <2>5
  <2>7. StepsOf(d, P, R)
    BY <1>1, <2>2, <2>3, <2>4, <2>6, SMTT(30) DEF StepsOf
  <2> QED BY <2>1, <2>7
<1>2. CASE d = "apu"
  <2> DEFINE P == <<"chrdev", "mapping", "dma", "irq", "device">>
             R == <<"device", "chrdev", "mapping", "dma", "mute", "irq">>
  <2>1. ProbeSteps(d) = P /\ RemoveSteps(d) = R
    BY <1>2 DEF ProbeSteps, RemoveSteps
  <2>2. P \in Seq(StepName) /\ Len(P) = 5
    BY DEF StepName
  <2>3. /\ P[1] = "chrdev" /\ P[2] = "mapping" /\ P[3] = "dma" /\ P[4] = "irq"
        /\ P[5] = "device"
    OBVIOUS
  <2>4. R \in Seq(StepName) /\ R # <<>> /\ Head(R) = "device"
    BY DEF StepName
  <2> HIDE DEF P, R
  <2>5. \A k \in 1 .. 5 : k = 1 \/ k = 2 \/ k = 3 \/ k = 4 \/ k = 5
    OBVIOUS
  <2>6. /\ \A k \in 1 .. 5 - 1 : P[k] # "device"
        /\ \A k \in 1 .. 5 : P[k] # "locks"
        /\ \A k \in 2 .. 5 : P[k] # "chrdev"
    BY <2>3, <2>5
  <2>7. StepsOf(d, P, R)
    BY <1>2, <2>2, <2>3, <2>4, <2>6, SMTT(30) DEF StepsOf
  <2> QED BY <2>1, <2>7
<1>3. CASE d = "con"
  <2> DEFINE P == <<"chrdev", "mapping", "device">>
             R == <<"device", "chrdev", "mapping">>
  <2>1. ProbeSteps(d) = P /\ RemoveSteps(d) = R
    BY <1>3 DEF ProbeSteps, RemoveSteps
  <2>2. P \in Seq(StepName) /\ Len(P) = 3
    BY DEF StepName
  <2>3. P[1] = "chrdev" /\ P[2] = "mapping" /\ P[3] = "device"
    OBVIOUS
  <2>4. R \in Seq(StepName) /\ R # <<>> /\ Head(R) = "device"
    BY DEF StepName
  <2> HIDE DEF P, R
  <2>5. \A k \in 1 .. 3 : k = 1 \/ k = 2 \/ k = 3
    OBVIOUS
  <2>6. /\ \A k \in 1 .. 3 - 1 : P[k] # "device"
        /\ \A k \in 1 .. 3 : P[k] # "locks"
        /\ \A k \in 2 .. 3 : P[k] # "chrdev"
    BY <2>3, <2>5
  <2>7. StepsOf(d, P, R)
    BY <1>3, <2>2, <2>3, <2>4, <2>6, SMTT(30) DEF StepsOf
  <2> QED BY <2>1, <2>7
<1> QED BY <1>1, <1>2, <1>3

\* What a probe has in front of it after k - 1 steps: step k, then the rest.
LEMMA NextStep ==
  ASSUME NEW S, NEW P \in Seq(S), NEW k \in 1 .. Len(P)
  PROVE  /\ Head(SubSeq(P, k, Len(P))) = P[k]
         /\ Tail(SubSeq(P, k, Len(P))) = SubSeq(P, k + 1, Len(P))
         /\ k < Len(P) => SubSeq(P, k + 1, Len(P)) # <<>>
         /\ k = Len(P) => SubSeq(P, k + 1, Len(P)) = <<>>
<1>1. Len(P) \in Nat /\ Len(P) \in k .. Len(P)
  BY LenProperties
<1>2. /\ Head(SubSeq(P, k, Len(P))) = P[k]
      /\ Tail(SubSeq(P, k, Len(P))) = SubSeq(P, k + 1, Len(P))
  BY <1>1, HeadTailOfSubSeq
<1>3. ASSUME k < Len(P) PROVE SubSeq(P, k + 1, Len(P)) # <<>>
  <2>1. \A i \in k + 1 .. Len(P) : P[i] \in S
    BY <1>1, ElementOfSeq
  <2>2. Len(SubSeq(P, k + 1, Len(P))) = Len(P) - (k + 1) + 1
    BY <1>1, <1>3, <2>1, SubSeqProperties
  <2>3. Len(SubSeq(P, k + 1, Len(P))) # 0
    BY <1>1, <1>3, <2>2
  <2>4. \A s : s = <<>> => Len(s) = 0
    OBVIOUS
  <2> QED BY <2>3, <2>4, Zenon
<1>4. ASSUME k = Len(P) PROVE SubSeq(P, k + 1, Len(P)) = <<>>
  BY <1>1, <1>4, SubSeqEmpty
<1> QED BY <1>2, <1>3, <1>4

----------------------------------------------------------------------------
\* A file operation misses only what a step that may fail should have created.
OnlyUnnoticed == \A a \in bad : a[1] = "file" => a[3] /\ a[2] \in MayFail /\ a[2] = "mapping"

IInv == TypeOK /\ LifecycleInv /\ OnlyUnnoticed

\* While a probe runs, its next step is one of the driver's, at its number.
LEMMA ProbeIsAt ==
  ASSUME IInv, phase = "probing"
  PROVE  \E k \in 1 .. Len(ProbeSteps(drv)) :
           /\ Passed(k)
           /\ Head(todo) = ProbeSteps(drv)[k]
           /\ Tail(todo) = SubSeq(ProbeSteps(drv), k + 1, Len(ProbeSteps(drv)))
           /\ k < Len(ProbeSteps(drv)) => Tail(todo) # <<>>
           /\ k = Len(ProbeSteps(drv)) => Tail(todo) = <<>>
<1>1. PICK k \in 1 .. Len(ProbeSteps(drv)) : Passed(k)
  BY DEF IInv, LifecycleInv, Probing
<1>2. ProbeSteps(drv) \in Seq(StepName)
  BY Steps DEF StepsOf, IInv, TypeOK
<1> QED BY <1>1, <1>2, NextStep DEF Passed

\* What a step does that the probe goes on from: it is acquired, or is missing
\* and unnoticed; nothing else changes.
Outcome(step) ==
  /\ held \ {step} \subseteq held' /\ held' \subseteq (held \cup {step}) \cap Resources
  /\ unnoticed \ {step} \subseteq unnoticed'
  /\ step \in Resources => step \in held' \cup unnoticed'
  /\ unnoticed' \subseteq Unchecked \ held'
  /\ unnoticed' \subseteq MayFail
  /\ locked' \in {FALSE, locked}

\* Such a step leaves the driver with what it has passed so far, and the device
\* file comes only after everything that its operations use.
LEMMA GoingOnKeepsInv ==
  ASSUME IInv, phase = "probing", ~Taken(Head(todo)), Outcome(Head(todo)), GoOn,
         UNCHANGED <<drv, files, bad>>
  PROVE  IInv'
<1> DEFINE P == ProbeSteps(drv)
<1>1. PICK k \in 1 .. Len(P) :
           /\ Passed(k)
           /\ Head(todo) = P[k]
           /\ Tail(todo) = SubSeq(P, k + 1, Len(P))
           /\ k < Len(P) => Tail(todo) # <<>>
           /\ k = Len(P) => Tail(todo) = <<>>
  BY ProbeIsAt
<1>2. StepsOf(drv, P, RemoveSteps(drv))
  BY Steps DEF IInv, TypeOK
<1>3. P' = P
  BY DEF ProbeSteps
<1> HIDE DEF P
<1>4. Len(P) \in 3 .. 7 /\ k \in Nat
  BY <1>1, <1>2 DEF StepsOf
<1>5. "device" \notin held
  <2>1. CASE k > 1
    BY <1>1, <2>1 DEF Passed
  <2>2. CASE k = 1
    <3>1. Head(todo) = "chrdev"
      BY <1>1, <1>2, <2>2 DEF StepsOf
    <3>2. "chrdev" \notin held
      BY <3>1 DEF Taken
    <3>3. "chrdev" \notin unnoticed
      BY DEF IInv, TypeOK, Unchecked
    <3> QED BY <3>2, <3>3 DEF IInv, LifecycleInv
  <2> QED BY <1>4, <2>1, <2>2, <1>1
<1>6. files = 0 /\ drv \in {"ppu", "apu", "con"} /\ held \subseteq Resources
  BY <1>5 DEF IInv, LifecycleInv, TypeOK
<1>7. /\ held' \subseteq held \cup {P[k]}
      /\ (held \cup unnoticed) \ {P[k]} \subseteq held' \cup unnoticed'
      /\ unnoticed' \subseteq Unchecked \ held' /\ unnoticed' \subseteq MayFail
  BY <1>1 DEF Outcome
<1>8. P[k] \in Resources => P[k] \in held' \cup unnoticed'
  BY <1>1 DEF Outcome
<1>13. held' \subseteq Resources
  BY <1>1 DEF Outcome
<1>9. {"chrdev"} \cup Uses(drv) \subseteq Resources
  BY DEF Uses, Resources
<1>10. \A i \in 1 .. k : P[i] \in {"chrdev"} \cup Uses(drv) => P[i] \in held' \cup unnoticed'
  <2> SUFFICES ASSUME NEW i \in 1 .. k, P[i] \in {"chrdev"} \cup Uses(drv)
               PROVE  P[i] \in held' \cup unnoticed'
    OBVIOUS
  <2>1. CASE i = k
    BY <1>8, <1>9, <2>1
  <2>2. CASE i \in 1 .. k - 1
    <3>1. P[i] \in held \cup unnoticed
      BY <1>1, <2>2 DEF Passed, P
    <3>2. P[i] = P[k] => P[i] \in held' \cup unnoticed'
      BY <1>8, <1>9
    <3> QED BY <1>7, <3>1, <3>2
  <2> QED BY <2>1, <2>2, <1>4
<1>11. CASE k < Len(P)
  <2>1. P[k] # "device"
    BY <1>2, <1>4, <1>11, <1>1 DEF StepsOf
  <2>2. "device" \notin held'
    BY <2>1, <1>5, <1>7
  <2>3. phase' = "probing" /\ todo' = SubSeq(P, k + 1, Len(P))
    BY <1>1, <1>11 DEF GoOn
  <2>4. k + 1 \in 1 .. Len(P) /\ (k + 1) - 1 = k /\ k + 1 > 1
    BY <1>4, <1>11, <1>1
  <2>5. Passed(k + 1)'
    BY <1>3, <1>10, <2>2, <2>3, <2>4 DEF Passed, P, Uses
  <2>6. Probing'
    BY <1>3, <2>4, <2>5 DEF Probing, P
  <2>7. locked' \in BOOLEAN
    BY DEF Outcome, IInv, LifecycleInv
  <2>8. LifecycleInv'
    BY <1>6, <1>7, <2>2, <2>3, <2>6, <2>7 DEF LifecycleInv
  <2>9. drv # "con" => ~locked
    BY <1>6 DEF IInv, TypeOK
  <2>10. drv # "con" => ~locked'
    BY <2>9 DEF Outcome
  <2>11. TypeOK'
    BY <1>6, <1>7, <1>13, <2>3, <2>10 DEF IInv, TypeOK
  <2> QED BY <2>8, <2>11 DEF IInv, OnlyUnnoticed
<1>12. CASE k = Len(P)
  <2>1. phase' \in {"unbound", "bound"}
    BY <1>1, <1>12 DEF GoOn
  <2>2. P[1] = "chrdev" /\ P[2] = "mapping" /\ (drv # "con" => Len(P) >= 5 /\ P[3] = "dma")
    BY <1>2 DEF StepsOf
  <2>3. "chrdev" \in held' \cup unnoticed' /\ "mapping" \in held' \cup unnoticed'
    BY <2>2, <1>10, <1>12, <1>4 DEF Uses
  <2>4. drv # "con" => "dma" \in held' \cup unnoticed'
    <3>1. ASSUME drv # "con" PROVE 3 \in 1 .. k /\ P[3] = "dma" /\ "dma" \in Uses(drv)
      BY <3>1, <2>2, <1>12, <1>4 DEF Uses
    <3> QED BY <3>1, <1>10
  <2>5. {"chrdev"} \cup Uses(drv) \subseteq held' \cup unnoticed'
    BY <2>3, <2>4 DEF Uses
  <2>6. (Uses(drv))' = Uses(drv)
    BY DEF Uses
  <2>7. locked' \in BOOLEAN
    BY DEF Outcome, IInv, LifecycleInv
  <2>8. LifecycleInv'
    BY <1>6, <1>7, <2>1, <2>5, <2>6, <2>7 DEF LifecycleInv
  <2>9. drv # "con" => ~locked
    BY <1>6 DEF IInv, TypeOK
  <2>10. drv # "con" => ~locked'
    BY <2>9 DEF Outcome
  <2>11. TypeOK'
    BY <1>6, <1>7, <1>13, <2>1, <2>10 DEF IInv, TypeOK
  <2> QED BY <2>8, <2>11 DEF IInv, OnlyUnnoticed
<1> QED BY <1>1, <1>4, <1>11, <1>12

\* What is acquired is there.
LEMMA AcquireKeepsInv ==
  ASSUME IInv, phase = "probing", Acquire(Head(todo)), UNCHANGED <<drv, files, bad>>
  PROVE  IInv'
<1>1. Outcome(Head(todo))
  <2>1. held \subseteq Resources /\ unnoticed \subseteq Unchecked \ held /\ unnoticed \subseteq MayFail
    BY DEF IInv, TypeOK, LifecycleInv
  <2> QED BY <2>1 DEF Outcome, Acquire, Unchecked, Resources
<1>2. ~Taken(Head(todo)) /\ GoOn
  BY DEF Acquire
<1> QED BY <1>1, <1>2, GoingOnKeepsInv

\* A failing step either ends the probe or is the APU's interrupt, which the
\* probe goes on without, or is not noticed; what the driver holds stays.
LEMMA FailKeepsInv ==
  ASSUME IInv, phase = "probing", Fail(Head(todo)), UNCHANGED <<drv, files, bad>>
  PROVE  IInv'
<1> DEFINE P == ProbeSteps(drv)
<1>1. PICK k \in 1 .. Len(P) :
           /\ Passed(k)
           /\ Head(todo) = P[k]
           /\ Tail(todo) = SubSeq(P, k + 1, Len(P))
  BY ProbeIsAt
<1>2. StepsOf(drv, P, RemoveSteps(drv))
  BY Steps DEF IInv, TypeOK
<1>3. P' = P /\ (Uses(drv))' = Uses(drv)
  BY DEF ProbeSteps, Uses
<1> HIDE DEF P
<1>4. Len(P) \in 3 .. 7 /\ k \in Nat
  BY <1>1, <1>2 DEF StepsOf
<1>5. CASE /\ Head(todo) \in Unchecked /\ GoOn
           /\ held' = held \ {Head(todo)} /\ unnoticed' = unnoticed \cup {Head(todo)}
  <2>1. ~Taken(Head(todo)) /\ Head(todo) \in MayFail
    BY <1>5 DEF Fail, Taken, Unchecked
  <2>2. held \subseteq Resources /\ unnoticed \subseteq Unchecked \ held /\ unnoticed \subseteq MayFail
    BY DEF IInv, TypeOK, LifecycleInv
  <2>3. locked' = locked
    BY DEF Fail
  <2>4. Outcome(Head(todo))
    BY <1>5, <2>1, <2>2, <2>3 DEF Outcome
  <2> QED BY <1>5, <2>1, <2>4, GoingOnKeepsInv
<1>8. ASSUME held' = held, unnoticed' = unnoticed,
             phase' \in {"unbound", "probing"}
      PROVE  TypeOK' /\ OnlyUnnoticed'
  <2>1. locked' = locked
    BY DEF Fail
  <2> QED BY <1>8, <2>1 DEF IInv, TypeOK, OnlyUnnoticed
<1>6. CASE phase' = "unbound" /\ held' = held /\ unnoticed' = unnoticed
  <2>1. LifecycleInv'
    BY <1>3, <1>6 DEF IInv, LifecycleInv, Fail
  <2> QED BY <1>6, <1>8, <2>1 DEF IInv
<1>7. CASE /\ Head(todo) = "irq" /\ todo' = Tail(todo) /\ phase' = phase
           /\ held' = held /\ unnoticed' = unnoticed
  <2>1. /\ P[k] = "irq" /\ phase' = "probing" /\ held' = held /\ locked' = locked
        /\ unnoticed' = unnoticed /\ todo' = SubSeq(P, k + 1, Len(P))
    BY <1>1, <1>7 DEF Fail
  <2>2. k # Len(P) /\ k # 1
    BY <1>2, <2>1 DEF StepsOf
  <2>3. "device" \notin held
    BY <1>1, <1>4, <2>2 DEF Passed
  <2>4. k + 1 \in 1 .. Len(P) /\ (k + 1) - 1 = k
    BY <1>1, <1>4, <2>2
  <2>5. \A i \in 1 .. k : P[i] \in {"chrdev"} \cup Uses(drv) => P[i] \in held \cup unnoticed
    <3> SUFFICES ASSUME NEW i \in 1 .. k, P[i] \in {"chrdev"} \cup Uses(drv)
                 PROVE  P[i] \in held \cup unnoticed
      OBVIOUS
    <3>1. i # k
      BY <2>1 DEF Uses
    <3>2. i \in 1 .. k - 1
      BY <3>1, <1>4
    <3> QED BY <1>1, <3>2 DEF Passed, P
  <2>6. Passed(k + 1)'
    BY <1>3, <2>1, <2>3, <2>4, <2>5 DEF Passed, P
  <2>7. Probing'
    BY <1>3, <2>4, <2>6 DEF Probing, P
  <2>8. LifecycleInv'
    BY <1>3, <2>1, <2>3, <2>7 DEF IInv, LifecycleInv
  <2> QED BY <1>7, <1>8, <2>8 DEF IInv
<1> QED BY <1>5, <1>6, <1>7 DEF Fail

\* A step of remove: the device file goes first, and no file is open by then.
LEMMA RemoveStepKeepsInv ==
  ASSUME IInv, RemoveStep
  PROVE  IInv'
<1>1. phase = "removing" /\ Removing /\ files = 0
  BY DEF IInv, LifecycleInv, TypeOK, RemoveStep
<1>2. "device" \notin held'
  <2>1. CASE todo = RemoveSteps(drv)
    <3>1. Head(todo) = "device"
      BY <2>1, Steps DEF StepsOf, IInv, TypeOK
    <3> QED BY <3>1 DEF RemoveStep, GiveBack
  <2>2. CASE "device" \notin held
    BY <2>2 DEF RemoveStep, GiveBack
  <2> QED BY <1>1, <2>1, <2>2 DEF Removing
<1>3. Tail(todo) \in Seq(StepName)
  BY <1>1, HeadTailProperties DEF Removing
<1>7. unnoticed' \subseteq MayFail
  BY DEF IInv, LifecycleInv, RemoveStep, GiveBack
<1>4. LifecycleInv'
  BY <1>1, <1>2, <1>3, <1>7 DEF IInv, LifecycleInv, Removing, RemoveStep
<1>5. TypeOK'
  BY DEF IInv, TypeOK, RemoveStep, GiveBack
<1>6. OnlyUnnoticed'
  <2>1. \A a \in WithoutIts(Head(todo)) : a[1] = "remove"
    BY DEF WithoutIts
  <2> QED BY <2>1 DEF IInv, OnlyUnnoticed, RemoveStep
<1> QED BY <1>4, <1>5, <1>6 DEF IInv

\* Probe and Remove begin with the first of their steps.
LEMMA BeginKeepsInv ==
  ASSUME IInv, Probe \/ Remove
  PROVE  IInv'
<1>1. TypeOK' /\ OnlyUnnoticed'
  BY DEF IInv, TypeOK, OnlyUnnoticed, Probe, Remove
<1>2. StepsOf(drv, ProbeSteps(drv), RemoveSteps(drv))
  BY Steps DEF IInv, TypeOK
<1>3. ASSUME Probe PROVE LifecycleInv'
  <2>1. todo' = SubSeq(ProbeSteps(drv), 1, Len(ProbeSteps(drv)))
    BY <1>2, <1>3, SubSeqFull DEF StepsOf, Probe
  <2>2. (ProbeSteps(drv))' = ProbeSteps(drv) /\ (Uses(drv))' = Uses(drv)
    BY <1>3 DEF Probe, ProbeSteps, Uses
  <2>3. Passed(1)'
    BY <2>1, <2>2 DEF Passed
  <2>4. Probing'
    BY <1>2, <2>2, <2>3 DEF Probing, StepsOf
  <2> QED BY <1>3, <2>2, <2>4 DEF IInv, LifecycleInv, Probe
<1>4. ASSUME Remove PROVE LifecycleInv'
  <2>1. (RemoveSteps(drv))' = RemoveSteps(drv) /\ (Uses(drv))' = Uses(drv)
    BY <1>4 DEF Remove, RemoveSteps, Uses
  <2>2. Removing'
    BY <1>2, <1>4, <2>1 DEF Removing, Remove, StepsOf
  <2> QED BY <1>4, <2>1, <2>2 DEF IInv, LifecycleInv, Remove, TypeOK
<1> QED BY <1>1, <1>3, <1>4 DEF IInv

\* A program: while a file is open, the device is there and all it uses.
LEMMA ProgramKeepsInv ==
  ASSUME LateOpen = FALSE, IInv, Open \/ UseFile \/ Close
  PROVE  IInv'
<1>1. ASSUME files > 0
      PROVE  \A a \in Missing(drv) : a[3] /\ a[2] \in MayFail /\ a[2] = "mapping"
  <2>1. Uses(drv) \subseteq held \cup unnoticed /\ unnoticed \subseteq MayFail
    BY <1>1 DEF IInv, LifecycleInv
  <2>2. unnoticed \subseteq Unchecked
    BY DEF IInv, TypeOK
  <2>3. \A q \in Uses(drv) \ held : q \in unnoticed /\ q \in MayFail /\ q = "mapping"
    BY <2>1, <2>2 DEF Uses, Unchecked
  <2> SUFFICES ASSUME NEW a \in Missing(drv)
               PROVE  a[3] /\ a[2] \in MayFail /\ a[2] = "mapping"
    OBVIOUS
  <2>4. PICK q \in Uses(drv) \ held : a = <<"file", q, q \in unnoticed>>
    BY DEF Missing
  <2>5. a[2] = q
    BY <2>4
  <2>6. a[3] = (q \in unnoticed)
    BY <2>4
  <2> QED BY <2>3, <2>5, <2>6
<1>2. OnlyUnnoticed'
  BY <1>1 DEF IInv, OnlyUnnoticed, Open, UseFile, Close
<1>3. TypeOK'
  <2>1. ASSUME Open PROVE TypeOK'
    <3>1. locked' = (drv # "con") /\ files' = files + 1 /\ files < MaxFiles /\ ~locked
      BY <2>1 DEF Open
    <3>2. drv # "con" => files' = 1 /\ locked'
      <4> SUFFICES ASSUME drv # "con" PROVE files' = 1 /\ locked'
        OBVIOUS
      <4>1. files = 0
        BY <3>1 DEF IInv, TypeOK
      <4>2. files' = 1
        BY <3>1, <4>1
      <4>3. locked'
        BY <3>1, Zenon
      <4> QED BY <4>2, <4>3
    <3>3. files' \in 0 .. MaxFiles
      BY <3>1 DEF IInv, TypeOK
    <3>4. drv' = drv /\ phase' = phase /\ held' = held /\ unnoticed' = unnoticed
      BY <2>1 DEF Open
    <3> QED BY <3>2, <3>3, <3>4 DEF IInv, TypeOK
  <2>2. ASSUME UseFile PROVE TypeOK'
    BY <2>2 DEF IInv, TypeOK, UseFile
  <2>3. ASSUME Close PROVE TypeOK'
    <3>1. ~locked' /\ files' = files - 1 /\ files > 0
      BY <2>3 DEF Close
    <3>2. drv # "con" => files' = 0
      BY <3>1 DEF IInv, TypeOK
    <3>3. files' \in 0 .. MaxFiles
      BY <3>1 DEF IInv, TypeOK
    <3>4. drv' = drv /\ phase' = phase /\ held' = held /\ unnoticed' = unnoticed
      BY <2>3 DEF Close
    <3> QED BY <3>1, <3>2, <3>3, <3>4 DEF IInv, TypeOK
  <2> QED BY <2>1, <2>2, <2>3
<1>4. LifecycleInv'
  <2>1. UNCHANGED <<drv, todo, phase, held, unnoticed>>
    BY DEF Open, UseFile, Close
  <2>2. locked' \in BOOLEAN
    BY DEF Open, UseFile, Close, IInv, LifecycleInv
  <2>3. files' > 0 => "device" \in held /\ phase # "removing"
    <3>1. ASSUME Open PROVE "device" \in held /\ phase # "removing"
      BY <3>1 DEF Open
    <3>2. ASSUME UseFile \/ Close PROVE files > 0
      BY <3>2 DEF UseFile, Close
    <3> QED BY <3>1, <3>2 DEF IInv, LifecycleInv
  <2>4. (Uses(drv))' = Uses(drv) /\ Probing' = Probing /\ Removing' = Removing
    BY <2>1 DEF Probing, Passed, Removing, Uses, ProbeSteps, RemoveSteps
  <2>5. "device" \in held' => {"chrdev"} \cup (Uses(drv))' \subseteq held' \cup unnoticed'
    BY <2>1, <2>4 DEF IInv, LifecycleInv
  <2>7. unnoticed' \subseteq MayFail
    BY <2>1 DEF IInv, LifecycleInv
  <2>6. (phase' = "probing" => Probing') /\ (phase' = "removing" => Removing')
    BY <2>1, <2>4 DEF IInv, LifecycleInv
  <2> QED BY <2>1, <2>2, <2>3, <2>5, <2>6, <2>7 DEF LifecycleInv
<1> QED BY <1>2, <1>3, <1>4 DEF IInv

\* LifecycleInv and OnlyUnnoticed hold in every state of the drivers.
LEMMA LifecycleInvariant ==
  ASSUME LateOpen = FALSE
  PROVE  Spec => []IInv
<1>1. ASSUME Init PROVE IInv
  <2>1. TypeOK
    BY <1>1 DEF Init, TypeOK
  <2>2. LifecycleInv
    <3>1. held = {} /\ unnoticed = {} /\ files = 0 /\ phase = "unbound" /\ locked = FALSE
      BY <1>1 DEF Init
    <3>2. ~(files > 0)
      BY <3>1
    <3> QED BY <3>1, <3>2 DEF LifecycleInv
  <2> QED BY <1>1, <2>1, <2>2 DEF Init, IInv, OnlyUnnoticed
<1>2. IInv /\ [Next]_vars => IInv'
  <2> SUFFICES ASSUME IInv, [Next]_vars PROVE IInv'
    OBVIOUS
  <2>1. CASE Probe \/ Remove
    BY <2>1, BeginKeepsInv
  <2>2. CASE ProbeStep
    BY <2>2, AcquireKeepsInv, FailKeepsInv DEF ProbeStep
  <2>3. CASE RemoveStep
    BY <2>3, RemoveStepKeepsInv
  <2>4. CASE Open \/ UseFile \/ Close
    BY <2>4, ProgramKeepsInv
  <2>5. CASE UNCHANGED vars
    <3>1. Probing' = Probing /\ Removing' = Removing /\ (Uses(drv))' = Uses(drv)
      BY <2>5 DEF vars, Probing, Passed, Removing, Uses, ProbeSteps, RemoveSteps
    <3> QED BY <2>5, <3>1 DEF vars, IInv, TypeOK, LifecycleInv, OnlyUnnoticed
  <2> QED BY <2>1, <2>2, <2>3, <2>4, <2>5 DEF Next
<1> QED BY <1>1, <1>2, PTL DEF Spec

(***************************************************************************)
(* FilesAreSafe of DriverLifecycle: with a module that is taken out only   *)
(* while nobody opens its device, what a handler of con_fops, ppu_fops or  *)
(* apu_fops misses is what a probe failed to create without noticing,      *)
(* whichever of its steps, checked or not, may fail.                       *)
(***************************************************************************)
THEOREM LifecycleIsSafe ==
  ASSUME LateOpen = FALSE
  PROVE  Spec => [](TypeOK /\ FilesAreSafe)
<1>1. IInv => TypeOK /\ FilesAreSafe
  BY DEF IInv, OnlyUnnoticed, FilesAreSafe
<1> QED BY <1>1, LifecycleInvariant, PTL

(***************************************************************************)
(* If io_mapping_create_wc succeeds, a file operation misses nothing,      *)
(* whichever other steps of con_init, ppu_probe and apu_probe may fail.    *)
(***************************************************************************)
THEOREM MappedFilesAreSafe ==
  ASSUME LateOpen = FALSE, "mapping" \notin MayFail
  PROVE  Spec => [](\A a \in bad : a[1] # "file")
<1>1. IInv => \A a \in bad : a[1] # "file"
  BY DEF IInv, OnlyUnnoticed
<1> QED BY <1>1, LifecycleInvariant, PTL
=============================================================================
