-------------------------- MODULE PrivateFileProofs --------------------------
(***************************************************************************)
(* What TLC checks of PrivateFile on two writers, proved for every set of  *)
(* writers, readers, payloads and inodes, when the calls exclude each      *)
(* other (Exclusive): a lock around every call, or a single caller.  And,  *)
(* of the part of MCPrivateFile that has no lock, what is left of it when  *)
(* they do not.                                                            *)
(***************************************************************************)
EXTENDS MCPrivateFile, TLAPS

\* At most one call is under way, and under a lock it holds it.
OneCall ==
    /\ \A v, w \in Writers : pc[v] # "idle" /\ pc[w] # "idle" => v = w
    /\ Locked => \A w \in Writers : pc[w] # "idle" => lock = w

\* What is published is complete and is not the inode being written.
PublishedIsWhole ==
    \A i \in Inodes : Published(i) => i # temporary /\ content[i] # Partial

IInv == TypeOK /\ OneCall /\ OwnTemporary /\ PublishedIsWhole

-----------------------------------------------------------------------------

\* Every variable keeps its type; a payload is held exactly during a call and
\* an inode is open for writing exactly between the open and the close.
THEOREM TypeCorrect == Spec => []TypeOK
<1>1. Init => TypeOK
  BY NoneAssumption DEF Init, TypeOK, PCs
<1>2. TypeOK /\ [Next]_vars => TypeOK'
  <2> SUFFICES ASSUME TypeOK, [Next]_vars PROVE TypeOK'
    OBVIOUS
  <2> USE NoneAssumption, FlagsAssumption DEF TypeOK, PCs
  <2>1. ASSUME NEW w \in Writers, WriterStep(w) PROVE TypeOK'
    <3>1. CASE Begin(w)
      BY <3>1 DEF Begin
    <3>2. CASE Unlink(w)
      BY <3>2 DEF Unlink
    <3>3. CASE OpenExclusive(w)
      BY <3>3 DEF OpenExclusive
    <3>4. CASE OpenFindsOther(w)
      BY <3>4 DEF OpenFindsOther, Return
    <3>5. CASE Write(w)
      BY <3>5 DEF Write
    <3>6. CASE Replace(w)
      BY <3>6 DEF Replace, Return
    <3>7. CASE ReplaceFindsNone(w)
      BY <3>7 DEF ReplaceFindsNone, Return
    <3>8. CASE CallFails(w)
      BY <3>8 DEF CallFails, Return
    <3>9. CASE WriteFails(w)
      BY <3>9 DEF WriteFails
    <3>10. CASE Cleanup(w)
      BY <3>10 DEF Cleanup, Return
    <3> QED
      BY <2>1, <3>1, <3>2, <3>3, <3>4, <3>5, <3>6, <3>7, <3>8, <3>9, <3>10
         DEF WriterStep
  <2>2. ASSUME NEW r \in Readers, ReaderStep(r) PROVE TypeOK'
    BY <2>2 DEF ReaderStep, OpenRead, CloseRead
  <2>3. CASE Crash
    BY <2>3 DEF Crash
  <2>4. CASE UNCHANGED vars
    BY <2>4 DEF vars
  <2> QED
    BY <2>1, <2>2, <2>3, <2>4 DEF Next
<1> QED
  BY <1>1, <1>2, PTL DEF Spec

-----------------------------------------------------------------------------
(* The inductive invariant of exclusive callers *)

\* The initial state satisfies the invariant.
LEMMA InitInv == Init => IInv
  BY NoneAssumption, PartialAssumption
     DEF Init, IInv, TypeOK, PCs, OneCall, OwnTemporary, PublishedIsWhole, Published

\* A call that returns without touching a directory entry or an inode.
LEMMA ReturnInv ==
  ASSUME IInv, TypeOK', NEW w \in Writers, pc[w] # "idle", Return(w),
         UNCHANGED <<target, content, opened>>, temporary' \in {temporary, None}
  PROVE  IInv'
<1> USE NoneAssumption DEF IInv, TypeOK
<1>1. \A v \in Writers : pc'[v] = "idle"
  BY DEF Return, OneCall
<1>2. OneCall'
  BY <1>1 DEF OneCall
<1>3. OwnTemporary'
  BY <1>1 DEF OwnTemporary
<1>4. PublishedIsWhole'
  BY DEF PublishedIsWhole, Published
<1> QED
  BY <1>2, <1>3, <1>4

\* Each step of an exclusive writer, of a reader or of a dying process
\* preserves the invariant.
LEMMA StepInv ==
  ASSUME Exclusive, IInv, TypeOK', [Next]_vars
  PROVE  IInv'
<1> USE NoneAssumption, PartialAssumption, FlagsAssumption DEF IInv, TypeOK, PCs
<1>1. ASSUME NEW w \in Writers, WriterStep(w) PROVE IInv'
  <2>1. CASE Begin(w)
    <3>1. \A v \in Writers : v # w => pc[v] = "idle"
      BY <2>1 DEF Begin, Exclusive, OneCall
    <3>2. OneCall'
      BY <2>1, <3>1 DEF Begin, OneCall
    <3>3. OwnTemporary'
      BY <2>1, <3>1 DEF Begin, OwnTemporary
    <3>4. PublishedIsWhole'
      BY <2>1 DEF Begin, PublishedIsWhole, Published
    <3> QED
      BY <3>2, <3>3, <3>4
  <2>2. CASE Unlink(w)
    <3>1. OneCall'
      BY <2>2 DEF Unlink, OneCall
    <3>2. OwnTemporary'
      BY <2>2 DEF Unlink, OwnTemporary, OneCall
    <3>3. PublishedIsWhole'
      BY <2>2 DEF Unlink, PublishedIsWhole, Published
    <3> QED
      BY <3>1, <3>2, <3>3
  <2>3. CASE OpenExclusive(w)
    <3>1. OneCall'
      BY <2>3 DEF OpenExclusive, OneCall
    <3>2. OwnTemporary'
      BY <2>3 DEF OpenExclusive, OwnTemporary, OneCall
    <3>3. PublishedIsWhole'
      BY <2>3 DEF OpenExclusive, PublishedIsWhole, Published, Free
    <3> QED
      BY <3>1, <3>2, <3>3
  <2>4. CASE OpenFindsOther(w)
    BY <2>4, ReturnInv DEF OpenFindsOther
  <2>5. CASE Write(w)
    <3>1. OneCall'
      BY <2>5 DEF Write, OneCall
    <3>2. OwnTemporary'
      BY <2>5 DEF Write, OwnTemporary, OneCall
    <3>3. PublishedIsWhole'
      BY <2>5 DEF Write, PublishedIsWhole, Published, OwnTemporary
    <3> QED
      BY <3>1, <3>2, <3>3
  <2>6. CASE Replace(w)
    <3>1. \A v \in Writers : pc'[v] = "idle"
      BY <2>6 DEF Replace, Return, OneCall
    <3>2. OneCall' /\ OwnTemporary'
      BY <3>1 DEF OneCall, OwnTemporary
    <3>3. temporary # None /\ content[temporary] # Partial
      BY <2>6 DEF Replace, OwnTemporary
    <3>4. PublishedIsWhole'
      BY <2>6, <3>3 DEF Replace, PublishedIsWhole, Published
    <3> QED
      BY <3>2, <3>4
  <2>7. CASE ReplaceFindsNone(w)
    BY <2>7, ReturnInv DEF ReplaceFindsNone
  <2>8. CASE CallFails(w)
    BY <2>8, ReturnInv DEF CallFails
  <2>9. CASE WriteFails(w)
    <3>1. OneCall'
      BY <2>9 DEF WriteFails, OneCall
    <3>2. OwnTemporary'
      BY <2>9 DEF WriteFails, OwnTemporary, OneCall
    <3>3. PublishedIsWhole'
      BY <2>9 DEF WriteFails, PublishedIsWhole, Published
    <3> QED
      BY <3>1, <3>2, <3>3
  <2>10. CASE Cleanup(w)
    BY <2>10, ReturnInv DEF Cleanup
  <2> QED
    BY <1>1, <2>1, <2>2, <2>3, <2>4, <2>5, <2>6, <2>7, <2>8, <2>9, <2>10
       DEF WriterStep
<1>2. ASSUME NEW r \in Readers, ReaderStep(r) PROVE IInv'
  <2>1. OneCall' /\ OwnTemporary'
    BY <1>2 DEF ReaderStep, OpenRead, CloseRead, OneCall, OwnTemporary
  <2>2. PublishedIsWhole'
    BY <1>2 DEF ReaderStep, OpenRead, CloseRead, PublishedIsWhole, Published
  <2> QED
    BY <2>1, <2>2
<1>3. CASE Crash
  BY <1>3 DEF Crash, OneCall, OwnTemporary, PublishedIsWhole, Published
<1>4. CASE UNCHANGED vars
  BY <1>4 DEF vars, OneCall, OwnTemporary, PublishedIsWhole, Published
<1> QED
  BY <1>1, <1>2, <1>3, <1>4 DEF Next

\* The invariant holds of every behaviour.
LEMMA Inductive == ASSUME Exclusive PROVE Spec => []IInv
<1>1. IInv /\ TypeOK' /\ [Next]_vars => IInv'
  BY StepInv
<1> QED
  BY <1>1, InitInv, TypeCorrect, PTL DEF Spec

\* "Replace a file atomically": with exclusive callers neither the file nor a
\* reader's copy of it is ever half written, whatever call fails and wherever
\* the process dies.
THEOREM ExclusiveNeverTorn == ASSUME Exclusive PROVE Spec => []NeverTorn
<1>1. IInv => NeverTorn
  BY DEF IInv, TypeOK, PublishedIsWhole, Published, NeverTorn
<1> QED
  BY <1>1, Inductive, PTL

\* The temporary is the caller's own throughout an exclusive call, also when
\* a dead process has left one behind.
THEOREM ExclusiveOwnTemporary == ASSUME Exclusive PROVE Spec => []OwnTemporary
<1>1. IInv => OwnTemporary
  BY DEF IInv
<1> QED
  BY <1>1, Inductive, PTL

\* With exclusive callers no inode is written after it was published, nor
\* while a reader has it open.
THEOREM ExclusiveImmutable == ASSUME Exclusive PROVE Spec => PublishedIsImmutable
<1>1. ASSUME IInv, [Next]_vars PROVE [PublishedStays]_vars
  <2> USE NoneAssumption, <1>1 DEF IInv, TypeOK, PublishedStays
  <2>1. ASSUME NEW w \in Writers, OpenExclusive(w) PROVE PublishedStays
    BY <2>1 DEF OpenExclusive, Free, Published
  <2>2. ASSUME NEW w \in Writers, Write(w) PROVE PublishedStays
    BY <2>2 DEF Write, OwnTemporary, PublishedIsWhole
  <2>3. content' = content \/ \E w \in Writers : OpenExclusive(w) \/ Write(w)
    BY DEF Next, WriterStep, ReaderStep, Begin, Unlink, OpenFindsOther, Replace,
           ReplaceFindsNone, CallFails, WriteFails, Cleanup, OpenRead, CloseRead,
           Crash, vars
  <2> QED
    BY <2>1, <2>2, <2>3
<1> QED
  BY <1>1, Inductive, PTL DEF Spec, PublishedIsImmutable

-----------------------------------------------------------------------------
(* Callers without a lock *)

BeingFilled(i) == \E w \in Writers : freePc[w] = "write" /\ freeDescriptor[w] = i

\* What is published but not complete is being filled; so is what the temporary name
\* points to, unless a dead process left it and no call has removed it yet.
FillingInv ==
    /\ freeTarget # None /\ freeContent[freeTarget] = Partial => BeingFilled(freeTarget)
    /\ freeTemporary # None /\ freeContent[freeTemporary] = Partial =>
          BeingFilled(freeTemporary) \/ \A w \in Writers : freePc[w] \in {"idle", "unlink"}

\* Callers without a lock are typed as all are.
LEMMA UnlockedTypes == Unlocked!Spec => []Unlocked!TypeOK
<1>1. Unlocked!Init => Unlocked!TypeOK
  BY NoneAssumption DEF Unlocked!Init, Unlocked!TypeOK, Unlocked!PCs
<1>2. Unlocked!TypeOK /\ [Unlocked!Next]_Unlocked!vars => Unlocked!TypeOK'
  <2> SUFFICES ASSUME Unlocked!TypeOK, [Unlocked!Next]_Unlocked!vars PROVE Unlocked!TypeOK'
    OBVIOUS
  <2> USE NoneAssumption, FlagsAssumption DEF Unlocked!TypeOK, Unlocked!PCs
  <2>1. ASSUME NEW w \in Writers, Unlocked!WriterStep(w) PROVE Unlocked!TypeOK'
    <3>1. CASE Unlocked!Begin(w)
      BY <3>1 DEF Unlocked!Begin
    <3>2. CASE Unlocked!Unlink(w)
      BY <3>2 DEF Unlocked!Unlink
    <3>3. CASE Unlocked!OpenExclusive(w)
      BY <3>3 DEF Unlocked!OpenExclusive
    <3>4. CASE Unlocked!OpenFindsOther(w)
      BY <3>4 DEF Unlocked!OpenFindsOther, Unlocked!Return
    <3>5. CASE Unlocked!Write(w)
      BY <3>5 DEF Unlocked!Write
    <3>6. CASE Unlocked!Replace(w)
      BY <3>6 DEF Unlocked!Replace, Unlocked!Return
    <3>7. CASE Unlocked!ReplaceFindsNone(w)
      BY <3>7 DEF Unlocked!ReplaceFindsNone, Unlocked!Return
    <3>8. CASE Unlocked!CallFails(w)
      BY <3>8 DEF Unlocked!CallFails, Unlocked!Return
    <3>9. CASE Unlocked!WriteFails(w)
      BY <3>9 DEF Unlocked!WriteFails
    <3>10. CASE Unlocked!Cleanup(w)
      BY <3>10 DEF Unlocked!Cleanup, Unlocked!Return
    <3> QED
      BY <2>1, <3>1, <3>2, <3>3, <3>4, <3>5, <3>6, <3>7, <3>8, <3>9, <3>10
         DEF Unlocked!WriterStep
  <2>2. ASSUME NEW r \in Readers, Unlocked!ReaderStep(r) PROVE Unlocked!TypeOK'
    BY <2>2 DEF Unlocked!ReaderStep, Unlocked!OpenRead, Unlocked!CloseRead
  <2>3. CASE Unlocked!Crash
    BY <2>3 DEF Unlocked!Crash
  <2>4. CASE UNCHANGED Unlocked!vars
    BY <2>4 DEF Unlocked!vars
  <2> QED
    BY <2>1, <2>2, <2>3, <2>4 DEF Unlocked!Next
<1> QED
  BY <1>1, <1>2, PTL DEF Unlocked!Spec

\* Whoever calls write_private_file without a lock, and however the calls overlap: when
\* no call fails, the file is torn only while some call is still filling it.
THEOREM UnlockedLeavesWholeFiles == Unlocked!Spec => []UnlockedTornOnlyWhileWriting
<1> USE NoneAssumption, PartialAssumption
<1>1. Unlocked!Init => FillingInv
  BY DEF Unlocked!Init, FillingInv
<1>2. Unlocked!TypeOK /\ FillingInv /\ [Unlocked!Next]_Unlocked!vars => FillingInv'
  <2> SUFFICES ASSUME Unlocked!TypeOK, FillingInv, [Unlocked!Next]_Unlocked!vars PROVE FillingInv'
    OBVIOUS
  <2> USE DEF Unlocked!TypeOK, Unlocked!PCs
  <2>1. ASSUME NEW w \in Writers, Unlocked!Begin(w) PROVE FillingInv'
    BY <2>1 DEF Unlocked!Begin, FillingInv, BeingFilled
  <2>2. ASSUME NEW w \in Writers, Unlocked!Unlink(w) PROVE FillingInv'
    BY <2>2 DEF Unlocked!Unlink, FillingInv, BeingFilled
  <2>3. ASSUME NEW w \in Writers, Unlocked!OpenExclusive(w) PROVE FillingInv'
    <3>1. PICK i \in Inodes :
            /\ Unlocked!Free(i) /\ freeTemporary' = i
            /\ freeContent' = [freeContent EXCEPT ![i] = Partial]
            /\ freeDescriptor' = [freeDescriptor EXCEPT ![w] = i] /\ freeTarget' = freeTarget
            /\ freePc[w] = "open" /\ freePc' = [freePc EXCEPT ![w] = "write"]
      BY <2>3 DEF Unlocked!OpenExclusive
    <3>2. BeingFilled(i)'
      BY <3>1 DEF BeingFilled
    <3>3. freeTarget # None => freeContent'[freeTarget] = freeContent[freeTarget]
      BY <3>1 DEF Unlocked!Free
    <3>4. BeingFilled(freeTarget) => BeingFilled(freeTarget)'
      BY <3>1 DEF BeingFilled
    <3> QED
      BY <3>1, <3>2, <3>3, <3>4 DEF FillingInv
  <2>4. ASSUME NEW w \in Writers, Unlocked!Return(w), freePc[w] # "write",
               UNCHANGED <<freeContent, freeTarget>>, freeTemporary' \in {freeTemporary, None},
               freePc[w] \notin {"idle", "unlink"} \/ freeTemporary' = None
        PROVE  FillingInv'
    <3>1. \A v \in Writers :
             v # w => freePc'[v] = freePc[v] /\ freeDescriptor'[v] = freeDescriptor[v]
      BY <2>4 DEF Unlocked!Return
    <3>2. \A i : BeingFilled(i) => BeingFilled(i)'
      BY <2>4, <3>1 DEF BeingFilled
    <3> QED
      BY <2>4, <3>1, <3>2 DEF FillingInv, BeingFilled
  <2>5. ASSUME NEW w \in Writers, Unlocked!OpenFindsOther(w) \/ Unlocked!ReplaceFindsNone(w) \/
                                   Unlocked!Cleanup(w)
        PROVE  FillingInv'
    BY <2>4, <2>5 DEF Unlocked!OpenFindsOther, Unlocked!ReplaceFindsNone, Unlocked!Cleanup
  <2>6. ASSUME NEW w \in Writers, Unlocked!Write(w) PROVE FillingInv'
    <3>1. /\ freeDescriptor[w] \in Inodes /\ freeData[w] \in Values /\ freePc[w] = "write"
          /\ freeContent' = [freeContent EXCEPT ![freeDescriptor[w]] = freeData[w]]
          /\ UNCHANGED <<freeTarget, freeTemporary>>
          /\ freePc'[w] = "replace"
          /\ \A v \in Writers :
                v # w => freePc'[v] = freePc[v] /\ freeDescriptor'[v] = freeDescriptor[v]
      BY <2>6 DEF Unlocked!Write
    <3>2. \A i \in Inodes : freeContent'[i] = Partial =>
             freeContent[i] = Partial /\ (BeingFilled(i) => BeingFilled(i)')
      BY <3>1 DEF BeingFilled
    <3>3. ~ \A v \in Writers : freePc[v] \in {"idle", "unlink"}
      BY <3>1
    <3> QED
      BY <3>1, <3>2, <3>3 DEF FillingInv
  <2>7. ASSUME NEW w \in Writers, Unlocked!Replace(w) PROVE FillingInv'
    <3>1. /\ freeTarget' = freeTemporary /\ freeTemporary' = None /\ freeContent' = freeContent
          /\ freePc[w] = "replace" /\ freeTemporary # None
          /\ \A v \in Writers :
                v # w => freePc'[v] = freePc[v] /\ freeDescriptor'[v] = freeDescriptor[v]
      BY <2>7 DEF Unlocked!Replace, Unlocked!Return
    <3>2. freeContent[freeTemporary] = Partial => BeingFilled(freeTemporary)
      BY <3>1 DEF FillingInv
    <3>3. BeingFilled(freeTemporary) => BeingFilled(freeTarget)'
      BY <3>1 DEF BeingFilled
    <3> QED
      BY <3>1, <3>2, <3>3 DEF FillingInv
  <2>8. ASSUME NEW r \in Readers, Unlocked!ReaderStep(r) PROVE FillingInv'
    BY <2>8 DEF Unlocked!ReaderStep, Unlocked!OpenRead, Unlocked!CloseRead, FillingInv, BeingFilled
  <2>9. CASE UNCHANGED Unlocked!vars
    BY <2>9 DEF Unlocked!vars, FillingInv, BeingFilled
  <2> QED
    BY <2>1, <2>2, <2>3, <2>5, <2>6, <2>7, <2>8, <2>9
    DEF Unlocked!Next, Unlocked!WriterStep, Unlocked!CallFails, Unlocked!WriteFails, Unlocked!Crash
<1>3. FillingInv => UnlockedTornOnlyWhileWriting
  BY DEF FillingInv, BeingFilled, UnlockedTornOnlyWhileWriting, Unlocked!TornOnlyWhileWriting
<1> QED
  BY <1>1, <1>2, <1>3, UnlockedTypes, PTL DEF Unlocked!Spec

-----------------------------------------------------------------------------
(* Refinement *)

\* Every exclusive call of write_private_file behaves as one atomic write:
\* the rename is the commit, a raise is an abort, the rest is invisible.
THEOREM ExclusiveImplements == ASSUME Exclusive PROVE Spec => ImplementsAtomicFile
<1> USE NoneAssumption, PartialAssumption
<1>1. Init => Abstract!Init
  BY DEF Init, Abstract!Init
<1>2. ASSUME IInv, IInv', [Next]_vars PROVE [Abstract!Next]_Abstract!vars
  <2> USE <1>2 DEF IInv, TypeOK
  <2>1. ASSUME NEW w \in Writers, WriterStep(w)
        PROVE  [Abstract!Next]_Abstract!vars
    <3>1. CASE Begin(w)
      <4>1. Abstract!Begin(w)
        BY <3>1 DEF Begin, Abstract!Begin
      <4> QED
        BY <4>1 DEF Abstract!Next
    <3>2. CASE Replace(w)
      <4>1. Abstract!Commit(w)
        BY <3>2 DEF Replace, Return, Abstract!Commit, OwnTemporary
      <4> QED
        BY <4>1 DEF Abstract!Next
    <3>3. CASE OpenFindsOther(w) \/ ReplaceFindsNone(w) \/ CallFails(w) \/ Cleanup(w)
      <4>1. Abstract!Abort(w)
        BY <3>3 DEF OpenFindsOther, ReplaceFindsNone, CallFails, Cleanup, Return,
                    Abstract!Abort
      <4> QED
        BY <4>1 DEF Abstract!Next
    <3>4. CASE Unlink(w) \/ WriteFails(w)
      BY <3>4 DEF Unlink, WriteFails, Abstract!vars
    <3>5. CASE OpenExclusive(w)
      BY <3>5 DEF OpenExclusive, Free, Abstract!vars
    <3>6. CASE Write(w)
      <4>1. ~ Published(descriptor[w])
        BY <3>6 DEF Write, OwnTemporary, PublishedIsWhole
      <4> QED
        BY <3>6, <4>1 DEF Write, Published, Abstract!vars
    <3> QED
      BY <2>1, <3>1, <3>2, <3>3, <3>4, <3>5, <3>6 DEF WriterStep
  <2>2. ASSUME NEW r \in Readers, OpenRead(r)
        PROVE  [Abstract!Next]_Abstract!vars
    <3>1. Abstract!Open(r)
      BY <2>2 DEF OpenRead, Abstract!Open, PublishedIsWhole, Published
    <3> QED
      BY <3>1 DEF Abstract!Next
  <2>3. ASSUME NEW r \in Readers, CloseRead(r)
        PROVE  [Abstract!Next]_Abstract!vars
    <3>1. opened[r] \in Inodes /\ content[opened[r]] # None
      BY <2>3 DEF CloseRead
    <3>2. Abstract!Close(r)
      BY <2>3, <3>1 DEF CloseRead, Abstract!Close
    <3> QED
      BY <3>2 DEF Abstract!Next
  <2>4. CASE Crash
    <3>1. Abstract!Crash
      BY <2>4 DEF Crash, Abstract!Crash
    <3> QED
      BY <3>1 DEF Abstract!Next
  <2>5. CASE UNCHANGED vars
    BY <2>5 DEF vars, Abstract!vars
  <2> QED
    BY <2>1, <2>2, <2>3, <2>4, <2>5 DEF Next, ReaderStep
<1> QED
  BY <1>1, <1>2, Inductive, PTL DEF Spec, ImplementsAtomicFile, Abstract!Spec

=============================================================================
