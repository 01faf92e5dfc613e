------------------------ MODULE QuarantineFileProofs ------------------------
(***************************************************************************)
(* Proofs about QuarantineFile for every fleet, every number of threads,   *)
(* strikes, saves and restarts.                                            *)
(***************************************************************************)
EXTENDS QuarantineFile, FiniteSetTheorems, TLAPS

FileTypes ==
  /\ strikes \in [Member -> 0..MaxStrikes] /\ quarantined \subseteq Member
  /\ file \in Content /\ tmp \in Content
  /\ pc \in [Writer -> {"idle", "snapshot", "open", "write", "replace", "raised"}]
  /\ payload \in [Writer -> Payload]
  /\ fd \in [Writer -> {"closed", "tmp", "file", "unlinked"}]
  /\ saves \in [Writer -> Nat] /\ restarts \in Nat

(* A thread that never saved is not saving.                                *)
SavingIsCounted == \A t \in Writer : pc[t] # "idle" => saves[t] > 0

OneSaver == \A t, u \in Savers : t = u

(* What b holds is what is in memory, but for strikes a render cleared.    *)
Remembers(b) ==
  b.quarantined = quarantined /\ \A m \in Member : strikes[m] <= b.strikes[m]

(* What one saving thread can rely on: the name it opened is the one it    *)
(* writes through, over no longer text, and nothing but a clean render has *)
(* changed what it is about to write.                                      *)
Alone(t) ==
  /\ pc[t] # "raised"
  /\ pc[t] = "write" => fd[t] = "tmp" /\ tmp = Garbled
  /\ pc[t] = "replace" => tmp = payload[t]
  /\ pc[t] \in {"open", "write", "replace"} => Remembers(payload[t])

AloneInv ==
  OneSaver => /\ file # Garbled /\ \A t \in Writer : Alone(t)
              /\ (\A t \in Writer : pc[t] = "idle") => Remembers(Loaded)

(* What any number of threads can: until a trainer dies, a temporary that  *)
(* is there has a thread on its way to rename it, and one that is gone was *)
(* renamed to the statefile.                                               *)
TogetherInv ==
  restarts = 0 =>
    /\ tmp # NoFile => \E t \in Writer : pc[t] \in {"write", "replace"}
    /\ \A t \in Savers :
         /\ pc[t] \in {"idle", "raised"} => file # NoFile
         /\ pc[t] \in {"write", "replace"} => file # NoFile \/ tmp # NoFile

FileInv == FileTypes /\ SavingIsCounted /\ AloneInv /\ TogetherInv

------------------------------------------------------------------------------
LEMMA PayloadTypes ==
  ASSUME FileTypes
  PROVE  /\ Blank \in Payload /\ InMemory \in Payload /\ Loaded \in Payload
         /\ (\A b \in Payload : b \notin {NoFile, Garbled})
         /\ 0 \in 0..MaxStrikes
<1>1. 0 \in 0..MaxStrikes
  BY FileAssumption
<1>2. Blank \in Payload /\ InMemory \in Payload
  BY <1>1 DEF Blank, InMemory, Payload, FileTypes
<1>3. Loaded \in Payload
  BY <1>2 DEF Loaded, FileTypes, Content
<1>4. QED
  BY <1>1, <1>2, <1>3, ContentAssumption

(* What a payload says of the instances.                                   *)
LEMMA PayloadFields ==
  ASSUME NEW b \in Payload
  PROVE  b.quarantined \subseteq Member /\ b.strikes \in [Member -> 0..MaxStrikes]
BY DEF Payload

LEMMA BumpTyped == \A n \in 0..MaxStrikes : Bump(n) \in 0..MaxStrikes
BY FileAssumption DEF Bump

(* "At most one thread has saved", without counting.                       *)
LEMMA OneByCount == Cardinality(Savers) <= 1 => OneSaver
<1>1. SUFFICES ASSUME Cardinality(Savers) <= 1, NEW t \in Savers, NEW u \in Savers, t # u
               PROVE  FALSE
  BY DEF OneSaver
<1>2. IsFiniteSet(Savers) /\ {t, u} \subseteq Savers
  BY FileAssumption, FS_Subset DEF Savers
<1>3. Cardinality({t, u}) <= Cardinality(Savers) /\ Cardinality(Savers) \in Nat
  BY <1>2, FS_Subset, FS_CardinalityType
<1>4. Cardinality({t, u}) = 2
  <2>1. IsFiniteSet({t}) /\ Cardinality({t}) = 1 /\ u \notin {t}
    BY <1>1, FS_Singleton
  <2>2. Cardinality({t} \union {u}) = Cardinality({t}) + 1
    BY <2>1, FS_AddElement
  <2>3. {t} \union {u} = {t, u}
    OBVIOUS
  <2>4. QED
    BY <2>1, <2>2, <2>3
<1>5. QED
  BY <1>1, <1>3, <1>4

(* While the one thread that has saved is saving, the others are idle.     *)
LEMMA OthersIdle ==
  ASSUME FileInv, OneSaver, NEW t \in Writer, pc[t] # "idle"
  PROVE  Alone(t) /\ \A u \in Writer \ {t} : pc[u] = "idle"
<1>1. \A u \in Writer : pc[u] # "idle" => u \in Savers
  BY DEF FileInv, SavingIsCounted, Savers
<1>2. QED
  BY <1>1 DEF FileInv, OneSaver, AloneInv

LEMMA IdleAlone ==
  ASSUME NEW t \in Writer, pc[t] = "idle"
  PROVE  Alone(t)
BY DEF Alone

------------------------------------------------------------------------------
(* The types and the count of saves.                                       *)

LEMMA TypesKept ==
  ASSUME FileInv, Next
  PROVE  FileTypes' /\ SavingIsCounted' /\ Savers \subseteq Savers'
<1>1. FileTypes /\ SavingIsCounted
  BY DEF FileInv
<1>2. ASSUME NEW t \in Writer, BeginSave(t)
      PROVE  SavingIsCounted' /\ saves' \in [Writer -> Nat] /\ Savers \subseteq Savers'
             /\ restarts' = restarts
             /\ pc' \in [Writer -> {"idle", "snapshot", "open", "write", "replace", "raised"}]
  BY <1>1, <1>2 DEF BeginSave, SavingIsCounted, FileTypes, Savers
<1>3. ASSUME NEW t \in Writer, NEW m \in Member, Fail(t, m) \/ Recover(t, m)
      PROVE  FileTypes' /\ SavingIsCounted' /\ Savers \subseteq Savers'
  <2>1. BeginSave(t) /\ UNCHANGED <<file, tmp, payload, fd>>
    BY <1>3 DEF Fail, Recover, BeginSave, disk
  <2>2. strikes' \in [Member -> 0..MaxStrikes] /\ quarantined' \subseteq Member
    BY <1>1, <1>3, BumpTyped, PayloadTypes DEF Fail, Recover, FileTypes
  <2>3. QED
    BY <1>1, <1>2, <2>1, <2>2 DEF FileTypes
<1>4. ASSUME NEW t \in Writer, NEW m \in Member, Succeed(t, m)
      PROVE  FileTypes' /\ SavingIsCounted' /\ Savers \subseteq Savers'
  BY <1>1, <1>4, PayloadTypes DEF Succeed, disk, saving, FileTypes, SavingIsCounted, Savers
<1>5. ASSUME NEW t \in Writer, SaveStep(t)
      PROVE  FileTypes' /\ SavingIsCounted' /\ Savers \subseteq Savers'
  <2>1. pc[t] # "idle" /\ saves' = saves /\ Savers' = Savers
        /\ UNCHANGED <<strikes, quarantined, restarts>>
    BY <1>5 DEF SaveStep, SaveSnapshot, SaveOpen, SaveWrite, SaveReplace, SaveRaises,
                Raised, memory, Savers
  <2>2. /\ pc' \in [Writer -> {"idle", "snapshot", "open", "write", "replace", "raised"}]
        /\ \A u \in Writer \ {t} : pc'[u] = pc[u]
    BY <1>1, <1>5 DEF SaveStep, SaveSnapshot, SaveOpen, SaveWrite, SaveReplace, SaveRaises,
                      Raised, FileTypes
  <2>3. payload' \in [Writer -> Payload]
    BY <1>1, <1>5, PayloadTypes
       DEF SaveStep, SaveSnapshot, SaveOpen, SaveWrite, SaveReplace, SaveRaises, Raised,
           FileTypes
  <2>4. file' \in Content /\ tmp' \in Content
    BY <1>1, <1>5
       DEF SaveStep, SaveSnapshot, SaveOpen, SaveWrite, SaveReplace, SaveRaises, Raised,
           FileTypes, disk, Content, Written
  <2>5. fd' \in [Writer -> {"closed", "tmp", "file", "unlinked"}]
    BY <1>1, <1>5
       DEF SaveStep, SaveSnapshot, SaveOpen, SaveWrite, SaveReplace, SaveRaises, Raised,
           FileTypes, Renamed
  <2>6. QED
    BY <1>1, <2>1, <2>2, <2>3, <2>4, <2>5 DEF FileTypes, SavingIsCounted
<1>6. CASE Restart
  BY <1>1, <1>6, PayloadTypes, PayloadFields
     DEF Restart, disk, FileTypes, SavingIsCounted, Savers
<1>7. CASE Quiesced
  BY <1>1, <1>7 DEF Quiesced, vars, memory, disk, saving, FileTypes, SavingIsCounted, Savers
<1>8. QED
  BY <1>3, <1>4, <1>5, <1>6, <1>7 DEF Next

------------------------------------------------------------------------------
(* One saving thread.                                                      *)

LEMMA AloneKept ==
  ASSUME FileInv, Next
  PROVE  AloneInv'
<1>1. FileTypes /\ FileTypes' /\ SavingIsCounted'
  BY TypesKept DEF FileInv
<1>2. SUFFICES ASSUME OneSaver'
               PROVE  /\ file' # Garbled /\ \A u \in Writer : Alone(u)'
                      /\ (\A u \in Writer : pc'[u] = "idle") => Remembers(Loaded)'
  BY DEF AloneInv
<1>3. /\ OneSaver /\ file # Garbled /\ \A u \in Writer : Alone(u)
      /\ (\A u \in Writer : pc[u] = "idle") => Remembers(Loaded)
  BY <1>2, TypesKept DEF OneSaver, FileInv, AloneInv
<1>4. ASSUME NEW t \in Writer, NEW m \in Member, Fail(t, m) \/ Recover(t, m)
      PROVE  /\ file' # Garbled /\ \A u \in Writer : Alone(u)'
             /\ ~\A u \in Writer : pc'[u] = "idle"
  <2>1. pc'[t] = "snapshot" /\ file' = file
    BY <1>1, <1>4 DEF Fail, Recover, BeginSave, disk, FileTypes
  <2>2. \A u \in Writer \ {t} : pc'[u] = "idle"
    BY <1>1, <1>2, <2>1 DEF OneSaver, SavingIsCounted, Savers
  <2>3. QED
    BY <1>3, <2>1, <2>2 DEF Alone
<1>5. ASSUME NEW t \in Writer, NEW m \in Member, Succeed(t, m)
      PROVE  /\ file' # Garbled /\ \A u \in Writer : Alone(u)'
             /\ (\A u \in Writer : pc'[u] = "idle") => Remembers(Loaded)'
  <2>1. UNCHANGED <<quarantined, file, tmp, pc, payload, fd>>
    BY <1>5 DEF Succeed, disk, saving
  <2>2. ASSUME NEW b \in Payload, Remembers(b)
        PROVE  Remembers(b)'
    <3>1. \A k \in Member : strikes'[k] \in 0..MaxStrikes /\ strikes[k] \in 0..MaxStrikes
                            /\ strikes'[k] <= strikes[k] /\ b.strikes[k] \in 0..MaxStrikes
      BY <1>1, <1>5, PayloadFields DEF Succeed, FileTypes
    <3>2. QED
      BY <2>1, <2>2, <3>1, FileAssumption DEF Remembers
  <2>3. \A u \in Writer : payload[u] \in Payload
    BY <1>1 DEF FileTypes
  <2>4. Loaded \in Payload /\ Loaded' = Loaded
    BY <1>1, <2>1, PayloadTypes DEF Loaded
  <2>5. QED
    BY <1>3, <2>1, <2>2, <2>3, <2>4 DEF Alone
<1>6. ASSUME NEW t \in Writer, SaveStep(t)
      PROVE  /\ file' # Garbled /\ \A u \in Writer : Alone(u)'
             /\ (\A u \in Writer : pc'[u] = "idle") => Remembers(Loaded)'
  <2>1. pc[t] # "idle" /\ UNCHANGED <<strikes, quarantined>>
        /\ \A u \in Writer \ {t} : pc'[u] = pc[u]
    BY <1>1, <1>6 DEF SaveStep, SaveSnapshot, SaveOpen, SaveWrite, SaveReplace, SaveRaises,
                      Raised, memory, FileTypes
  <2>2. Alone(t) /\ \A u \in Writer \ {t} : Alone(u)' /\ pc'[u] = "idle"
    BY <1>3, <2>1, OthersIdle DEF Alone
  <2>3. payload[t] \in Payload /\ payload[t] \notin {NoFile, Garbled}
    BY <1>1, PayloadTypes DEF FileTypes
  <2>4. CASE SaveSnapshot(t)
    <3>1. payload'[t] = InMemory /\ pc'[t] = "open" /\ file' = file
      BY <1>1, <2>4 DEF SaveSnapshot, FileTypes, disk
    <3>2. Remembers(payload[t])'
      BY <1>1, <2>1, <3>1, FileAssumption DEF Remembers, InMemory, FileTypes
    <3>3. QED
      BY <1>3, <2>2, <3>1, <3>2 DEF Alone
  <2>5. CASE SaveOpen(t)
    <3>1. /\ pc[t] = "open" /\ payload' = payload /\ pc'[t] = "write" /\ file' = file
          /\ fd'[t] = "tmp" /\ tmp' = Garbled
      BY <1>1, <2>5 DEF SaveOpen, FileTypes
    <3>2. Remembers(payload[t])'
      BY <2>1, <2>2, <3>1 DEF Alone, Remembers
    <3>3. QED
      BY <1>3, <2>2, <3>1, <3>2 DEF Alone
  <2>6. CASE SaveWrite(t)
    <3>1. /\ pc[t] = "write" /\ payload' = payload /\ pc'[t] = "replace" /\ file' = file
          /\ tmp' = payload[t]
      BY <1>1, <2>2, <2>6 DEF SaveWrite, FileTypes, Alone, Written
    <3>2. Remembers(payload[t])'
      BY <2>1, <2>2, <3>1 DEF Alone, Remembers
    <3>3. QED
      BY <1>3, <2>2, <3>1, <3>2 DEF Alone
  <2>7. CASE SaveReplace(t)
    <3>1. file' = payload[t] /\ pc'[t] = "idle" /\ pc[t] = "replace"
      BY <1>1, <2>2, <2>7 DEF SaveReplace, FileTypes, Alone
    <3>2. Loaded' = payload[t]
      BY <2>3, <3>1 DEF Loaded
    <3>3. Remembers(Loaded)'
      BY <2>1, <2>2, <3>1, <3>2 DEF Alone, Remembers
    <3>4. QED
      BY <2>2, <2>3, <3>1, <3>3 DEF Alone
  <2>8. CASE SaveRaises(t) \/ Raised(t)
    BY <2>2, <2>3, <2>8 DEF SaveRaises, Raised, Alone
  <2>9. QED
    BY <1>6, <2>4, <2>5, <2>6, <2>7, <2>8 DEF SaveStep
<1>7. CASE Restart
  <2>1. /\ file' = file /\ strikes' = Loaded.strikes /\ quarantined' = Loaded.quarantined
        /\ \A u \in Writer : pc'[u] = "idle"
    BY <1>7 DEF Restart, disk
  <2>2. Loaded' = Loaded
    BY <2>1 DEF Loaded
  <2>3. Remembers(Loaded)'
    BY <1>1, <2>1, <2>2, FileAssumption DEF Remembers, FileTypes
  <2>4. QED
    BY <1>3, <2>1, <2>3 DEF Alone
<1>8. CASE Quiesced
  <2>1. UNCHANGED <<strikes, quarantined, file, tmp, pc, payload, fd>>
    BY <1>8 DEF Quiesced, vars, memory, disk, saving
  <2>2. QED
    BY <1>3, <2>1 DEF Alone, Remembers, Loaded
<1>9. QED
  BY <1>4, <1>5, <1>6, <1>7, <1>8 DEF Next

------------------------------------------------------------------------------
(* Any number of saving threads.                                           *)

LEMMA TogetherKept ==
  ASSUME FileInv, Next
  PROVE  TogetherInv'
<1>1. FileTypes /\ FileTypes' /\ SavingIsCounted
  BY TypesKept DEF FileInv
<1>2. SUFFICES ASSUME restarts' = 0
               PROVE  /\ tmp' # NoFile => \E u \in Writer : pc'[u] \in {"write", "replace"}
                      /\ \A u \in Savers' :
                           /\ pc'[u] \in {"idle", "raised"} => file' # NoFile
                           /\ pc'[u] \in {"write", "replace"} =>
                                file' # NoFile \/ tmp' # NoFile
  BY DEF TogetherInv
<1>3. CASE Restart
  BY <1>1, <1>2, <1>3 DEF Restart, FileTypes
<1>4. restarts = 0 \/ Restart
  <2>1. ASSUME NEW t \in Writer, NEW m \in Member,
               Fail(t, m) \/ Recover(t, m) \/ Succeed(t, m)
        PROVE  restarts' = restarts
    BY <2>1 DEF Fail, Recover, Succeed, BeginSave
  <2>2. ASSUME NEW t \in Writer, SaveStep(t)
        PROVE  restarts' = restarts
    BY <2>2 DEF SaveStep, SaveSnapshot, SaveOpen, SaveWrite, SaveReplace, SaveRaises, Raised
  <2>3. Quiesced => restarts' = restarts
    BY DEF Quiesced, vars
  <2>4. QED
    BY <1>2, <2>1, <2>2, <2>3 DEF Next
<1>5. ASSUME restarts = 0 PROVE
      /\ tmp # NoFile => \E u \in Writer : pc[u] \in {"write", "replace"}
      /\ \A u \in Savers : /\ pc[u] \in {"idle", "raised"} => file # NoFile
                           /\ pc[u] \in {"write", "replace"} =>
                                file # NoFile \/ tmp # NoFile
  BY <1>5 DEF FileInv, TogetherInv
<1>6. ASSUME NEW t \in Writer, NEW m \in Member, Fail(t, m) \/ Recover(t, m) \/ Succeed(t, m)
      PROVE  /\ UNCHANGED <<file, tmp>>
             /\ \A u \in Writer : \/ pc'[u] = pc[u] /\ (u \in Savers' => u \in Savers)
                                  \/ pc[u] = "idle" /\ pc'[u] = "snapshot"
  BY <1>1, <1>6
     DEF Fail, Recover, Succeed, BeginSave, disk, saving, FileTypes, Savers
<1>7. CASE \E t \in Writer, m \in Member : Fail(t, m) \/ Recover(t, m) \/ Succeed(t, m)
  <2>1. restarts = 0
    BY <1>2, <1>7 DEF Fail, Recover, Succeed, BeginSave
  <2>2. /\ UNCHANGED <<file, tmp>>
        /\ \A u \in Writer : \/ pc'[u] = pc[u] /\ (u \in Savers' => u \in Savers)
                             \/ pc[u] = "idle" /\ pc'[u] = "snapshot"
    BY <1>6, <1>7
  <2>3. \A u \in Savers' : u \in Writer
    BY DEF Savers
  <2>4. QED
    BY <1>5, <2>1, <2>2, <2>3
<1>8. ASSUME restarts = 0, NEW t \in Writer, SaveStep(t)
      PROVE  /\ tmp' # NoFile => \E u \in Writer : pc'[u] \in {"write", "replace"}
             /\ \A u \in Savers : /\ pc'[u] \in {"idle", "raised"} => file' # NoFile
                                  /\ pc'[u] \in {"write", "replace"} =>
                                       file' # NoFile \/ tmp' # NoFile
  <2>1. /\ t \in Savers /\ \A u \in Writer \ {t} : pc'[u] = pc[u]
        /\ payload[t] \in Payload /\ payload[t] # NoFile /\ Garbled # NoFile
    <3>1. pc[t] # "idle" /\ \A u \in Writer \ {t} : pc'[u] = pc[u]
      BY <1>1, <1>8 DEF SaveStep, SaveSnapshot, SaveOpen, SaveWrite, SaveReplace,
                        SaveRaises, Raised, FileTypes
    <3>2. QED
      BY <1>1, <3>1, ContentAssumption, PayloadTypes
         DEF SavingIsCounted, Savers, FileTypes
  <2>2. CASE SaveSnapshot(t)
    BY <1>1, <1>5, <1>8, <2>1, <2>2 DEF SaveSnapshot, disk, FileTypes, Savers
  <2>3. CASE SaveOpen(t)
    BY <1>1, <1>5, <1>8, <2>1, <2>3 DEF SaveOpen, FileTypes, Savers
  <2>4. CASE SaveWrite(t)
    <3>1. /\ pc[t] = "write" /\ pc'[t] = "replace"
          /\ file # NoFile => file' # NoFile
          /\ tmp # NoFile => tmp' # NoFile
      BY <1>1, <2>1, <2>4 DEF SaveWrite, FileTypes, Written, disk
    <3>2. QED
      BY <1>5, <1>8, <2>1, <3>1 DEF Savers
  <2>5. CASE SaveReplace(t)
    BY <1>1, <1>5, <1>8, <2>1, <2>5 DEF SaveReplace, FileTypes, Savers
  <2>6. CASE SaveRaises(t) \/ Raised(t)
    BY <1>1, <1>5, <1>8, <2>1, <2>6 DEF SaveRaises, Raised, disk, FileTypes, Savers
  <2>7. QED
    BY <1>8, <2>2, <2>3, <2>4, <2>5, <2>6 DEF SaveStep
<1>9. CASE \E t \in Writer : SaveStep(t)
  <2>1. Savers' = Savers
    BY <1>9 DEF SaveStep, SaveSnapshot, SaveOpen, SaveWrite, SaveReplace, SaveRaises,
                Raised, Savers
  <2>2. QED
    BY <1>4, <1>8, <1>9, <2>1, <1>3
<1>10. CASE Quiesced
  BY <1>2, <1>5, <1>10 DEF Quiesced, vars, disk, saving, Savers
<1>11. QED
  BY <1>3, <1>7, <1>9, <1>10, <1>2 DEF Next

------------------------------------------------------------------------------
LEMMA Safe == Spec => []FileInv
<1>1. Init => FileInv
  <2>1. SUFFICES ASSUME Init PROVE FileInv
    OBVIOUS
  <2>2. FileTypes
    <3>1. 0 \in 0..MaxStrikes
      BY FileAssumption
    <3>2. Blank \in Payload /\ Blank.strikes \in [Member -> 0..MaxStrikes]
      BY <3>1 DEF Blank, Payload
    <3>3. QED
      BY <2>1, <3>2 DEF Init, NoSaves, FileTypes, Content
  <2>3. SavingIsCounted /\ Savers = {}
    BY <2>1 DEF Init, NoSaves, SavingIsCounted, Savers
  <2>4. AloneInv
    <3>1. Loaded = Blank /\ file # Garbled
      BY <2>1, ContentAssumption DEF Init, Loaded
    <3>2. Remembers(Loaded)
      BY <2>1, <3>1 DEF Init, Remembers, Blank
    <3>3. QED
      BY <2>1, <3>1, <3>2, IdleAlone DEF Init, NoSaves, AloneInv
  <2>5. TogetherInv
    BY <2>1, <2>3 DEF Init, TogetherInv
  <2>6. QED
    BY <2>2, <2>3, <2>4, <2>5 DEF FileInv
<1>2. FileInv /\ [Next]_vars => FileInv'
  <2>1. CASE FileInv /\ Next
    BY <2>1, TypesKept, AloneKept, TogetherKept DEF FileInv
  <2>2. CASE FileInv /\ UNCHANGED vars
    <3>1. UNCHANGED <<strikes, quarantined, file, tmp, pc, payload, fd, saves, restarts>>
      BY <2>2 DEF vars, memory, disk, saving
    <3>2. FileTypes' /\ SavingIsCounted' /\ Savers' = Savers
      BY <2>2, <3>1 DEF FileInv, FileTypes, SavingIsCounted, Savers
    <3>3. AloneInv'
      BY <2>2, <3>1, <3>2 DEF FileInv, AloneInv, OneSaver, Alone, Remembers, Loaded
    <3>4. TogetherInv'
      BY <2>2, <3>1, <3>2 DEF FileInv, TogetherInv
    <3>5. QED
      BY <3>2, <3>3, <3>4 DEF FileInv
  <2>3. QED
    BY <2>1, <2>2
<1>3. QED
  BY <1>1, <1>2, PTL DEF Spec

(* With one saving thread the statefile is whole whenever the trainer      *)
(* dies, and a save never fails the call that made it, whatever an earlier *)
(* trainer left in the directory.                                          *)
THEOREM OneWriterIsAtomic == Spec => []OneSaverIsSafe
<1>1. FileInv => OneSaverIsSafe
  BY OneByCount DEF FileInv, AloneInv, Alone, OneSaverIsSafe, NoTornRead
<1>2. QED
  BY <1>1, Safe, PTL

(* Between calls a restart would bring back the quarantine there is, and   *)
(* no strike that was not earned.                                          *)
THEOREM RestartsRemember == Spec => []QuarantineRemembered
<1>1. FileInv => QuarantineRemembered
  BY OneByCount DEF FileInv, AloneInv, Remembers, QuarantineRemembered
<1>2. QED
  BY <1>1, Safe, PTL

(* However many threads save at once, once they are done there is a        *)
(* statefile and no temporary beside it.                                   *)
THEOREM NothingIsLeftBehind == Spec => []SavesLeaveOneFile
<1>1. FileInv => SavesLeaveOneFile
  BY DEF FileInv, TogetherInv, SavesLeaveOneFile, Savers
<1>2. QED
  BY <1>1, Safe, PTL
==============================================================================
