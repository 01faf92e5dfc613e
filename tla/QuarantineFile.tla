--------------------------- MODULE QuarantineFile ----------------------------
(***************************************************************************)
(* The statefile beside endpoints.json (runtime/live/pool.py): how the     *)
(* pool's beliefs about its instances reach the disk, what a restarted     *)
(* trainer reads back, and what several env threads of one process do to   *)
(* the one temporary name they all write through.                          *)
(*                                                                         *)
(* The file system is two names, each bound to some content or to none.    *)
(* fd[t] says which name leads to the file thread t has open for writing:  *)
(* a rename moves the open files along with the name.                      *)
(***************************************************************************)
EXTENDS Naturals, FiniteSets

CONSTANTS
  Member,             \* the instances
  Writer,             \* env threads that may strike or readmit
  QUARANTINE_STRIKES, \* 2 in the code
  MaxStrikes,         \* bound: strikes saturate here
  MaxRestarts,        \* bound: trainer restarts
  MaxSaves,           \* bound: saves begun by each thread
  NoFile, Garbled     \* no such name; content that is not JSON

ASSUME FileAssumption ==
  /\ IsFiniteSet(Writer)
  /\ QUARANTINE_STRIKES \in Nat \ {0}
  /\ MaxStrikes \in Nat /\ MaxStrikes >= QUARANTINE_STRIKES
  /\ MaxRestarts \in Nat /\ MaxSaves \in Nat

VARIABLES
  strikes, quarantined,  \* the members' beliefs, in memory
  file, tmp,             \* what the statefile and its .tmp hold
  pc, payload, fd,       \* each thread's save: where it is, what it writes
  saves, restarts

memory == <<strikes, quarantined>>
disk == <<file, tmp>>
saving == <<pc, payload, fd>>
vars == <<memory, disk, saving, saves, restarts>>

Payload == [quarantined : SUBSET Member, strikes : [Member -> 0..MaxStrikes]]
Content == Payload \union {NoFile, Garbled}
ASSUME ContentAssumption == NoFile # Garbled /\ {NoFile, Garbled} \intersect Payload = {}

Blank == [quarantined |-> {}, strikes |-> [m \in Member |-> 0]]
InMemory == [quarantined |-> quarantined, strikes |-> strikes]

NoSaves ==
  /\ pc = [t \in Writer |-> "idle"]
  /\ payload = [t \in Writer |-> Blank]
  /\ fd = [t \in Writer |-> "closed"]

Init ==
  /\ strikes = Blank.strikes /\ quarantined = {}
  /\ file = NoFile /\ tmp = NoFile /\ NoSaves
  /\ saves = [t \in Writer |-> 0] /\ restarts = 0

------------------------------------------------------------------------------
(* What the threads learn about the instances.                             *)

Bump(n) == IF n < MaxStrikes THEN n + 1 ELSE n

BeginSave(t) ==
  /\ pc[t] = "idle" /\ saves[t] < MaxSaves
  /\ saves' = [saves EXCEPT ![t] = @ + 1]
  /\ pc' = [pc EXCEPT ![t] = "snapshot"]
  /\ UNCHANGED <<disk, payload, fd, restarts>>

(* Mutant: a recovery is not saved.                                        *)
Recover_Unsaved(t, m) ==
  /\ pc[t] = "idle"
  /\ strikes' = [strikes EXCEPT ![m] = 0]
  /\ quarantined' = quarantined \ {m}
  /\ UNCHANGED <<disk, saving, saves, restarts>>

(* _strike, and the save it ends in.                                       *)
Fail(t, m) ==
  /\ BeginSave(t)
  /\ strikes' = [strikes EXCEPT ![m] = Bump(@)]
  /\ quarantined' = IF strikes'[m] >= QUARANTINE_STRIKES
                    THEN quarantined \union {m} ELSE quarantined

(* A successful probe in _readmit_one or check_health, and its save.       *)
Recover(t, m) ==
  /\ BeginSave(t)
  /\ strikes' = [strikes EXCEPT ![m] = 0]
  /\ quarantined' = quarantined \ {m}

(* A successful render clears the strikes in memory and saves nothing.     *)
Succeed(t, m) ==
  /\ pc[t] = "idle" /\ strikes[m] # 0
  /\ strikes' = [strikes EXCEPT ![m] = 0]
  /\ UNCHANGED <<quarantined, disk, saving, saves, restarts>>

------------------------------------------------------------------------------
(* _save_quarantine, step by step.                                         *)

SaveSnapshot(t) ==
  /\ pc[t] = "snapshot"
  /\ payload' = [payload EXCEPT ![t] = InMemory]
  /\ pc' = [pc EXCEPT ![t] = "open"]
  /\ UNCHANGED <<memory, disk, fd, saves, restarts>>

(* Mutant: no temporary, the statefile itself is opened for writing.       *)
SaveOpen_InPlace(t) ==
  /\ pc[t] = "open"
  /\ file' = Garbled
  /\ tmp' = Garbled
  /\ fd' = [fd EXCEPT ![t] = "file"]
  /\ pc' = [pc EXCEPT ![t] = "write"]
  /\ UNCHANGED <<memory, payload, saves, restarts>>

(* write_text opens with mode "w": the name exists from here on, emptied.  *)
SaveOpen(t) ==
  /\ pc[t] = "open"
  /\ tmp' = Garbled
  /\ fd' = [fd EXCEPT ![t] = "tmp"]
  /\ pc' = [pc EXCEPT ![t] = "write"]
  /\ UNCHANGED <<memory, file, payload, saves, restarts>>

(* A write over a longer text another thread left there keeps its tail.    *)
Written(old, new) == IF old \in {Garbled, new} THEN {new} ELSE {new, Garbled}

SaveWrite(t) ==
  /\ pc[t] = "write"
  /\ \/ fd[t] = "tmp" /\ tmp' \in Written(tmp, payload[t]) /\ UNCHANGED file
     \/ fd[t] = "file" /\ file' \in Written(file, payload[t]) /\ UNCHANGED tmp
     \/ fd[t] = "unlinked" /\ UNCHANGED disk
  /\ fd' = [fd EXCEPT ![t] = "closed"]
  /\ pc' = [pc EXCEPT ![t] = "replace"]
  /\ UNCHANGED <<memory, payload, saves, restarts>>

Renamed(name) == CASE name = "tmp"  -> "file"
                   [] name = "file" -> "unlinked"
                   [] OTHER         -> name

(* Mutant: the rename is a copy.                                           *)
SaveReplace_Copies(t) ==
  /\ pc[t] = "replace" /\ tmp # NoFile
  /\ file' = tmp /\ UNCHANGED tmp
  /\ UNCHANGED fd
  /\ pc' = [pc EXCEPT ![t] = "idle"]
  /\ payload' = [payload EXCEPT ![t] = Blank]
  /\ UNCHANGED <<memory, saves, restarts>>

SaveReplace(t) ==
  /\ pc[t] = "replace" /\ tmp # NoFile
  /\ file' = tmp /\ tmp' = NoFile
  /\ fd' = [u \in Writer |-> Renamed(fd[u])]
  /\ pc' = [pc EXCEPT ![t] = "idle"]
  /\ payload' = [payload EXCEPT ![t] = Blank]
  /\ UNCHANGED <<memory, saves, restarts>>

(* os.replace raises FileNotFoundError into the render, lease or probe.    *)
SaveRaises(t) ==
  /\ pc[t] = "replace" /\ tmp = NoFile
  /\ pc' = [pc EXCEPT ![t] = "raised"]
  /\ UNCHANGED <<memory, disk, payload, fd, saves, restarts>>

(* The env that got the exception gives up; its thread serves another.     *)
Raised(t) ==
  /\ pc[t] = "raised"
  /\ pc' = [pc EXCEPT ![t] = "idle"]
  /\ payload' = [payload EXCEPT ![t] = Blank]
  /\ UNCHANGED <<memory, disk, fd, saves, restarts>>

------------------------------------------------------------------------------
(* The trainer dies wherever its threads are; the next one's constructor   *)
(* runs _load_quarantine, which ignores a file that is not JSON.           *)
Loaded == IF file \in {NoFile, Garbled} THEN Blank ELSE file

Restart ==
  /\ restarts < MaxRestarts /\ restarts' = restarts + 1
  /\ strikes' = Loaded.strikes /\ quarantined' = Loaded.quarantined
  /\ pc' = [t \in Writer |-> "idle"]
  /\ payload' = [t \in Writer |-> Blank]
  /\ fd' = [t \in Writer |-> "closed"]
  /\ UNCHANGED <<disk, saves>>

SaveStep(t) ==
  \/ SaveSnapshot(t) \/ SaveOpen(t) \/ SaveWrite(t)
  \/ SaveReplace(t) \/ SaveRaises(t) \/ Raised(t)

(* The training run is over.                                               *)
Quiesced ==
  /\ \A t \in Writer : pc[t] = "idle" /\ saves[t] = MaxSaves
  /\ UNCHANGED vars

Next ==
  \/ \E t \in Writer, m \in Member : Fail(t, m) \/ Recover(t, m) \/ Succeed(t, m)
  \/ \E t \in Writer : SaveStep(t)
  \/ Restart \/ Quiesced

Spec == Init /\ [][Next]_vars

------------------------------------------------------------------------------
(* Properties.                                                             *)

(* The threads that have saved: the comment of _save_quarantine takes it   *)
(* for granted that there is one.                                          *)
Savers == {t \in Writer : saves[t] > 0}

(* "a reader sees the old file or the new one, never a prefix": whenever   *)
(* the trainer dies, the statefile its successor reads is whole.           *)
NoTornRead == file # Garbled

(* With one saving thread that is so, and saving what was learnt never     *)
(* fails the call that learnt it, wherever the trainer died before.        *)
OneSaverIsSafe ==
  Cardinality(Savers) <= 1 => NoTornRead /\ \A t \in Writer : pc[t] # "raised"

(* Between calls, the statefile quarantines exactly whom the pool does: a  *)
(* restart neither forgets a dead instance nor condemns a readmitted one.  *)
(* It may bring old strikes back, never ones that were not earned: memory  *)
(* only loses strikes without a save.                                      *)
QuarantineRemembered ==
  Cardinality(Savers) <= 1 /\ (\A t \in Writer : pc[t] = "idle") =>
    /\ Loaded.quarantined = quarantined
    /\ \A m \in Member : strikes[m] <= Loaded.strikes[m]

(* However the threads' renames interleave, a thread that finds its        *)
(* temporary gone lost it to a save that landed: as long as no trainer     *)
(* died, idle threads leave a statefile and no temporary beside it.        *)
SavesLeaveOneFile ==
  restarts = 0 /\ (\A t \in Writer : pc[t] = "idle") =>
    tmp = NoFile /\ (Savers # {} => file # NoFile)
==============================================================================
