--------------------------- MODULE IdentityProofs ---------------------------
(***************************************************************************)
(* Proofs about Identity: for any number of processes and of keys, the     *)
(* file holds the identity that was held last, and without --force it      *)
(* never changes.                                                          *)
(***************************************************************************)
EXTENDS Identity, TLAPS

Busy(p) == pc[p] \notin {"idle", "holds", "failed"}

\* A process that has a key to save has one, and nobody held an identity
\* before there was a file.
KeysInHand ==
  /\ \A p \in Procs :
       pc[p] \in {"open", "write", "reopen", "rewrite"} => id[p] # 0
  /\ ~Exists => established = 0

\* One process at a time between its start and its identity: it opens the
\* file it did not find, and finds the file it opened as it left it.
Alone == \A p, q \in Procs : Busy(p) /\ Busy(q) => p = q

FirstSave ==
  \A p \in Procs :
    /\ pc[p] = "open" => ~Exists
    /\ pc[p] \in {"open", "write"} => established = 0
    /\ pc[p] \in {"write", "rewrite"} => keyfile = Empty

\* The key in the file is the one held, unless init was killed before it
\* printed any.
FileIsHeld == established # 0 /\ keyfile.kind = "key" => keyfile.key = established

\* Without --force init generates its second key only where nobody holds one.
Unforced ==
  ~forced =>
    /\ \A p \in Procs :
         pc[p] \in {"again", "reopen", "rewrite"} => established = 0
    /\ established # 0 => keyfile = Hex(established)

Serial == ~overlapped => Alone /\ FirstSave /\ FileIsHeld /\ Unforced

NotForced == ~forced => \A p \in Procs : prog[p] # "force"

KInv == IdentityTypeOK /\ KeysInHand /\ NotForced /\ Serial

USE IdentityAssumption

-----------------------------------------------------------------------------
KeyFiles == {Absent, Empty} \cup {Hex(k) : k \in 1 .. MaxKeys}

LEMMA FileFacts ==
  /\ \A f \in KeyFiles :
        \/ f = Absent
        \/ f = Empty
        \/ f.kind = "key" /\ f.key \in 1 .. MaxKeys /\ f = Hex(f.key)
  /\ Absent \in KeyFiles /\ Absent.kind = "absent"
  /\ Empty \in KeyFiles /\ Empty.kind = "empty"
  /\ \A k \in 1 .. MaxKeys :
        Hex(k) \in KeyFiles /\ Hex(k).kind = "key" /\ Hex(k).key = k
<1>1. /\ Absent \in KeyFiles /\ Absent.kind = "absent"
      /\ Empty \in KeyFiles /\ Empty.kind = "empty"
  BY DEF KeyFiles, Absent, Empty
<1>2. ASSUME NEW k \in 1 .. MaxKeys
      PROVE  Hex(k) \in KeyFiles /\ Hex(k).kind = "key" /\ Hex(k).key = k
  BY DEF KeyFiles, Hex
<1>3. \A f \in KeyFiles :
        f \in {Absent, Empty} \/ \E k \in 1 .. MaxKeys : f = Hex(k)
  BY DEF KeyFiles
<1> QED BY <1>1, <1>2, <1>3

LEMMA KInit == Init => KInv
<1> SUFFICES ASSUME Init PROVE KInv
  OBVIOUS
<1>1. IdentityTypeOK
  <2>1. 0 \in 0 .. MaxKeys
    BY DEF IdentityAssumption
  <2> QED BY <2>1 DEF Init, IdentityTypeOK
<1>2. KeysInHand /\ NotForced
  BY FileFacts DEF Init, KeysInHand, NotForced
<1>3. Serial
  BY FileFacts DEF Init, Serial, Alone, Busy, FirstSave, FileIsHeld, Unforced
<1> QED BY <1>1, <1>2, <1>3 DEF KInv

-----------------------------------------------------------------------------
(* One lemma per step of a process *)

LEMMA StartStep ==
  ASSUME KInv, NEW p \in Procs, NEW program \in Programs, Start(p, program)
  PROVE  KInv'
<1>1. IdentityTypeOK'
  BY DEF KInv, IdentityTypeOK, Start, Programs
<1>2. KeysInHand' /\ NotForced'
  BY DEF KInv, IdentityTypeOK, KeysInHand, NotForced, Exists, Start, Programs
<1>3. Serial'
  BY DEF KInv, IdentityTypeOK, KeysInHand, NotForced, Exists, Serial, Alone,
         Busy, FirstSave, FileIsHeld, Unforced, Start, Programs
<1> QED BY <1>1, <1>2, <1>3 DEF KInv

LEMMA EndsStep ==
  ASSUME KInv, NEW p \in Procs, Ends(p) \/ InitRefuses(p)
  PROVE  KInv'
<1>1. IdentityTypeOK'
  <2>1. 0 \in 0 .. MaxKeys
    BY DEF IdentityAssumption
  <2> QED BY <2>1 DEF KInv, IdentityTypeOK, Ends, InitRefuses, Exits, history
<1>2. KeysInHand' /\ NotForced'
  BY DEF KInv, IdentityTypeOK, KeysInHand, NotForced, Exists, Ends,
         InitRefuses, Exits, history
<1>3. Serial'
  BY DEF KInv, IdentityTypeOK, KeysInHand, NotForced, Exists, Serial, Alone,
         Busy, FirstSave, FileIsHeld, Unforced, Ends, InitRefuses, Exits,
         history
<1> QED BY <1>1, <1>2, <1>3 DEF KInv

LEMMA ProceedsStep ==
  ASSUME KInv, NEW p \in Procs, InitProceeds(p) \/ LoadFails(p)
  PROVE  KInv'
<1>1. IdentityTypeOK'
  BY DEF KInv, IdentityTypeOK, InitProceeds, LoadFails, history
<1>2. KeysInHand' /\ NotForced'
  BY DEF KInv, IdentityTypeOK, KeysInHand, NotForced, Exists, InitProceeds,
         LoadFails, history
<1>3. Serial'
  BY DEF KInv, IdentityTypeOK, KeysInHand, NotForced, Exists, Serial, Alone,
         Busy, FirstSave, FileIsHeld, Unforced, InitProceeds, LoadFails,
         history
<1> QED BY <1>1, <1>2, <1>3 DEF KInv

LEMMA StatMissingStep ==
  ASSUME KInv, NEW p \in Procs, StatMissing(p)
  PROVE  KInv'
<1>1. IdentityTypeOK'
  BY DEF KInv, IdentityTypeOK, StatMissing, Generate, history
<1>2. KeysInHand' /\ NotForced'
  BY DEF KInv, IdentityTypeOK, KeysInHand, NotForced, Exists, StatMissing,
         Generate, history
<1>3. Serial'
  BY DEF KInv, IdentityTypeOK, KeysInHand, NotForced, Exists, Serial, Alone,
         Busy, FirstSave, FileIsHeld, Unforced, StatMissing, Generate, history
<1> QED BY <1>1, <1>2, <1>3 DEF KInv

LEMMA OpenStep ==
  ASSUME KInv, NEW p \in Procs, Open(p)
  PROVE  KInv'
<1>1. IdentityTypeOK'
  BY FileFacts DEF KInv, IdentityTypeOK, KeyFiles, Open, history
<1>2. KeysInHand' /\ NotForced'
  BY FileFacts DEF KInv, IdentityTypeOK, KeyFiles, KeysInHand, NotForced,
         Exists, Open, history
<1>3. Serial'
  BY FileFacts DEF KInv, IdentityTypeOK, KeyFiles, KeysInHand, NotForced,
         Exists, Serial, Alone, Busy, FirstSave, FileIsHeld, Unforced, Open,
         history
<1> QED BY <1>1, <1>2, <1>3 DEF KInv

LEMMA WriteStep ==
  ASSUME KInv, NEW p \in Procs, Write(p)
  PROVE  KInv'
<1>1. IdentityTypeOK'
  BY FileFacts DEF KInv, IdentityTypeOK, KeyFiles, KeysInHand, Write, Returns,
         Holds, history
<1>2. KeysInHand' /\ NotForced'
  BY FileFacts DEF KInv, IdentityTypeOK, KeyFiles, KeysInHand, NotForced,
         Exists, Write, Returns, Holds, history
<1>3. Serial'
  BY FileFacts DEF KInv, IdentityTypeOK, KeyFiles, KeysInHand, NotForced,
         Exists, Serial, Alone, Busy, FirstSave, FileIsHeld, Unforced, Write,
         Returns, Holds, history
<1> QED BY <1>1, <1>2, <1>3 DEF KInv

LEMMA LoadExistingStep ==
  ASSUME KInv, NEW p \in Procs, LoadExisting(p)
  PROVE  KInv'
<1>1. IdentityTypeOK'
  BY FileFacts DEF KInv, IdentityTypeOK, KeyFiles, LoadExisting, Returns,
         Holds, history
<1>2. KeysInHand' /\ NotForced'
  BY FileFacts DEF KInv, IdentityTypeOK, KeyFiles, KeysInHand, NotForced,
         Exists, LoadExisting, Returns, Holds, history
<1>3. Serial'
  BY FileFacts DEF KInv, IdentityTypeOK, KeyFiles, KeysInHand, NotForced,
         Exists, Serial, Alone, Busy, FirstSave, FileIsHeld, Unforced,
         LoadExisting, Returns, Holds, history
<1> QED BY <1>1, <1>2, <1>3 DEF KInv

LEMMA RegenerateStep ==
  ASSUME KInv, NEW p \in Procs, Regenerate(p)
  PROVE  KInv'
<1>1. IdentityTypeOK'
  BY DEF KInv, IdentityTypeOK, Regenerate, Generate, history
<1>2. KeysInHand' /\ NotForced'
  BY DEF KInv, IdentityTypeOK, KeysInHand, NotForced, Exists, Regenerate,
         Generate, history
<1>3. Serial'
  BY DEF KInv, IdentityTypeOK, KeysInHand, NotForced, Exists, Serial, Alone,
         Busy, FirstSave, FileIsHeld, Unforced, Regenerate, Generate, history
<1> QED BY <1>1, <1>2, <1>3 DEF KInv

LEMMA ReopenStep ==
  ASSUME KInv, NEW p \in Procs, Reopen(p)
  PROVE  KInv'
<1>1. IdentityTypeOK'
  BY FileFacts DEF KInv, IdentityTypeOK, KeyFiles, Reopen, history
<1>2. KeysInHand' /\ NotForced'
  BY FileFacts DEF KInv, IdentityTypeOK, KeyFiles, KeysInHand, NotForced,
         Exists, Reopen, history
<1>3. Serial'
  BY FileFacts DEF KInv, IdentityTypeOK, KeyFiles, KeysInHand, NotForced,
         Exists, Serial, Alone, Busy, FirstSave, FileIsHeld, Unforced, Reopen,
         history
<1> QED BY <1>1, <1>2, <1>3 DEF KInv

LEMMA RewriteStep ==
  ASSUME KInv, NEW p \in Procs, Rewrite(p)
  PROVE  KInv'
<1>1. IdentityTypeOK'
  BY FileFacts DEF KInv, IdentityTypeOK, KeyFiles, KeysInHand, Rewrite, Holds,
         history
<1>2. KeysInHand' /\ NotForced'
  BY FileFacts DEF KInv, IdentityTypeOK, KeyFiles, KeysInHand, NotForced,
         Exists, Rewrite, Holds, history
<1>3. Serial'
  BY FileFacts DEF KInv, IdentityTypeOK, KeyFiles, KeysInHand, NotForced,
         Exists, Serial, Alone, Busy, FirstSave, FileIsHeld, Unforced,
         Rewrite, Holds, history
<1> QED BY <1>1, <1>2, <1>3 DEF KInv

LEMMA KStep == KInv /\ [Next]_vars => KInv'
<1> SUFFICES ASSUME KInv, [Next]_vars PROVE KInv'
  OBVIOUS
<1>1. ASSUME NEW p \in Procs, NEW program \in Programs, Start(p, program)
      PROVE  KInv'
  BY <1>1, StartStep
<1>2. ASSUME NEW p \in Procs, Process(p) PROVE KInv'
  BY <1>1, <1>2, EndsStep, ProceedsStep, StatMissingStep, OpenStep, WriteStep,
     LoadExistingStep, RegenerateStep, ReopenStep, RewriteStep DEF Process
<1>3. CASE UNCHANGED vars
  BY <1>3 DEF vars, history, KInv, IdentityTypeOK, KeysInHand, NotForced,
         Exists,
         Serial, Alone, Busy, FirstSave, FileIsHeld, Unforced
<1> QED BY <1>2, <1>3 DEF Next

LEMMA KInvariance == Spec => []KInv
  BY KInit, KStep, PTL DEF Spec

-----------------------------------------------------------------------------
(* The theorems *)

\* Every reachable state of the key file and its users is type-correct.
THEOREM IdentityTypeCorrect == Spec => []IdentityTypeOK
  BY KInvariance, PTL DEF KInv

\* For any number of processes killed at any step, a key that can be loaded is
\* the one the last program held, as long as starts do not overlap.
THEOREM StoredKeyIsHeld == Spec => []StoredIsHeld
<1>1. KInv => StoredIsHeld
  BY DEF KInv, Serial, FileIsHeld, StoredIsHeld
<1> QED BY <1>1, KInvariance, PTL

\* Without --force no program, finished or killed, ever takes the identity
\* away that another one has announced.
THEOREM IdentityKept == Spec => []EstablishedKept
<1>1. KInv => EstablishedKept
  BY DEF KInv, Serial, Unforced, EstablishedKept
<1> QED BY <1>1, KInvariance, PTL
=============================================================================
