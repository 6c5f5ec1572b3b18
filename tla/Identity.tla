------------------------------ MODULE Identity ------------------------------
(***************************************************************************)
(* The identity of one machine: the file identity.key and the programs     *)
(* that read and create it.  The daemon and `peerctl deploy` ("user" here) *)
(* call LoadOrGenerate and work under the identity it returns;             *)
(* `peerctl init` ("init", or "force" with --force) calls LoadOrGenerate,  *)
(* generates and saves a second key when the first is new, or on --force,  *)
(* and prints the peer ID.                                                 *)
(*                                                                         *)
(* A key is the number of the Generate call that made it: Ed25519 keys     *)
(* from crypto/rand do not collide.  Every key file has the same length,   *)
(* so of two processes that write it at the same time the later one wins.  *)
(***************************************************************************)
EXTENDS Naturals

CONSTANTS
  Procs,     \* slots for processes running at the same time
  MaxKeys    \* bound on the keys generated

ASSUME IdentityAssumption == MaxKeys \in Nat

Programs == {"user", "init", "force"}

VARIABLES
  keyfile,     \* identity.key
  generated,   \* the number of keys generated so far
  pc, prog,    \* where each process is, and what it runs
  id,          \* the identity each process has in hand, 0 for none
  isNew,       \* the second result of LoadOrGenerate
  established, \* history: the identity last held by a program, 0 for none
  overlapped,  \* history: one was started while another read or wrote
  forced       \* history: --force was given

history == <<overlapped, forced>>
vars == <<keyfile, generated, pc, prog, id, isNew, established, history>>

Absent == [kind |-> "absent", key |-> 0]
Empty == [kind |-> "empty", key |-> 0]
Hex(k) == [kind |-> "key", key |-> k]

IdentityTypeOK ==
  /\ keyfile \in {Absent, Empty} \cup {Hex(k) : k \in 1 .. MaxKeys}
  /\ generated \in 0 .. MaxKeys
  /\ pc \in [Procs -> {"idle", "check", "stat", "open", "write", "again",
                       "reopen", "rewrite", "holds", "failed"}]
  /\ prog \in [Procs -> Programs \cup {"none"}]
  /\ id \in [Procs -> 0 .. MaxKeys]
  /\ isNew \in [Procs -> BOOLEAN]
  /\ established \in 0 .. MaxKeys
  /\ overlapped \in BOOLEAN /\ forced \in BOOLEAN

Exists == keyfile.kind # "absent"

\* The process ends.
Exits(p) ==
  /\ pc' = [pc EXCEPT ![p] = "idle"]
  /\ prog' = [prog EXCEPT ![p] = "none"]
  /\ id' = [id EXCEPT ![p] = 0]
  /\ isNew' = [isNew EXCEPT ![p] = FALSE]

\* The process has its identity: the daemon runs under it, init prints it.
Holds(p, k) ==
  /\ pc' = [pc EXCEPT ![p] = "holds"]
  /\ id' = [id EXCEPT ![p] = k]
  /\ established' = k

\* What follows LoadOrGenerate: init goes on when isNew || force.
Returns(p, k, new) ==
  /\ isNew' = [isNew EXCEPT ![p] = new]
  /\ IF prog[p] = "force" \/ (prog[p] = "init" /\ new)
     THEN /\ pc' = [pc EXCEPT ![p] = "again"]
          /\ id' = [id EXCEPT ![p] = k]
          /\ UNCHANGED established
     ELSE Holds(p, k)

-----------------------------------------------------------------------------
Start(p, program) ==
  /\ pc[p] = "idle"
  /\ prog' = [prog EXCEPT ![p] = program]
  /\ pc' = [pc EXCEPT ![p] = IF program = "user" THEN "stat" ELSE "check"]
  /\ overlapped' = (overlapped \/
        \E q \in Procs : pc[q] \notin {"idle", "holds", "failed"})
  /\ forced' = (forced \/ program = "force")
  /\ UNCHANGED <<keyfile, generated, id, isNew, established>>

\* init without --force refuses to go on when the file exists.
InitRefuses(p) ==
  /\ pc[p] = "check"
  /\ Exists /\ prog[p] # "force"
  /\ Exits(p)
  /\ UNCHANGED <<keyfile, generated, established, history>>

InitProceeds(p) ==
  /\ pc[p] = "check"
  /\ Exists => prog[p] = "force"
  /\ pc' = [pc EXCEPT ![p] = "stat"]
  /\ UNCHANGED <<keyfile, generated, prog, id, isNew, established, history>>

Generate(p) ==
  /\ generated < MaxKeys
  /\ generated' = generated + 1
  /\ id' = [id EXCEPT ![p] = generated']

\* Mutant of StatMissing: the key file is not looked for.
StatIgnored(p) ==
  /\ pc[p] = "stat"
  /\ Generate(p)
  /\ pc' = [pc EXCEPT ![p] = "open"]
  /\ UNCHANGED <<keyfile, prog, isNew, established, history>>

\* LoadOrGenerate finds no file and generates a key...
StatMissing(p) ==
  /\ pc[p] = "stat"
  /\ ~Exists
  /\ Generate(p)
  /\ pc' = [pc EXCEPT ![p] = "open"]
  /\ UNCHANGED <<keyfile, prog, isNew, established, history>>

\* ... which Save stores: the open truncates or creates the file,
Open(p) ==
  /\ pc[p] = "open"
  /\ keyfile' = Empty
  /\ pc' = [pc EXCEPT ![p] = "write"]
  /\ UNCHANGED <<generated, prog, id, isNew, established, history>>

\* Mutant of Write: the raw key, which Load cannot unmarshal.
WriteRaw(p) ==
  /\ pc[p] = "write"
  /\ keyfile' = [kind |-> "raw", key |-> id[p]]
  /\ Returns(p, id[p], TRUE)
  /\ UNCHANGED <<generated, prog, history>>

\* the write fills it.
Write(p) ==
  /\ pc[p] = "write"
  /\ keyfile' = Hex(id[p])
  /\ Returns(p, id[p], TRUE)
  /\ UNCHANGED <<generated, prog, history>>

\* LoadOrGenerate finds a file and loads it...
LoadExisting(p) ==
  /\ pc[p] = "stat"
  /\ keyfile.kind = "key"
  /\ Returns(p, keyfile.key, FALSE)
  /\ UNCHANGED <<keyfile, generated, prog, history>>

\* ... or fails on what is not a key, and with it the program.
LoadFails(p) ==
  /\ pc[p] = "stat"
  /\ keyfile.kind = "empty"
  /\ pc' = [pc EXCEPT ![p] = "failed"]
  /\ UNCHANGED <<keyfile, generated, prog, id, isNew, established, history>>

\* Mutant of Regenerate: the second key is printed and not saved.
RegenerateUnsaved(p) ==
  /\ pc[p] = "again"
  /\ generated < MaxKeys
  /\ generated' = generated + 1
  /\ Holds(p, generated + 1)
  /\ UNCHANGED <<keyfile, prog, isNew, history>>

\* init generates once more and saves once more.
Regenerate(p) ==
  /\ pc[p] = "again"
  /\ Generate(p)
  /\ pc' = [pc EXCEPT ![p] = "reopen"]
  /\ UNCHANGED <<keyfile, prog, isNew, established, history>>

Reopen(p) ==
  /\ pc[p] = "reopen"
  /\ keyfile' = Empty
  /\ pc' = [pc EXCEPT ![p] = "rewrite"]
  /\ UNCHANGED <<generated, prog, id, isNew, established, history>>

Rewrite(p) ==
  /\ pc[p] = "rewrite"
  /\ keyfile' = Hex(id[p])
  /\ Holds(p, id[p])
  /\ UNCHANGED <<generated, prog, isNew, history>>

\* The process is killed or fails to write, or its work is done.
Ends(p) ==
  /\ pc[p] # "idle"
  /\ Exits(p)
  /\ UNCHANGED <<keyfile, generated, established, history>>

-----------------------------------------------------------------------------
\* A machine on which no program of the project has run.
Init ==
  /\ keyfile = Absent
  /\ generated = 0
  /\ pc = [p \in Procs |-> "idle"]
  /\ prog = [p \in Procs |-> "none"]
  /\ id = [p \in Procs |-> 0]
  /\ isNew = [p \in Procs |-> FALSE]
  /\ established = 0
  /\ overlapped = FALSE /\ forced = FALSE

Process(p) ==
  \/ \E program \in Programs : Start(p, program)
  \/ InitRefuses(p) \/ InitProceeds(p)
  \/ StatMissing(p) \/ Open(p) \/ Write(p)
  \/ LoadExisting(p) \/ LoadFails(p)
  \/ Regenerate(p) \/ Reopen(p) \/ Rewrite(p)
  \/ Ends(p)

Next == \E p \in Procs : Process(p)

Spec == Init /\ [][Next]_vars

-----------------------------------------------------------------------------
(* Properties *)

(***************************************************************************)
(* As long as programs are not started while another reads or writes the   *)
(* file, a key that can be loaded is the one the last program held:        *)
(* whatever init --force replaces and wherever a process is killed, the    *)
(* next program either gets the identity that init printed, or that the    *)
(* daemon announced, last, or fails.                                       *)
(***************************************************************************)
StoredIsHeld ==
  ~overlapped /\ established # 0 /\ keyfile.kind = "key" =>
     keyfile.key = established

(***************************************************************************)
(* Unless --force was given, or two programs ran their start at the same   *)
(* time, an identity that a program once held stays in the file, whatever  *)
(* is started or killed later: the peer ID the user shared with others     *)
(* never changes.                                                          *)
(***************************************************************************)
EstablishedKept ==
  ~overlapped /\ ~forced /\ established # 0 => keyfile = Hex(established)
=============================================================================
