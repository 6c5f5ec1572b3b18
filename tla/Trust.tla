------------------------------- MODULE Trust -------------------------------
(***************************************************************************)
(* The trust list of one machine: the file trusted_peers.json, the         *)
(* `peerctl peers add` and `peerctl peers remove` processes that load,     *)
(* edit and rewrite it, and the daemon, which loads it once when it starts *)
(* and from then on answers the connection gater from memory.              *)
(*                                                                         *)
(* os.WriteFile is two steps, as in the Go library: the open truncates the *)
(* file (or creates it empty), the write fills it.  A process may die, or  *)
(* the write may fail, between the two.  A peer's name, addresses and time *)
(* of addition are left out: an edit is only the peer it adds or removes.  *)
(***************************************************************************)
EXTENDS FiniteSets

CONSTANTS
  Peers,    \* the peer IDs a command line or a remote connection can name
  Ctls      \* slots for peerctl processes running at the same time

VARIABLES
  file,        \* trusted_peers.json
  pc,          \* where each peerctl is
  cmd,         \* its command: [op, peer]
  peers,       \* TrustManager.peers of each peerctl
  up,          \* whether the daemon runs
  trusted,     \* TrustManager.peers of the daemon
  conns,       \* the peers the daemon has a connection with
  ledger,      \* history: every completed edit, applied in order
  added,       \* history: the peers some command asked to add
  interrupted, \* history: a process died, or failed, inside os.WriteFile
  overlapped   \* history: a peerctl was started while another was at work

ctlVars == <<pc, cmd, peers>>
daemonVars == <<up, trusted, conns>>
vars ==
  <<file, ctlVars, daemonVars, ledger, added, interrupted, overlapped>>

(***************************************************************************)
(* The file: absent, empty, a JSON list of peers, or the bytes of one list *)
(* over those of a longer one, which no JSON parser accepts.               *)
(***************************************************************************)
Absent == [kind |-> "absent", peers |-> {}]
Empty == [kind |-> "empty", peers |-> {}]
Garbled == [kind |-> "garbled", peers |-> {}]
JSONList(S) == [kind |-> "list", peers |-> S]

Commands == [op : {"add", "remove"}, peer : Peers]
NoCommand == [op |-> "none"]

TrustTypeOK ==
  /\ file \in {Absent, Empty, Garbled} \cup {JSONList(S) : S \in SUBSET Peers}
  /\ pc \in [Ctls -> {"idle", "load", "edit", "write"}]
  /\ cmd \in [Ctls -> Commands \cup {NoCommand}]
  /\ peers \in [Ctls -> SUBSET Peers]
  /\ up \in BOOLEAN
  /\ trusted \in SUBSET Peers
  /\ conns \in SUBSET Peers
  /\ ledger \in SUBSET Peers
  /\ added \in SUBSET Peers
  /\ interrupted \in BOOLEAN /\ overlapped \in BOOLEAN

\* The list after one command.
Edited(S, c) == IF c.op = "add" THEN S \cup {c.peer} ELSE S \ {c.peer}

-----------------------------------------------------------------------------
(* peerctl peers add | remove *)

\* The process ends: it prints its last line, or its error.
Exits(c) ==
  /\ pc' = [pc EXCEPT ![c] = "idle"]
  /\ cmd' = [cmd EXCEPT ![c] = NoCommand]
  /\ peers' = [peers EXCEPT ![c] = {}]

Begin(c, command) ==
  /\ pc[c] = "idle"
  /\ pc' = [pc EXCEPT ![c] = "load"]
  /\ cmd' = [cmd EXCEPT ![c] = command]
  /\ added' = IF command.op = "add" THEN added \cup {command.peer} ELSE added
  /\ overlapped' = (overlapped \/ \E d \in Ctls : pc[d] # "idle")
  /\ UNCHANGED <<file, peers, daemonVars, ledger, interrupted>>

\* Mutant of Loadable: a parse error is taken for an empty list.
LoadableAlways == TRUE

\* TrustManager.Load succeeds on a missing file (an empty list) and on JSON.
Loadable == file.kind \in {"absent", "list"}

Load(c) ==
  /\ pc[c] = "load"
  /\ Loadable
  /\ pc' = [pc EXCEPT ![c] = "edit"]
  /\ peers' = [peers EXCEPT ![c] = file.peers]
  /\ UNCHANGED
       <<file, cmd, daemonVars, ledger, added, interrupted, overlapped>>

LoadFails(c) ==
  /\ pc[c] = "load"
  /\ ~Loadable
  /\ Exits(c)
  /\ UNCHANGED <<file, daemonVars, ledger, added, interrupted, overlapped>>

\* Remove refuses a peer that is not in the list it loaded.
NotListed(c) ==
  /\ pc[c] = "edit"
  /\ cmd[c].op = "remove" /\ cmd[c].peer \notin peers[c]
  /\ Exits(c)
  /\ UNCHANGED <<file, daemonVars, ledger, added, interrupted, overlapped>>

\* Add or Remove changes the list in memory and saveUnlocked opens the file
\* for writing, which truncates it.
Edit(c) ==
  /\ pc[c] = "edit"
  /\ cmd[c].op = "remove" => cmd[c].peer \in peers[c]
  /\ pc' = [pc EXCEPT ![c] = "write"]
  /\ peers' = [peers EXCEPT ![c] = Edited(peers[c], cmd[c])]
  /\ file' = Empty
  /\ UNCHANGED <<cmd, daemonVars, ledger, added, interrupted, overlapped>>

\* Mutant of Overwritten: the slice is made with a length in place of a
\* capacity, so that a null entry precedes those appended.
OverwrittenWithNull(S) == {JSONList(S \cup {"null"})}

\* What the file holds after a process wrote list S at the start of it: when
\* another process filled it since it was truncated, whatever of that longer
\* text lies beyond the end of S remains.
Overwritten(S) ==
  IF file.kind = "empty" THEN {JSONList(S)} ELSE {JSONList(S), Garbled}

saveUnlocked(c) ==
  /\ pc[c] = "write"
  /\ file' \in Overwritten(peers[c])
  /\ ledger' = Edited(ledger, cmd[c])
  /\ Exits(c)
  /\ UNCHANGED <<daemonVars, added, interrupted, overlapped>>

\* MkdirAll or the open fails, or the process is killed outside WriteFile.
GivesUp(c) ==
  /\ pc[c] \in {"load", "edit"}
  /\ Exits(c)
  /\ UNCHANGED <<file, daemonVars, ledger, added, interrupted, overlapped>>

\* The write fails (a full disk), or the process is killed before it.
DiesWriting(c) ==
  /\ pc[c] = "write"
  /\ interrupted' = TRUE
  /\ Exits(c)
  /\ UNCHANGED <<file, daemonVars, ledger, added, overlapped>>

-----------------------------------------------------------------------------
(* peercomputed *)

\* Mutant of DaemonLoad: everybody is trusted when the list cannot be loaded.
DaemonLoadFailsOpen ==
  /\ ~up
  /\ up' = TRUE
  /\ trusted' = IF Loadable THEN file.peers ELSE Peers
  /\ UNCHANGED <<file, ctlVars, conns, ledger, added, interrupted, overlapped>>

\* The daemon starts.  It warns about a file it cannot load and goes on with
\* the empty list of NewTrustManager.
DaemonLoad ==
  /\ ~up
  /\ up' = TRUE
  /\ trusted' = IF Loadable THEN file.peers ELSE {}
  /\ UNCHANGED <<file, ctlVars, conns, ledger, added, interrupted, overlapped>>

IsTrusted(p) == p \in trusted

\* A connection with p is dialled or accepted: InterceptPeerDial,
\* InterceptAddrDial and InterceptSecured ask the list in memory.
Connect(p) ==
  /\ up
  /\ IsTrusted(p)
  /\ p \notin conns
  /\ conns' = conns \cup {p}
  /\ UNCHANGED
       <<file, ctlVars, up, trusted, ledger, added, interrupted, overlapped>>

Disconnect(p) ==
  /\ p \in conns
  /\ conns' = conns \ {p}
  /\ UNCHANGED
       <<file, ctlVars, up, trusted, ledger, added, interrupted, overlapped>>

DaemonEnds ==
  /\ up
  /\ up' = FALSE /\ trusted' = {} /\ conns' = {}
  /\ UNCHANGED <<file, ctlVars, ledger, added, interrupted, overlapped>>

-----------------------------------------------------------------------------
\* A machine on which peerctl has never run.
Init ==
  /\ file = Absent
  /\ pc = [c \in Ctls |-> "idle"]
  /\ cmd = [c \in Ctls |-> NoCommand]
  /\ peers = [c \in Ctls |-> {}]
  /\ up = FALSE /\ trusted = {} /\ conns = {}
  /\ ledger = {} /\ added = {}
  /\ interrupted = FALSE /\ overlapped = FALSE

Peerctl(c) ==
  \/ \E command \in Commands : Begin(c, command)
  \/ Load(c)
  \/ LoadFails(c)
  \/ NotListed(c)
  \/ Edit(c)
  \/ saveUnlocked(c)
  \/ GivesUp(c)
  \/ DiesWriting(c)

Daemon ==
  \/ DaemonLoad
  \/ DaemonEnds
  \/ \E p \in Peers : Connect(p)
  \/ \E p \in Peers : Disconnect(p)

Next == Daemon \/ \E c \in Ctls : Peerctl(c)

Spec == Init /\ [][Next]_vars

-----------------------------------------------------------------------------
(* Properties *)

(***************************************************************************)
(* Whatever the interleaving of edits, kills and restarts, nobody is       *)
(* trusted who was never named in an add: not in a file that can be        *)
(* loaded, not in the daemon's memory, not by a connection (Add is "the    *)
(* only way to establish trust with a peer", trust.go).                    *)
(***************************************************************************)
OnlyAdded ==
  /\ file.kind = "list" => file.peers \subseteq added
  /\ trusted \subseteq added
  /\ conns \subseteq added

(***************************************************************************)
(* As long as the user waits for one peerctl before starting the next, a   *)
(* file that can be loaded holds exactly the result of the edits that      *)
(* completed: no interrupted or refused peerctl changed it, and none       *)
(* dropped another's edit.  One that cannot be loaded is being written, or *)
(* its writer was cut off inside os.WriteFile.                             *)
(***************************************************************************)
LedgerKept ==
  ~overlapped =>
     /\ file.kind = "list" => file.peers = ledger
     /\ ~Loadable => interrupted \/ \E c \in Ctls : pc[c] = "write"

(***************************************************************************)
(* Under the same condition a daemon that starts trusts nobody whose       *)
(* removal was completed, or whose addition was not, cut-off writes and    *)
(* unreadable files included.                                              *)
(***************************************************************************)
SerialRestartRevokes ==
  [][~overlapped /\ ~up /\ up' => trusted' \subseteq ledger]_vars
=============================================================================
