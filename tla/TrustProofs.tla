---------------------------- MODULE TrustProofs ----------------------------
(***************************************************************************)
(* Proofs about Trust: for any number of peers and of peerctl processes,   *)
(* nobody is trusted without an add, and serial edits are kept.            *)
(***************************************************************************)
EXTENDS Trust, TLAPS

\* Where a trusted peer can come from: the file, the list in some peerctl's
\* memory, or the add it was started for.  All of them were asked for.
AddedOnly ==
  /\ file.peers \subseteq added
  /\ \A c \in Ctls : peers[c] \subseteq added
  /\ \A c \in Ctls : cmd[c].op = "add" => cmd[c].peer \in added
  /\ trusted \subseteq added
  /\ conns \subseteq added

\* One peerctl at a time: what it read is what the completed edits made, and
\* while it writes nobody else has touched the file it truncated.
Alone == \A c, d \in Ctls : pc[c] # "idle" /\ pc[d] # "idle" => c = d

FileIsLedger ==
  /\ file.kind = "list" => file.peers = ledger
  /\ file.kind = "absent" => ledger = {}
  /\ ~Loadable => interrupted \/ \E c \in Ctls : pc[c] = "write"

CtlHasLedger ==
  \A c \in Ctls :
    /\ pc[c] = "edit" => file.peers = peers[c] /\ peers[c] = ledger
    /\ pc[c] = "write" => file = Empty /\ peers[c] = Edited(ledger, cmd[c])

Serial == ~overlapped => Alone /\ FileIsLedger /\ CtlHasLedger

TInv == TrustTypeOK /\ AddedOnly /\ Serial

-----------------------------------------------------------------------------
\* What a file holds, and what an edit makes of a list.
Files == {Absent, Empty, Garbled} \cup {JSONList(S) : S \in SUBSET Peers}

LEMMA FileFacts ==
  /\ \A f \in Files : f.peers \in SUBSET Peers
  /\ \A f \in Files : f.kind \in {"absent", "empty"} => f.peers = {}
  /\ \A f \in Files : f.kind = "empty" => f = Empty
  /\ Absent \in Files /\ Absent.kind = "absent" /\ Absent.peers = {}
  /\ Empty \in Files /\ Empty.kind = "empty" /\ Empty.peers = {}
  /\ Garbled \in Files /\ Garbled.kind = "garbled" /\ Garbled.peers = {}
  /\ \A S \in SUBSET Peers :
        /\ JSONList(S) \in Files
        /\ JSONList(S).kind = "list" /\ JSONList(S).peers = S
<1>1. /\ Absent \in Files /\ Absent.kind = "absent" /\ Absent.peers = {}
      /\ Empty \in Files /\ Empty.kind = "empty" /\ Empty.peers = {}
      /\ Garbled \in Files /\ Garbled.kind = "garbled" /\ Garbled.peers = {}
  BY DEF Files, Absent, Empty, Garbled
<1>2. ASSUME NEW S \in SUBSET Peers
      PROVE  /\ JSONList(S) \in Files
             /\ JSONList(S).kind = "list" /\ JSONList(S).peers = S
  BY DEF Files, JSONList
<1>3. \A f \in Files : f \in {Absent, Empty, Garbled}
                         \/ \E S \in SUBSET Peers : f = JSONList(S)
  BY DEF Files
<1> QED BY <1>1, <1>2, <1>3

LEMMA EditedFacts ==
  ASSUME NEW S \in SUBSET Peers, NEW command \in Commands \cup {NoCommand}
  PROVE  /\ Edited(S, command) \in SUBSET Peers
         /\ command.op # "add" => Edited(S, command) \subseteq S
         /\ command.op = "add" => Edited(S, command) = S \cup {command.peer}
  BY DEF Edited, Commands, NoCommand

LEMMA TInit == Init => TInv
<1> SUFFICES ASSUME Init PROVE TInv
  OBVIOUS
<1>1. TrustTypeOK
  BY FileFacts DEF Init, TrustTypeOK, Files
<1>2. AddedOnly
  BY FileFacts DEF Init, AddedOnly, NoCommand
<1>3. Serial
  BY FileFacts DEF Init, Serial, Alone, FileIsLedger, CtlHasLedger, Loadable
<1> QED BY <1>1, <1>2, <1>3 DEF TInv

-----------------------------------------------------------------------------
(* peerctl, step by step *)

\* A peerctl that ends before it opened the file for writing leaves nothing.
LEMMA ExitsStep ==
  ASSUME TInv, NEW c \in Ctls, pc[c] \in {"load", "edit"}, Exits(c),
         UNCHANGED <<file, daemonVars, ledger, added, interrupted, overlapped>>
  PROVE  TInv'
<1>1. TrustTypeOK'
  BY DEF TInv, TrustTypeOK, Exits, daemonVars
<1>2. AddedOnly'
  BY DEF TInv, TrustTypeOK, AddedOnly, Exits, daemonVars, NoCommand
<1>3. Serial'
  BY DEF TInv, TrustTypeOK, Serial, Alone, FileIsLedger, CtlHasLedger, Loadable,
         Exits, daemonVars
<1> QED BY <1>1, <1>2, <1>3 DEF TInv

LEMMA BeginStep ==
  ASSUME TInv, NEW c \in Ctls, NEW command \in Commands, Begin(c, command)
  PROVE  TInv'
<1>1. TrustTypeOK'
  BY DEF TInv, TrustTypeOK, Begin, daemonVars, Commands
<1>2. AddedOnly'
  BY DEF TInv, TrustTypeOK, AddedOnly, Begin, daemonVars
<1>3. Serial'
  BY DEF TInv, TrustTypeOK, Serial, Alone, FileIsLedger, CtlHasLedger, Loadable,
         Begin, daemonVars
<1> QED BY <1>1, <1>2, <1>3 DEF TInv

LEMMA LoadStep ==
  ASSUME TInv, NEW c \in Ctls, Load(c)
  PROVE  TInv'
<1>1. file \in Files /\ file.peers \in SUBSET Peers
  BY FileFacts DEF TInv, TrustTypeOK, Files
<1>2. TrustTypeOK'
  BY <1>1 DEF TInv, TrustTypeOK, Load, daemonVars
<1>3. AddedOnly'
  BY <1>1 DEF TInv, TrustTypeOK, AddedOnly, Load, daemonVars
<1>4. ~overlapped => file.peers = ledger
  BY <1>1, FileFacts DEF TInv, Serial, FileIsLedger, Load, Loadable
<1>5. Serial'
  BY <1>4 DEF TInv, TrustTypeOK, Serial, Alone, FileIsLedger, CtlHasLedger,
         Loadable, Load, daemonVars
<1> QED BY <1>2, <1>3, <1>5 DEF TInv

LEMMA EditStep ==
  ASSUME TInv, NEW c \in Ctls, Edit(c)
  PROVE  TInv'
<1>1. /\ peers[c] \in SUBSET Peers /\ cmd[c] \in Commands \cup {NoCommand}
      /\ peers[c] \subseteq added /\ (cmd[c].op = "add" => cmd[c].peer \in added)
  BY DEF TInv, TrustTypeOK, AddedOnly
<1>2. Edited(peers[c], cmd[c]) \in SUBSET Peers
      /\ Edited(peers[c], cmd[c]) \subseteq added
  BY <1>1, EditedFacts
<1>3. TrustTypeOK'
  BY <1>2, FileFacts DEF TInv, TrustTypeOK, Files, Edit, daemonVars
<1>4. AddedOnly'
  BY <1>2, FileFacts DEF TInv, TrustTypeOK, AddedOnly, Edit, daemonVars
<1>5. Serial'
  BY FileFacts DEF TInv, TrustTypeOK, Serial, Alone, FileIsLedger, CtlHasLedger,
         Loadable, Edit, daemonVars
<1> QED BY <1>3, <1>4, <1>5 DEF TInv

LEMMA SaveStep ==
  ASSUME TInv, NEW c \in Ctls, saveUnlocked(c)
  PROVE  TInv'
<1>1. /\ peers[c] \in SUBSET Peers /\ cmd[c] \in Commands \cup {NoCommand}
      /\ peers[c] \subseteq added /\ ledger \in SUBSET Peers
  BY DEF TInv, TrustTypeOK, AddedOnly
<1>2. Edited(ledger, cmd[c]) \in SUBSET Peers
  BY <1>1, EditedFacts
<1>3. /\ file' \in Files /\ file'.peers \subseteq peers[c]
      /\ file'.kind \in {"list", "garbled"}
      /\ file'.kind = "list" => file'.peers = peers[c]
      /\ file = Empty => file'.kind = "list"
  BY <1>1, FileFacts DEF saveUnlocked, Overwritten
<1>4. TrustTypeOK'
  BY <1>2, <1>3 DEF TInv, TrustTypeOK, Files, saveUnlocked, Exits, daemonVars
<1>5. AddedOnly'
  BY <1>1, <1>3 DEF TInv, TrustTypeOK, AddedOnly, saveUnlocked, Exits, daemonVars,
         NoCommand
<1>6. Serial'
  <2> SUFFICES ASSUME ~overlapped' PROVE Alone' /\ FileIsLedger' /\ CtlHasLedger'
    BY DEF Serial
  <2>1. ~overlapped /\ Alone /\ pc[c] = "write"
        /\ file = Empty /\ peers[c] = Edited(ledger, cmd[c])
        /\ ledger' = Edited(ledger, cmd[c])
    BY DEF saveUnlocked, TInv, Serial, CtlHasLedger
  <2>2. \A d \in Ctls : pc'[d] = "idle"
    BY <2>1 DEF saveUnlocked, Exits, TInv, TrustTypeOK, Alone
  <2>3. FileIsLedger'
    BY <1>3, <2>1 DEF FileIsLedger, Loadable
  <2> QED BY <2>2, <2>3 DEF Alone, CtlHasLedger
<1> QED BY <1>4, <1>5, <1>6 DEF TInv

LEMMA DiesStep ==
  ASSUME TInv, NEW c \in Ctls, DiesWriting(c)
  PROVE  TInv'
<1>1. TrustTypeOK'
  BY DEF TInv, TrustTypeOK, DiesWriting, Exits, daemonVars
<1>2. AddedOnly'
  BY DEF TInv, TrustTypeOK, AddedOnly, DiesWriting, Exits, daemonVars, NoCommand
<1>3. Serial'
  BY DEF TInv, TrustTypeOK, Serial, Alone, FileIsLedger, CtlHasLedger, Loadable,
         DiesWriting, Exits, daemonVars
<1> QED BY <1>1, <1>2, <1>3 DEF TInv

-----------------------------------------------------------------------------
(* The daemon *)

\* It changes only its own variables, and trusts what it loaded.
LEMMA DaemonStep ==
  ASSUME TInv, Daemon
  PROVE  TInv'
<1>1. file.peers \in SUBSET Peers
  BY FileFacts DEF TInv, TrustTypeOK, Files
<1>2. /\ UNCHANGED <<file, ctlVars, ledger, added, interrupted, overlapped>>
      /\ up' \in BOOLEAN
      /\ trusted' \in {trusted, file.peers, {}}
      /\ conns' \subseteq conns \cup trusted
  BY DEF Daemon, DaemonLoad, DaemonEnds, Connect, Disconnect, IsTrusted, TInv,
         TrustTypeOK
<1>3. TrustTypeOK'
  BY <1>1, <1>2 DEF TInv, TrustTypeOK, ctlVars
<1>4. AddedOnly'
  BY <1>2 DEF TInv, AddedOnly, ctlVars
<1>5. Serial'
  BY <1>2 DEF TInv, Serial, Alone, FileIsLedger, CtlHasLedger, Loadable, ctlVars
<1> QED BY <1>3, <1>4, <1>5 DEF TInv

LEMMA TStep == TInv /\ [Next]_vars => TInv'
<1> SUFFICES ASSUME TInv, [Next]_vars PROVE TInv'
  OBVIOUS
<1>1. CASE Daemon
  BY <1>1, DaemonStep
<1>2. ASSUME NEW c \in Ctls, Peerctl(c) PROVE TInv'
  <2>1. ASSUME NEW command \in Commands, Begin(c, command) PROVE TInv'
    BY <2>1, BeginStep
  <2>2. CASE LoadFails(c) \/ NotListed(c) \/ GivesUp(c)
    BY <2>2, ExitsStep DEF LoadFails, NotListed, GivesUp
  <2>3. CASE Load(c) \/ Edit(c) \/ saveUnlocked(c) \/ DiesWriting(c)
    BY <2>3, LoadStep, EditStep, SaveStep, DiesStep
  <2> QED BY <1>2, <2>1, <2>2, <2>3 DEF Peerctl
<1>3. CASE UNCHANGED vars
  BY <1>3 DEF vars, ctlVars, daemonVars, TInv, TrustTypeOK, AddedOnly, Serial,
         Alone, FileIsLedger, CtlHasLedger, Loadable
<1> QED BY <1>1, <1>2, <1>3 DEF Next

LEMMA TInvariance == Spec => []TInv
  BY TInit, TStep, PTL DEF Spec

-----------------------------------------------------------------------------
(* The theorems *)

\* Every reachable state of the trust list and its users is type-correct.
THEOREM TrustTypeCorrect == Spec => []TrustTypeOK
  BY TInvariance, PTL DEF TInv

\* For any number of peerctl processes, killed and interleaved in any way,
\* Add is the only way into the file, the daemon's list and its connections.
THEOREM TrustOnlyAdded == Spec => []OnlyAdded
<1>1. TInv => OnlyAdded
  BY DEF TInv, AddedOnly, OnlyAdded
<1> QED BY <1>1, TInvariance, PTL

\* Edits made one after the other are never lost or half kept, wherever
\* saveUnlocked was cut off.
THEOREM SerialEditsKept == Spec => []LedgerKept
<1>1. TInv => LedgerKept
  BY DEF TInv, Serial, FileIsLedger, LedgerKept
<1> QED BY <1>1, TInvariance, PTL

\* A daemon that starts after serial edits trusts nobody who was removed.
THEOREM RestartRevokes == Spec => SerialRestartRevokes
<1>1. TInv /\ [Next]_vars
        => [~overlapped /\ ~up /\ up' => trusted' \subseteq ledger]_vars
  <2> SUFFICES ASSUME TInv, Next, ~overlapped, ~up, up'
               PROVE  trusted' \subseteq ledger
    OBVIOUS
  <2>1. file \in Files /\ FileIsLedger
    BY DEF TInv, TrustTypeOK, Files, Serial
  <2>2. DaemonLoad
    BY DEF Next, Daemon, DaemonEnds, Connect, Disconnect, Peerctl, Begin, Load,
           LoadFails, NotListed, Edit, saveUnlocked, GivesUp, DiesWriting,
           daemonVars
  <2> QED BY <2>1, <2>2, FileFacts DEF DaemonLoad, FileIsLedger, Loadable
<1> QED BY <1>1, TInvariance, PTL DEF Spec, SerialRestartRevokes
=============================================================================
