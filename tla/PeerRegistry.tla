---------------------------- MODULE PeerRegistry ----------------------------
(***************************************************************************)
(* The peers a data directory hosts (internal/peer/registry.go), the       *)
(* commands that change them (internal/cli/peers.go, init.go), the router  *)
(* entries that follow (AddPeerToRuntime) and the identity backup          *)
(* (internal/cli/backup.go).                                               *)
(*                                                                         *)
(* A process reads peers.json once, in Setup, into two maps that share     *)
(* their records: by name and by DID.  Every change rewrites the file from *)
(* memory.  The backup commands copy the file as it is, to a temporary     *)
(* file of their own that is renamed into place.                           *)
(*                                                                         *)
(* A DID is named by the order in which it was made; keys, descriptions    *)
(* and the values of the settings are left out.  The write of peers.json   *)
(* is one step: TokenStore has the temporary file of the same idiom.       *)
(***************************************************************************)
EXTENDS Naturals

CONSTANTS
    Procs,      \* processes over the data directory
    Names,      \* peer names
    MaxPeers,   \* bound: how many key pairs are made
    CanFail,    \* whether writing a file or wiring a peer may fail
    None,       \* no such peer; no name
    Absent      \* no such file

ASSUME PeersAssumption == MaxPeers \in Nat
ASSUME CanFailAssumption == CanFail \in BOOLEAN

DIDs == 1 .. MaxPeers

ASSUME NoneAssumption == None \notin Names /\ None \notin DIDs

\* A list of peers: the name of each DID in it.
Listing == [DIDs -> Names \cup {None}]

ASSUME AbsentAssumption == Absent \notin Listing

VARIABLES
    file,       \* peers.json
    backup,     \* the exported copy
    up,         \* up[p]: process p has been set up
    byName,     \* byName[p]: its index by name
    byDID,      \* byDID[p]: its index by DID, with the name in the record
    routed,     \* routed[p]: the DIDs its router has a handler for
    job,        \* what p is in the middle of
    arg,        \* the DID, name or (for a copy) --force it is about
    held,       \* the bytes a copy has read
    next,       \* the next key pair
    acked       \* the name each peer has, as last reported to the user

memory == <<up, byName, byDID, routed>>
vars == <<file, backup, up, byName, byDID, routed, job, arg, held, next, acked>>

Jobs == {"none", "add", "wire", "rename", "settings",
         "export", "export.move", "import", "import.move"}

TypeOK ==
    /\ file \in {Absent} \cup Listing
    /\ backup \in {Absent} \cup Listing
    /\ up \in [Procs -> BOOLEAN]
    /\ byName \in [Procs -> [Names -> DIDs \cup {None}]]
    /\ byDID \in [Procs -> Listing]
    /\ routed \in [Procs -> SUBSET DIDs]
    /\ job \in [Procs -> Jobs]
    /\ arg \in [Procs -> [did: DIDs \cup {None}, name: Names \cup {None}, force: BOOLEAN]]
    /\ held \in [Procs -> {Absent} \cup Listing]
    /\ next \in 1 .. MaxPeers + 1
    /\ acked \in Listing

Nobody == [d \in DIDs |-> None]
NoNames == [n \in Names |-> None]
NoArg == [did |-> None, name |-> None, force |-> FALSE]

\* A new data directory, and perhaps the backup of another machine.
Init ==
    /\ file = Absent
    /\ \/ backup = Absent /\ next = 1
       \/ /\ 1 \in DIDs /\ next = 2
          /\ \E n \in Names : backup = [Nobody EXCEPT ![1] = n]
    /\ up = [p \in Procs |-> FALSE]
    /\ byName = [p \in Procs |-> NoNames]
    /\ byDID = [p \in Procs |-> Nobody]
    /\ routed = [p \in Procs |-> {}]
    /\ job = [p \in Procs |-> "none"]
    /\ arg = [p \in Procs |-> NoArg]
    /\ held = [p \in Procs |-> Absent]
    /\ acked = Nobody

-----------------------------------------------------------------------------
\* Open: a missing file is an empty registry.
Loaded == IF file = Absent THEN Nobody ELSE file

\* Mutant: the handlers are left for later.
SetupUnrouted(p) ==
    /\ ~up[p] /\ job[p] = "none"
    /\ up' = [up EXCEPT ![p] = TRUE]
    /\ byDID' = [byDID EXCEPT ![p] = Loaded]
    /\ byName' = [byName EXCEPT ![p] =
            [n \in Names |-> IF \E d \in DIDs : Loaded[d] = n
                             THEN CHOOSE d \in DIDs : Loaded[d] = n ELSE None]]
    /\ UNCHANGED <<file, backup, routed, job, arg, held, next, acked>>

\* Setup: load both indexes and register a handler for every peer listed.
Setup(p) ==
    /\ ~up[p] /\ job[p] = "none"
    /\ up' = [up EXCEPT ![p] = TRUE]
    /\ byDID' = [byDID EXCEPT ![p] = Loaded]
    /\ byName' = [byName EXCEPT ![p] =
            [n \in Names |-> IF \E d \in DIDs : Loaded[d] = n
                             THEN CHOOSE d \in DIDs : Loaded[d] = n ELSE None]]
    /\ routed' = [routed EXCEPT ![p] = {d \in DIDs : Loaded[d] # None}]
    /\ UNCHANGED <<file, backup, job, arg, held, next, acked>>

Ready(p) == up[p] /\ job[p] = "none"

Begin(p, kind, d, n) ==
    /\ job' = [job EXCEPT ![p] = kind]
    /\ arg' = [arg EXCEPT ![p] = [did |-> d, name |-> n, force |-> FALSE]]

\* NewPeer and Registry.Add: a taken name is an error before anything changes.
Add(p, n) ==
    /\ Ready(p)
    /\ next <= MaxPeers
    /\ byName[p][n] = None
    /\ byName' = [byName EXCEPT ![p][n] = next]
    /\ byDID' = [byDID EXCEPT ![p][next] = n]
    /\ next' = next + 1
    /\ Begin(p, "add", next, n)
    /\ UNCHANGED <<file, backup, up, routed, held, acked>>

\* Mutant: the old name is left in the index.
RenameKeepsOld(p, old, new) ==
    /\ Ready(p)
    /\ byName[p][old] # None /\ byName[p][new] = None
    /\ byName' = [byName EXCEPT ![p][new] = byName[p][old]]
    /\ byDID' = [byDID EXCEPT ![p][byName[p][old]] = new]
    /\ Begin(p, "rename", byName[p][old], new)
    /\ UNCHANGED <<file, backup, up, routed, held, next, acked>>

\* Registry.Rename: the record is shared, so both indexes see the new name.
Rename(p, old, new) ==
    /\ Ready(p)
    /\ byName[p][old] # None /\ byName[p][new] = None
    /\ byName' = [byName EXCEPT ![p][old] = None, ![p][new] = byName[p][old]]
    /\ byDID' = [byDID EXCEPT ![p][byName[p][old]] = new]
    /\ Begin(p, "rename", byName[p][old], new)
    /\ UNCHANGED <<file, backup, up, routed, held, next, acked>>

\* Registry.UpdateSettings: no index changes, but the file is rewritten.
UpdateSettings(p, n) ==
    /\ Ready(p)
    /\ byName[p][n] # None
    /\ Begin(p, "settings", byName[p][n], n)
    /\ UNCHANGED <<file, backup, memory, held, next, acked>>

\* Mutant: what is written is the index by DID as it was loaded.
WrittenStale(p) == Loaded

\* The records flushLocked writes: those the index by name holds.
Written(p) ==
    [d \in DIDs |-> IF \E n \in Names : byName[p][n] = d THEN byDID[p][d] ELSE None]

\* flushLocked succeeds.  Add goes on to AddPeerToRuntime; the others are done.
Flush(p) ==
    /\ job[p] \in {"add", "rename", "settings"}
    /\ file' = Written(p)
    /\ job' = [job EXCEPT ![p] = IF @ = "add" THEN "wire" ELSE "none"]
    /\ acked' = IF job[p] = "rename" THEN [acked EXCEPT ![arg[p].did] = arg[p].name]
                ELSE acked
    /\ UNCHANGED <<backup, memory, arg, held, next>>

\* AddPeerToRuntime stores the seed types and registers the handler.
Wire(p) ==
    /\ job[p] = "wire"
    /\ routed' = [routed EXCEPT ![p] = @ \cup {arg[p].did}]
    /\ job' = [job EXCEPT ![p] = "none"]
    /\ acked' = [acked EXCEPT ![arg[p].did] = arg[p].name]
    /\ UNCHANGED <<file, backup, up, byName, byDID, arg, held, next>>

-----------------------------------------------------------------------------
(***************************************************************************)
(* backup identity export and import: copyIdentityFile, without Setup.     *)
(***************************************************************************)
Source(kind) == IF kind = "export" THEN file ELSE backup
Destination(kind) == IF kind = "export" THEN backup ELSE file

\* Mutant: an existing destination is no obstacle.
CopyAnyway(p, kind, force) ==
    /\ ~up[p] /\ job[p] = "none"
    /\ Source(kind) # Absent
    /\ job' = [job EXCEPT ![p] = kind]
    /\ arg' = [arg EXCEPT ![p] = [NoArg EXCEPT !.force = force]]
    /\ UNCHANGED <<file, backup, memory, held, next, acked>>

\* The source must exist; ensureCanWriteDestination wants no destination, or
\* --force.
Copy(p, kind, force) ==
    /\ ~up[p] /\ job[p] = "none"
    /\ Source(kind) # Absent
    /\ Destination(kind) = Absent \/ force
    /\ job' = [job EXCEPT ![p] = kind]
    /\ arg' = [arg EXCEPT ![p] = [NoArg EXCEPT !.force = force]]
    /\ UNCHANGED <<file, backup, memory, held, next, acked>>

\* io.Copy to the temporary file, and Sync.
CopyRead(p) ==
    /\ job[p] \in {"export", "import"}
    /\ held' = [held EXCEPT ![p] = Source(job[p])]
    /\ job' = [job EXCEPT ![p] = IF @ = "export" THEN "export.move" ELSE "import.move"]
    /\ UNCHANGED <<file, backup, memory, arg, next, acked>>

\* os.Rename.  After an import the user goes by what the backup says; only with
\* --force does he give up the peers he had.
CopyMove(p) ==
    /\ \/ /\ job[p] = "export.move"
          /\ backup' = held[p]
          /\ UNCHANGED <<file, acked>>
       \/ /\ job[p] = "import.move"
          /\ file' = held[p]
          /\ acked' = [d \in DIDs |-> IF arg[p].force \/ held[p][d] # None
                                     THEN held[p][d] ELSE acked[d]]
          /\ UNCHANGED backup
    /\ held' = [held EXCEPT ![p] = Absent]
    /\ job' = [job EXCEPT ![p] = "none"]
    /\ UNCHANGED <<memory, arg, next>>

\* A step fails: an import, an export, an add or a rename ends the command with
\* the error; the error of UpdateSettings is ignored (init.go).
Fails(p) ==
    /\ CanFail
    /\ job[p] = "settings"
    /\ job' = [job EXCEPT ![p] = "none"]
    /\ UNCHANGED <<file, backup, memory, arg, held, next, acked>>

\* The process ends: done, failed or killed.
Exit(p) ==
    /\ up[p] \/ job[p] # "none"
    /\ job[p] = "none" \/ CanFail
    /\ up' = [up EXCEPT ![p] = FALSE]
    /\ byName' = [byName EXCEPT ![p] = NoNames]
    /\ byDID' = [byDID EXCEPT ![p] = Nobody]
    /\ routed' = [routed EXCEPT ![p] = {}]
    /\ job' = [job EXCEPT ![p] = "none"]
    /\ arg' = [arg EXCEPT ![p] = NoArg]
    /\ held' = [held EXCEPT ![p] = Absent]
    /\ UNCHANGED <<file, backup, next, acked>>

Next ==
    \E p \in Procs :
        \/ Setup(p)
        \/ \E n \in Names : Add(p, n) \/ UpdateSettings(p, n)
        \/ \E old, new \in Names : Rename(p, old, new)
        \/ Flush(p) \/ Wire(p)
        \/ \E kind \in {"export", "import"}, force \in BOOLEAN : Copy(p, kind, force)
        \/ CopyRead(p) \/ CopyMove(p)
        \/ Fails(p) \/ Exit(p)

Spec == Init /\ [][Next]_vars

-----------------------------------------------------------------------------
(***************************************************************************)
(* Properties.                                                             *)
(***************************************************************************)

\* The two maps of Registry describe the same peers: a name leads to the peer
\* of that name, and no peer is found under a name it no longer has.
IndexesAgree ==
    \A p \in Procs, n \in Names, d \in DIDs :
        byName[p][n] = d <=> byDID[p][d] = n

\* Whatever Resolve finds can be routed to: between commands, the router has a
\* handler for exactly the peers of the registry.
ResolvedRouted ==
    \A p \in Procs : Ready(p) =>
        routed[p] = {d \in DIDs : byDID[p][d] # None}

\* Both, and the types of the state: Registry's two maps and the router name the
\* same peers.
Consistent == TypeOK /\ IndexesAgree /\ ResolvedRouted

\* A peer, with the only copy of its keys, is never lost: peers.json holds every
\* peer the user was told of, under the name last reported for it, through
\* failed writes, kills and later commands, and through imports, which refuse "to
\* overwrite an existing local registry unless you pass --force" (backup.md).
PeersKept ==
    \A d \in DIDs : acked[d] # None => file # Absent /\ file[d] = acked[d]

=============================================================================
