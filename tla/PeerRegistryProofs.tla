------------------------- MODULE PeerRegistryProofs -------------------------
(***************************************************************************)
(* The registry's indexes agree and what Resolve finds is routed to, for   *)
(* any number of processes; where commands run one at a time, no peer the  *)
(* user was told of is lost.                                               *)
(***************************************************************************)
EXTENDS PeerRegistry, TLAPS

\* No two peers of a list have one name.
Injective(list) == \A d, e \in DIDs : list[d] # None /\ list[d] = list[e] => d = e

\* A list has no peer whose keys are still to be made.
Unused(list, n) == \A d \in DIDs : d >= n => list[d] = None

Sound(list, n) == Injective(list) /\ Unused(list, n)

ListingsOK ==
    /\ file # Absent => Sound(file, next)
    /\ backup # Absent => Sound(backup, next)
    /\ \A p \in Procs : held[p] # Absent => Sound(held[p], next)

MemoryOK == \A p \in Procs : Unused(byDID[p], next)

\* What holds of a process in the middle of a job.
JobsOK ==
    \A p \in Procs :
        /\ job[p] \in {"add", "wire", "rename", "settings"} => up[p]
        /\ job[p] \in {"export", "export.move", "import", "import.move"} => ~up[p]
        /\ job[p] \in {"add", "wire", "rename"} =>
              /\ arg[p].did \in DIDs
              /\ arg[p].name \in Names
              /\ byDID[p][arg[p].did] = arg[p].name
        /\ job[p] \in {"export", "export.move"} => file # Absent
        /\ job[p] \in {"import", "import.move"} => backup # Absent
        /\ job[p] \in {"export.move", "import.move"} => held[p] # Absent

RoutesOK ==
    \A p \in Procs :
        up[p] => \A d \in DIDs :
            d \in routed[p] <=> /\ byDID[p][d] # None
                                /\ ~(job[p] \in {"add", "wire"} /\ d = arg[p].did)

RegistryInv == TypeOK /\ IndexesAgree /\ ListingsOK /\ MemoryOK /\ JobsOK /\ RoutesOK

USE PeersAssumption, NoneAssumption, AbsentAssumption, CanFailAssumption

LEMMA InitInv == Init => RegistryInv
<1> SUFFICES ASSUME Init PROVE RegistryInv
    OBVIOUS
<1>1. Nobody \in Listing
    BY DEF Nobody, Listing
<1>2. /\ backup # Absent => backup \in Listing /\ Sound(backup, next)
      /\ next \in 1 .. MaxPeers + 1
    <2>1. CASE backup = Absent /\ next = 1
        BY <2>1 DEF DIDs
    <2>2. CASE /\ 1 \in DIDs /\ next = 2
               /\ \E n \in Names : backup = [Nobody EXCEPT ![1] = n]
        <3>1. PICK n \in Names : backup = [Nobody EXCEPT ![1] = n]
            BY <2>2
        <3>2. /\ backup \in Listing /\ backup[1] = n
              /\ \A d \in DIDs : d # 1 => backup[d] = None
            BY <2>2, <3>1, <1>1 DEF Listing, Nobody
        <3> QED
            BY <2>2, <3>2 DEF Sound, Injective, Unused, DIDs
    <2> QED
        BY <2>1, <2>2 DEF Init
<1>3. TypeOK
    BY <1>1, <1>2 DEF Init, TypeOK, Jobs, NoNames, NoArg, Nobody, DIDs
<1>4. IndexesAgree
    BY DEF Init, IndexesAgree, NoNames, Nobody
<1>5. ListingsOK /\ MemoryOK /\ JobsOK /\ RoutesOK
    BY <1>2 DEF Init, ListingsOK, MemoryOK, JobsOK, RoutesOK, Nobody, Unused
<1> QED
    BY <1>3, <1>4, <1>5 DEF RegistryInv

\* flushLocked writes what the index by DID has.
LEMMA WrittenIsMemory ==
    ASSUME RegistryInv, NEW p \in Procs
    PROVE  /\ Written(p) \in Listing
           /\ \A d \in DIDs : Written(p)[d] = byDID[p][d]
           /\ Sound(Written(p), next)
<1>1. \A d \in DIDs : Written(p)[d] = byDID[p][d]
    BY DEF RegistryInv, TypeOK, IndexesAgree, Written, Listing
<1>2. Written(p) \in Listing
    BY DEF RegistryInv, TypeOK, Written, Listing
<1>3. Injective(Written(p))
    BY <1>1 DEF RegistryInv, TypeOK, IndexesAgree, Injective, Listing
<1>4. Unused(Written(p), next)
    BY <1>1 DEF RegistryInv, MemoryOK, Unused
<1> QED
    BY <1>1, <1>2, <1>3, <1>4 DEF Sound

\* A list keeps sound when a key pair is made.
LEMMA SoundLater ==
    ASSUME NEW list, NEW n \in Nat, Sound(list, n) PROVE Sound(list, n + 1)
    BY DEF Sound, Unused, DIDs

\* What Setup loads is a sound list.
LEMMA LoadedSound ==
    ASSUME RegistryInv PROVE Loaded \in Listing /\ Sound(Loaded, next)
<1>1. Nobody \in Listing /\ Sound(Nobody, next)
    BY DEF Nobody, Listing, Sound, Injective, Unused
<1> QED
    BY <1>1 DEF RegistryInv, TypeOK, ListingsOK, Loaded

-----------------------------------------------------------------------------
LEMMA SetupInv == ASSUME RegistryInv, NEW p \in Procs, Setup(p) PROVE RegistryInv'
<1> DEFINE index == [n \in Names |-> IF \E d \in DIDs : Loaded[d] = n
                                     THEN CHOOSE d \in DIDs : Loaded[d] = n ELSE None]
<1> USE DEF RegistryInv
<1>1. Loaded \in Listing /\ Sound(Loaded, next)
    BY LoadedSound
<1>2. /\ index \in [Names -> DIDs \cup {None}]
      /\ \A n \in Names, d \in DIDs : index[n] = d <=> Loaded[d] = n
    BY <1>1 DEF Listing, Sound, Injective
<1> HIDE DEF index
<1>3. /\ byName' = [byName EXCEPT ![p] = index]
      /\ byDID' = [byDID EXCEPT ![p] = Loaded]
      /\ routed' = [routed EXCEPT ![p] = {d \in DIDs : Loaded[d] # None}]
      /\ up' = [up EXCEPT ![p] = TRUE]
      /\ job[p] = "none"
      /\ UNCHANGED <<file, backup, job, arg, held, next, acked>>
    BY DEF Setup, index
<1>4. TypeOK'
    BY <1>1, <1>2, <1>3 DEF TypeOK
<1>5. IndexesAgree'
    BY <1>2, <1>3 DEF IndexesAgree, TypeOK
<1>6. ListingsOK' /\ MemoryOK'
    BY <1>1, <1>3 DEF ListingsOK, MemoryOK, Sound, TypeOK
<1>7. JobsOK'
    BY <1>3 DEF JobsOK, TypeOK
<1>8. RoutesOK'
    BY <1>3 DEF RoutesOK, TypeOK
<1> QED
    BY <1>4, <1>5, <1>6, <1>7, <1>8

LEMMA AddInv ==
    ASSUME RegistryInv, NEW p \in Procs, NEW n \in Names, Add(p, n) PROVE RegistryInv'
<1> USE DEF RegistryInv
<1>1. next \in DIDs /\ byDID[p][next] = None /\ next' = next + 1
    BY DEF Add, DIDs, TypeOK, MemoryOK, Unused
<1>2. TypeOK'
    BY <1>1 DEF Add, Begin, TypeOK, Jobs, DIDs, Listing
<1>3. IndexesAgree'
    BY <1>1 DEF Add, IndexesAgree, TypeOK, Listing
<1>4. ListingsOK'
    BY <1>1, SoundLater DEF Add, ListingsOK, TypeOK, DIDs
<1>5. MemoryOK'
    BY <1>1 DEF Add, MemoryOK, Unused, TypeOK, DIDs, Listing
<1>6. JobsOK'
    BY <1>1 DEF Add, Begin, Ready, JobsOK, TypeOK, Listing
<1>7. RoutesOK'
    BY <1>1 DEF Add, Begin, Ready, RoutesOK, TypeOK, Listing
<1> QED
    BY <1>2, <1>3, <1>4, <1>5, <1>6, <1>7

LEMMA RenameInv ==
    ASSUME RegistryInv, NEW p \in Procs, NEW old \in Names, NEW new \in Names, Rename(p, old, new)
    PROVE RegistryInv'
<1> USE DEF RegistryInv
<1>1. PICK d \in DIDs : d = byName[p][old]
    BY DEF Rename, TypeOK
<1>2. byDID[p][d] = old /\ old # new
    BY <1>1 DEF Rename, IndexesAgree
<1>3. /\ byName' = [byName EXCEPT ![p] = [byName[p] EXCEPT ![old] = None, ![new] = d]]
      /\ byDID' = [byDID EXCEPT ![p] = [byDID[p] EXCEPT ![d] = new]]
      /\ byName[p][new] = None
      /\ up[p] /\ job[p] = "none"
      /\ job' = [job EXCEPT ![p] = "rename"]
      /\ arg' = [arg EXCEPT ![p] = [did |-> d, name |-> new, force |-> FALSE]]
      /\ UNCHANGED <<file, backup, up, routed, held, next, acked>>
    BY <1>1 DEF Rename, Begin, Ready, TypeOK
<1>4. TypeOK'
    BY <1>3 DEF TypeOK, Jobs, Listing
<1>5. IndexesAgree'
    BY <1>1, <1>2, <1>3 DEF IndexesAgree, TypeOK, Listing
<1>6. ListingsOK' /\ MemoryOK'
    BY <1>2, <1>3 DEF ListingsOK, MemoryOK, Unused, TypeOK, Listing
<1>7. JobsOK'
    BY <1>3 DEF JobsOK, TypeOK, Listing
<1>8. RoutesOK'
    BY <1>2, <1>3 DEF RoutesOK, TypeOK, Listing
<1> QED
    BY <1>4, <1>5, <1>6, <1>7, <1>8

LEMMA SettingsInv ==
    ASSUME RegistryInv, NEW p \in Procs, NEW n \in Names, UpdateSettings(p, n) PROVE RegistryInv'
<1> USE DEF RegistryInv, UpdateSettings, Ready, Begin, memory
<1>1. TypeOK'
    BY DEF TypeOK, Jobs
<1>2. IndexesAgree' /\ ListingsOK' /\ MemoryOK'
    BY DEF IndexesAgree, ListingsOK, MemoryOK
<1>3. JobsOK'
    BY DEF JobsOK, TypeOK
<1>4. RoutesOK'
    BY DEF RoutesOK, TypeOK
<1> QED
    BY <1>1, <1>2, <1>3, <1>4

LEMMA FlushInv == ASSUME RegistryInv, NEW p \in Procs, Flush(p) PROVE RegistryInv'
<1> USE DEF RegistryInv
<1>1. /\ file' \in Listing /\ file' # Absent /\ Sound(file', next)
    BY WrittenIsMemory DEF Flush
<1>2. TypeOK'
    BY <1>1 DEF Flush, memory, TypeOK, Jobs, JobsOK, Listing
<1>3. IndexesAgree' /\ MemoryOK'
    BY DEF Flush, memory, IndexesAgree, MemoryOK
<1>4. ListingsOK'
    BY <1>1 DEF Flush, ListingsOK
<1>5. JobsOK'
    BY <1>1 DEF Flush, memory, JobsOK, TypeOK
<1>6. RoutesOK'
    BY DEF Flush, memory, RoutesOK, TypeOK
<1> QED
    BY <1>2, <1>3, <1>4, <1>5, <1>6

LEMMA WireInv == ASSUME RegistryInv, NEW p \in Procs, Wire(p) PROVE RegistryInv'
<1> USE DEF RegistryInv
<1>1. TypeOK'
    BY DEF Wire, TypeOK, Jobs, JobsOK, Listing
<1>2. IndexesAgree' /\ ListingsOK' /\ MemoryOK'
    BY DEF Wire, IndexesAgree, ListingsOK, MemoryOK
<1>3. JobsOK'
    BY DEF Wire, JobsOK, TypeOK
<1>4. RoutesOK'
    BY DEF Wire, RoutesOK, JobsOK, TypeOK
<1> QED
    BY <1>1, <1>2, <1>3, <1>4

LEMMA CopyInv ==
    ASSUME RegistryInv, NEW p \in Procs, NEW kind \in {"export", "import"}, NEW force \in BOOLEAN,
           Copy(p, kind, force)
    PROVE RegistryInv'
<1> USE DEF RegistryInv, Copy, Source, NoArg, memory
<1>1. TypeOK'
    BY DEF TypeOK, Jobs
<1>2. IndexesAgree' /\ ListingsOK' /\ MemoryOK'
    BY DEF IndexesAgree, ListingsOK, MemoryOK
<1>3. JobsOK'
    BY DEF JobsOK, TypeOK
<1>4. RoutesOK'
    BY DEF RoutesOK, TypeOK
<1> QED
    BY <1>1, <1>2, <1>3, <1>4

LEMMA CopyReadInv == ASSUME RegistryInv, NEW p \in Procs, CopyRead(p) PROVE RegistryInv'
<1> USE DEF RegistryInv, CopyRead, Source, memory
<1>1. TypeOK'
    BY DEF TypeOK, Jobs
<1>2. IndexesAgree' /\ MemoryOK'
    BY DEF IndexesAgree, MemoryOK
<1>3. ListingsOK'
    BY DEF ListingsOK, TypeOK
<1>4. JobsOK'
    BY DEF JobsOK, TypeOK
<1>5. RoutesOK'
    BY DEF RoutesOK, JobsOK, TypeOK
<1> QED
    BY <1>1, <1>2, <1>3, <1>4, <1>5

LEMMA CopyMoveInv == ASSUME RegistryInv, NEW p \in Procs, CopyMove(p) PROVE RegistryInv'
<1> USE DEF RegistryInv
<1>1. held[p] # Absent /\ held[p] \in Listing /\ Sound(held[p], next)
    BY DEF CopyMove, JobsOK, ListingsOK, TypeOK
<1>2. acked' \in Listing
    BY <1>1 DEF CopyMove, TypeOK, Listing
<1>3. TypeOK'
    BY <1>1, <1>2 DEF CopyMove, memory, TypeOK, Jobs
<1>4. IndexesAgree' /\ MemoryOK'
    BY DEF CopyMove, memory, IndexesAgree, MemoryOK
<1>5. ListingsOK'
    BY <1>1 DEF CopyMove, ListingsOK, TypeOK
<1>6. JobsOK'
    BY <1>1 DEF CopyMove, memory, JobsOK, TypeOK
<1>7. RoutesOK'
    BY DEF CopyMove, memory, RoutesOK, JobsOK, TypeOK
<1> QED
    BY <1>3, <1>4, <1>5, <1>6, <1>7

LEMMA FailsInv == ASSUME RegistryInv, NEW p \in Procs, Fails(p) PROVE RegistryInv'
<1> USE DEF RegistryInv, Fails, memory
<1>1. TypeOK'
    BY DEF TypeOK, Jobs
<1>2. IndexesAgree' /\ ListingsOK' /\ MemoryOK'
    BY DEF IndexesAgree, ListingsOK, MemoryOK
<1>3. JobsOK'
    BY DEF JobsOK, TypeOK
<1>4. RoutesOK'
    BY DEF RoutesOK, TypeOK
<1> QED
    BY <1>1, <1>2, <1>3, <1>4

LEMMA ExitInv == ASSUME RegistryInv, NEW p \in Procs, Exit(p) PROVE RegistryInv'
<1> USE DEF RegistryInv
<1>1. TypeOK'
    BY DEF Exit, TypeOK, Jobs, NoNames, Nobody, NoArg, Listing
<1>2. IndexesAgree'
    BY DEF Exit, IndexesAgree, NoNames, Nobody, TypeOK
<1>3. ListingsOK' /\ MemoryOK'
    BY DEF Exit, ListingsOK, MemoryOK, Unused, Nobody, TypeOK
<1>4. JobsOK'
    BY DEF Exit, JobsOK, TypeOK
<1>5. RoutesOK'
    BY DEF Exit, RoutesOK, TypeOK
<1> QED
    BY <1>1, <1>2, <1>3, <1>4, <1>5

LEMMA StepInv == RegistryInv /\ [Next]_vars => RegistryInv'
<1> SUFFICES ASSUME RegistryInv, [Next]_vars PROVE RegistryInv'
    OBVIOUS
<1>1. CASE UNCHANGED vars
    BY <1>1 DEF vars, RegistryInv, TypeOK, IndexesAgree, ListingsOK, MemoryOK, JobsOK, RoutesOK
<1>2. CASE Next
    <2> PICK p \in Procs :
            \/ Setup(p)
            \/ \E n \in Names : Add(p, n) \/ UpdateSettings(p, n)
            \/ \E old, new \in Names : Rename(p, old, new)
            \/ Flush(p) \/ Wire(p)
            \/ \E kind \in {"export", "import"}, force \in BOOLEAN : Copy(p, kind, force)
            \/ CopyRead(p) \/ CopyMove(p)
            \/ Fails(p) \/ Exit(p)
        BY <1>2 DEF Next
    <2> QED
        BY SetupInv, AddInv, SettingsInv, RenameInv, FlushInv, WireInv, CopyInv, CopyReadInv,
           CopyMoveInv, FailsInv, ExitInv
<1> QED
    BY <1>1, <1>2

LEMMA InvAlways == Spec => []RegistryInv
    BY InitInv, StepInv, PTL DEF Spec

\* Between commands the two maps of Registry and the router name the same peers,
\* for any number of processes, names and peers, and whatever step of Add, Rename,
\* Setup or an import fails or is the last (registry.go, runtime.go).
THEOREM Consistency == Spec => []Consistent
<1>1. RegistryInv => Consistent
    BY DEF RegistryInv, Consistent, ResolvedRouted, RoutesOK, Ready, TypeOK
<1> QED
    BY <1>1, InvAlways, PTL

-----------------------------------------------------------------------------
(***************************************************************************)
(* Commands one after the other.                                           *)
(***************************************************************************)
OneAtATime == \A p, q \in Procs : p = q

\* What the user was told of is in the process's memory, but for the peer a rename
\* is about; a peer about to be wired is in the file; an import without --force
\* found no file.
CommandOK(p) ==
    /\ up[p] => \A d \in DIDs :
          acked[d] # None => \/ byDID[p][d] = acked[d]
                             \/ job[p] = "rename" /\ d = arg[p].did
    /\ job[p] = "wire" => file # Absent /\ file[arg[p].did] = arg[p].name
    /\ job[p] \in {"import", "import.move"} /\ ~arg[p].force => file = Absent

KeptInv == RegistryInv /\ PeersKept /\ \A p \in Procs : CommandOK(p)

LEMMA KeptInit == Init => KeptInv
<1> SUFFICES ASSUME Init PROVE KeptInv
    OBVIOUS
<1>1. PeersKept
    BY DEF Init, PeersKept, Nobody
<1>2. \A p \in Procs : CommandOK(p)
    BY DEF Init, CommandOK
<1> QED
    BY <1>1, <1>2, InitInv DEF KeptInv

LEMMA KeptStep ==
    ASSUME OneAtATime, KeptInv, NEW p \in Procs, RegistryInv',
           PeersKept', CommandOK(p)'
    PROVE  KeptInv'
    BY DEF KeptInv, OneAtATime

LEMMA KeptSetup ==
    ASSUME KeptInv, NEW p \in Procs, Setup(p) PROVE PeersKept' /\ CommandOK(p)'
    BY DEF KeptInv, RegistryInv, TypeOK, PeersKept, CommandOK, Setup, Loaded

LEMMA KeptAdd ==
    ASSUME KeptInv, NEW p \in Procs, NEW n \in Names, Add(p, n)
    PROVE  PeersKept' /\ CommandOK(p)'
<1>1. byDID[p][next] = None /\ next \in DIDs
    BY DEF KeptInv, RegistryInv, TypeOK, MemoryOK, Unused, Add, DIDs
<1>2. PeersKept'
    BY DEF Add, KeptInv, PeersKept
<1>3. CommandOK(p)'
    BY <1>1 DEF KeptInv, RegistryInv, TypeOK, Listing, CommandOK, Add, Begin, Ready
<1> QED
    BY <1>2, <1>3

LEMMA KeptRename ==
    ASSUME KeptInv, NEW p \in Procs, NEW old \in Names, NEW new \in Names, Rename(p, old, new)
    PROVE  PeersKept' /\ CommandOK(p)'
<1>1. PICK d \in DIDs : d = byName[p][old]
    BY DEF KeptInv, RegistryInv, TypeOK, Rename
<1>2. /\ byDID' = [byDID EXCEPT ![p] = [byDID[p] EXCEPT ![d] = new]]
      /\ job' = [job EXCEPT ![p] = "rename"]
      /\ arg' = [arg EXCEPT ![p] = [did |-> d, name |-> new, force |-> FALSE]]
      /\ up[p] /\ job[p] = "none"
      /\ UNCHANGED <<file, up, acked>>
    BY <1>1 DEF KeptInv, RegistryInv, TypeOK, Rename, Begin, Ready
<1>3. PeersKept'
    BY <1>2 DEF KeptInv, PeersKept
<1>4. CommandOK(p)'
    BY <1>2 DEF KeptInv, RegistryInv, TypeOK, Listing, CommandOK
<1> QED
    BY <1>3, <1>4

LEMMA KeptSettings ==
    ASSUME KeptInv, NEW p \in Procs, NEW n \in Names, UpdateSettings(p, n)
    PROVE  PeersKept' /\ CommandOK(p)'
    BY DEF KeptInv, RegistryInv, TypeOK, PeersKept, CommandOK, UpdateSettings, Begin, Ready, memory

LEMMA KeptFlush ==
    ASSUME KeptInv, NEW p \in Procs, Flush(p) PROVE PeersKept' /\ CommandOK(p)'
<1> USE DEF KeptInv, RegistryInv, TypeOK
<1>1. /\ file' \in Listing /\ file' # Absent
      /\ \A d \in DIDs : file'[d] = byDID[p][d]
    BY WrittenIsMemory DEF Flush
<1>2. \A d \in DIDs : acked'[d] # None => byDID[p][d] = acked'[d]
    <2>1. up[p]
        BY DEF Flush, JobsOK
    <2>2. CASE job[p] = "rename"
        <3>1. /\ arg[p].did \in DIDs /\ byDID[p][arg[p].did] = arg[p].name
              /\ acked' = [acked EXCEPT ![arg[p].did] = arg[p].name]
            BY <2>2 DEF JobsOK, Flush
        <3> QED
            BY <2>1, <2>2, <3>1 DEF CommandOK, Listing
    <2>3. CASE job[p] # "rename"
        BY <2>1, <2>3 DEF CommandOK, Flush
    <2> QED
        BY <2>2, <2>3
<1>3. PeersKept'
    BY <1>1, <1>2 DEF PeersKept
<1>4. CommandOK(p)'
    BY <1>1, <1>2 DEF CommandOK, Flush, JobsOK, memory
<1> QED
    BY <1>3, <1>4

LEMMA KeptWire ==
    ASSUME KeptInv, NEW p \in Procs, Wire(p) PROVE PeersKept' /\ CommandOK(p)'
<1> USE DEF KeptInv, RegistryInv, TypeOK
<1>1. /\ file # Absent /\ file[arg[p].did] = arg[p].name
      /\ byDID[p][arg[p].did] = arg[p].name /\ arg[p].did \in DIDs
    BY DEF Wire, CommandOK, JobsOK
<1>2. PeersKept'
    BY <1>1 DEF Wire, PeersKept, Listing
<1>3. CommandOK(p)'
    BY <1>1 DEF Wire, CommandOK, Listing
<1> QED
    BY <1>2, <1>3

LEMMA KeptCopy ==
    ASSUME KeptInv, NEW p \in Procs, NEW kind \in {"export", "import"}, NEW force \in BOOLEAN,
           Copy(p, kind, force)
    PROVE  PeersKept' /\ CommandOK(p)'
    BY DEF KeptInv, RegistryInv, TypeOK, PeersKept, CommandOK, Copy, Destination, NoArg, memory

LEMMA KeptCopyRead ==
    ASSUME KeptInv, NEW p \in Procs, CopyRead(p) PROVE PeersKept' /\ CommandOK(p)'
    BY DEF KeptInv, RegistryInv, TypeOK, PeersKept, CommandOK, JobsOK, CopyRead, memory

LEMMA KeptCopyMove ==
    ASSUME KeptInv, NEW p \in Procs, CopyMove(p) PROVE PeersKept' /\ CommandOK(p)'
<1> USE DEF KeptInv, RegistryInv, TypeOK
<1>1. held[p] # Absent /\ held[p] \in Listing
    BY DEF CopyMove, JobsOK
<1>2. PeersKept'
    <2>1. CASE job[p] = "export.move"
        BY <2>1 DEF CopyMove, PeersKept
    <2>2. CASE job[p] = "import.move"
        <3>1. ~arg[p].force => \A d \in DIDs : acked[d] = None
            BY <2>2 DEF CommandOK, PeersKept
        <3> QED
            BY <1>1, <2>2, <3>1 DEF CopyMove, PeersKept, Listing
    <2> QED
        BY <2>1, <2>2 DEF CopyMove
<1>3. CommandOK(p)'
    BY DEF CopyMove, CommandOK, JobsOK, memory
<1> QED
    BY <1>2, <1>3

LEMMA KeptFails ==
    ASSUME KeptInv, NEW p \in Procs, Fails(p) PROVE PeersKept' /\ CommandOK(p)'
    BY DEF KeptInv, RegistryInv, TypeOK, PeersKept, CommandOK, Fails, memory

LEMMA KeptExit ==
    ASSUME KeptInv, NEW p \in Procs, Exit(p) PROVE PeersKept' /\ CommandOK(p)'
    BY DEF KeptInv, RegistryInv, TypeOK, PeersKept, CommandOK, Exit

LEMMA KeptNext == ASSUME OneAtATime PROVE KeptInv /\ [Next]_vars => KeptInv'
<1> SUFFICES ASSUME KeptInv, [Next]_vars PROVE KeptInv'
    OBVIOUS
<1>1. RegistryInv'
    BY StepInv DEF KeptInv
<1>2. CASE UNCHANGED vars
    BY <1>1, <1>2 DEF vars, KeptInv, PeersKept, CommandOK
<1>3. CASE Next
    <2> PICK p \in Procs :
            \/ Setup(p)
            \/ \E n \in Names : Add(p, n) \/ UpdateSettings(p, n)
            \/ \E old, new \in Names : Rename(p, old, new)
            \/ Flush(p) \/ Wire(p)
            \/ \E kind \in {"export", "import"}, force \in BOOLEAN : Copy(p, kind, force)
            \/ CopyRead(p) \/ CopyMove(p)
            \/ Fails(p) \/ Exit(p)
        BY <1>3 DEF Next
    <2>1. PeersKept' /\ CommandOK(p)'
        BY KeptSetup, KeptAdd, KeptSettings, KeptRename, KeptFlush, KeptWire, KeptCopy,
           KeptCopyRead, KeptCopyMove, KeptFails, KeptExit
    <2> QED
        BY <1>1, <2>1, KeptStep
<1> QED
    BY <1>2, <1>3

\* When commands run one after the other, no kill, failed write or import without
\* --force loses a peer the user was told of (registry.go, backup.go).
THEOREM NoneForgotten == ASSUME OneAtATime PROVE Spec => []PeersKept
<1>1. KeptInv /\ [Next]_vars => KeptInv'
    BY KeptNext
<1>2. KeptInv => PeersKept
    BY DEF KeptInv
<1> QED
    BY <1>1, <1>2, KeptInit, PTL DEF Spec

=============================================================================
