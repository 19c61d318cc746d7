------------------------- MODULE TypeResolverProofs -------------------------
(***************************************************************************)
(* User-defined types are logged before they are stored, and no entity     *)
(* outlives its type, for any number of processes and handlers; with one   *)
(* process, what was acknowledged once is what every restart resolves.     *)
(***************************************************************************)
EXTENDS TypeResolver, FiniteSetTheorems, TLAPS

\* A name is built in, stored, on its way to the store, or given up with an error.
Accounted(n) ==
    \/ n \in Seeds
    \/ \E r \in rows : r.name = n
    \/ \E h \in Handlers : pc[h] \in {"append", "upsert"} /\ hold[h].name = n
    \/ n \in failed

HandlersOK ==
    \A h \in Handlers :
        /\ pc[h] = "idle" => hold[h] = NoHold
        /\ pc[h] # "idle" => up[ProcOf[h]] /\ hold[h].def # Undefined
        /\ pc[h] = "upsert" => hold[h] \in log
        /\ hold[h].def # SeedDef

StoredOK ==
    /\ IsFiniteSet(rows)
    /\ rows \subseteq log
    /\ clock >= SeedDef
    /\ \A r \in log : r.def # Undefined /\ (r.def = SeedDef => r.name \in Seeds)
    /\ \A n \in Names : acked[n] # Undefined => \E r \in rows : r.name = n /\ r.def = acked[n]

ResolvedOK ==
    /\ \A p \in Procs, n \in Names : resolver[p][n] # Undefined => Accounted(n)
    /\ \A n \in used : Accounted(n)

TypesInv == TypeOK /\ HandlersOK /\ StoredOK /\ ResolvedOK

\* Every attempt at n, logged or under way, makes the same definition.
Made == log \cup {hold[h] : h \in Handlers}
Single(n) ==
    \A q, r \in Made : /\ q.name = n /\ q.def # Undefined
                       /\ r.name = n /\ r.def # Undefined
                       => q.def = r.def

\* The definitions stored, and those registered that are about to be.
Current == rows \cup {hold[h] : h \in {g \in Handlers : pc[g] \in {"append", "upsert"}}}

VisibleOK ==
    \A p \in Procs :
        up[p] /\ whole[p] /\ Cardinality(rows) <= Limit =>
            \A r \in Current : r.name \notin failed /\ Single(r.name)
                                   => resolver[p][r.name] = r.def

\* What a name resolves to is a seed or a definition that was made, unless failed.
SourcedOK ==
    \A p \in Procs, n \in Names :
        up[p] => /\ n \in Seeds => resolver[p][n] # Undefined
                 /\ \/ resolver[p][n] \in {Undefined, SeedDef}
                    \/ \E r \in Made : r.name = n /\ r.def = resolver[p][n]
                    \/ n \in failed

VisibleInv == TypesInv /\ SourcedOK /\ VisibleOK

USE ProcOfAssumption, SeedsAssumption, LimitAssumption, DefsAssumption

LEMMA NoHoldType == NoHold \in Row /\ NoHold.def = Undefined
    BY DEF NoHold, Row, Defs, Undefined

\* A set of naturals that is not empty has a least element.
LEMMA LeastExists ==
    ASSUME NEW S \in SUBSET Nat, S # {} PROVE \E x \in S : \A y \in S : x <= y
<1> DEFINE less == OpToRel(<, Nat)
<1>1. IsWellFoundedOn(less, Nat)
    BY NatLessThanWellFounded
<1>2. PICK x \in S : \A y \in S : <<y, x>> \notin less
    <2> HIDE DEF less
    <2> QED
        BY <1>1, WFMin
<1>3. \A y \in S : ~(y < x)
    BY <1>2 DEF OpToRel
<1> QED
    BY <1>3

LEMMA MinOf ==
    ASSUME NEW S \in SUBSET Nat, S # {} PROVE Min(S) \in S
<1>1. \E x \in S : \A y \in S : x <= y
    BY LeastExists
<1> QED
    BY <1>1, Zenon DEF Min

\* What Setup registers for a name is the definition of one of its rows, or a seed.
LEMMA RehydratedRow ==
    ASSUME TypeOK, NEW n \in Names
    PROVE  \/ \E r \in Newest : r.name = n /\ Rehydrated[n] = r.def
           \/ Rehydrated[n] = SeedsOnly[n] /\ \A r \in Newest : r.name # n
<1> DEFINE mine == {r \in Newest : r.name = n}
<1>1. mine \subseteq Row
    BY DEF TypeOK, Newest
<1>2. CASE mine = {}
    BY <1>2 DEF Rehydrated
<1>3. CASE mine # {}
    <2> DEFINE dates == {r.at : r \in mine}
    <2>1. dates \in SUBSET Nat /\ dates # {}
        BY <1>1, <1>3 DEF Row, Defs
    <2>2. Min(dates) \in dates
        BY <2>1, MinOf
    <2>3. \E r \in mine : r.at = Min(dates)
        BY <2>2
    <2>4. (CHOOSE r \in mine : r.at = Min(dates)) \in mine
        BY <2>3
    <2>5. Rehydrated[n] = (CHOOSE r \in mine : r.at = Min(dates)).def
        BY <1>3 DEF Rehydrated
    <2> HIDE DEF dates
    <2> QED
        BY <2>4, <2>5
<1> QED
    BY <1>2, <1>3

LEMMA RehydratedType == ASSUME TypeOK PROVE Rehydrated \in [Names -> Defs]
<1>1. ASSUME NEW n \in Names PROVE Rehydrated[n] \in Defs
    <2>1. SeedsOnly[n] \in Defs
        BY DEF SeedsOnly, Defs, SeedDef, Undefined
    <2>2. \A r \in Newest : r.def \in Defs
        BY DEF TypeOK, Newest, Row
    <2> QED
        BY <2>1, <2>2, RehydratedRow
<1>2. Rehydrated = [n \in Names |-> Rehydrated[n]]
    BY DEF Rehydrated
<1> QED
    BY <1>1, <1>2

LEMMA TypesInit == Init => TypesInv
<1> SUFFICES ASSUME Init PROVE TypesInv
    OBVIOUS
<1>1. TypeOK
    BY NoHoldType DEF Init, TypeOK, Nothing, Defs, SeedDef, Undefined
<1>2. HandlersOK
    BY NoHoldType DEF Init, HandlersOK, SeedDef, Undefined
<1>3. StoredOK
    BY FS_EmptySet DEF Init, StoredOK, Nothing, SeedDef
<1>4. ResolvedOK
    BY DEF Init, ResolvedOK, Nothing
<1> QED
    BY <1>1, <1>2, <1>3, <1>4 DEF TypesInv

LEMMA LogSeedTypes == ASSUME TypesInv, NEW n \in Seeds, LogSeed(n) PROVE TypesInv'
<1> USE DEF TypesInv
<1>1. /\ clock + 1 \in Defs /\ clock' >= SeedDef /\ n \in Names
      /\ SeedDef \in Defs /\ SeedDef # Undefined
    BY DEF LogSeed, TypeOK, StoredOK, Defs, SeedDef, Undefined
<1>2. log' = log \cup {[name |-> n, def |-> SeedDef, at |-> clock + 1]}
    BY DEF LogSeed
<1>3. TypeOK'
    BY <1>1, <1>2 DEF LogSeed, TypeOK, Row
<1>4. HandlersOK'
    BY <1>2 DEF LogSeed, HandlersOK
<1>5. StoredOK'
    BY <1>1, <1>2 DEF LogSeed, StoredOK
<1>6. ResolvedOK'
    BY DEF LogSeed, ResolvedOK, Accounted
<1> QED
    BY <1>3, <1>4, <1>5, <1>6

LEMMA StoreSeedTypes == ASSUME TypesInv, NEW r \in log, StoreSeed(r) PROVE TypesInv'
<1> USE DEF TypesInv
<1>1. TypeOK'
    BY DEF StoreSeed, TypeOK
<1>2. HandlersOK'
    BY DEF StoreSeed, HandlersOK
<1>3. StoredOK'
    <2>1. IsFiniteSet(rows')
        BY FS_AddElement DEF StoreSeed, StoredOK
    <2> QED
        BY <2>1 DEF StoreSeed, StoredOK
<1>4. ResolvedOK'
    BY DEF StoreSeed, ResolvedOK, Accounted
<1> QED
    BY <1>1, <1>2, <1>3, <1>4

LEMMA SetupTypes == ASSUME TypesInv, NEW p \in Procs, Setup(p) PROVE TypesInv'
<1> USE DEF TypesInv
<1>1. PICK found \in {Rehydrated, SeedsOnly} : resolver' = [resolver EXCEPT ![p] = found]
    BY DEF Setup
<1>2. found \in [Names -> Defs]
    BY <1>1, RehydratedType DEF SeedsOnly, Defs, SeedDef, Undefined
<1>3. TypeOK'
    BY <1>1, <1>2 DEF Setup, TypeOK
<1>4. HandlersOK'
    BY DEF Setup, HandlersOK, TypeOK
<1>5. StoredOK'
    BY DEF Setup, StoredOK
<1>6. \A n \in Names : found[n] # Undefined => n \in Seeds \/ \E r \in rows : r.name = n
    <2>1. \A n \in Names : SeedsOnly[n] # Undefined => n \in Seeds
        BY DEF SeedsOnly
    <2>2. Newest \subseteq rows
        BY DEF Newest
    <2> QED
        BY <1>1, <2>1, <2>2, RehydratedRow
<1>7. ResolvedOK'
    <2>1. \A n \in Names : Accounted(n) => Accounted(n)'
        BY DEF Setup, Accounted
    <2>2. \A n \in Names : found[n] # Undefined => Accounted(n)'
        BY <1>6 DEF Setup, Accounted
    <2>3. used' = used /\ used \subseteq Names
        BY DEF Setup, TypeOK
    <2> QED
        BY <1>1, <2>1, <2>2, <2>3 DEF ResolvedOK, TypeOK
<1> QED
    BY <1>3, <1>4, <1>5, <1>7

LEMMA DefineTypes ==
    ASSUME TypesInv, NEW h \in Handlers, NEW n \in Names, Define(h, n) PROVE TypesInv'
<1> USE DEF TypesInv
<1>1. /\ clock + 1 \in Defs /\ clock + 1 # Undefined /\ clock + 1 # SeedDef
      /\ clock' >= SeedDef
      /\ hold' = [hold EXCEPT ![h] = [name |-> n, def |-> clock + 1, at |-> clock + 1]]
      /\ pc' = [pc EXCEPT ![h] = "register"] /\ pc[h] = "idle" /\ up[ProcOf[h]]
    BY DEF Define, TypeOK, StoredOK, Defs, Undefined, SeedDef
<1>2. TypeOK'
    BY <1>1 DEF Define, TypeOK, Row
<1>3. HandlersOK'
    BY <1>1 DEF Define, HandlersOK, TypeOK
<1>4. StoredOK'
    BY <1>1 DEF Define, StoredOK
<1>5. ResolvedOK'
    BY <1>1 DEF Define, ResolvedOK, Accounted, TypeOK
<1> QED
    BY <1>2, <1>3, <1>4, <1>5

LEMMA RegisterTypes == ASSUME TypesInv, NEW h \in Handlers, Register(h) PROVE TypesInv'
<1> USE DEF TypesInv
<1>1. PICK p \in Procs : p = ProcOf[h]
    OBVIOUS
<1>2. PICK r \in Row : r = hold[h]
    BY DEF TypeOK
<1>3. /\ resolver' = [resolver EXCEPT ![p] = [resolver[p] EXCEPT ![r.name] = r.def]]
      /\ r.name \in Names /\ r.def \in Defs
      /\ pc[h] = "register" /\ pc' = [pc EXCEPT ![h] = "append"]
      /\ UNCHANGED <<clock, log, rows, up, hold, acked, used, whole, failed>>
    BY <1>1, <1>2 DEF Register, TypeOK, Row
<1>4. TypeOK'
    BY <1>3 DEF TypeOK
<1>5. HandlersOK'
    BY <1>3 DEF HandlersOK, TypeOK
<1>6. StoredOK'
    BY <1>3 DEF StoredOK
<1>7. \A n \in Names : Accounted(n) => Accounted(n)'
    BY <1>3 DEF Accounted, TypeOK
<1>8. Accounted(r.name)'
    BY <1>2, <1>3 DEF Accounted, TypeOK
<1>9. ResolvedOK'
    BY <1>3, <1>7, <1>8 DEF ResolvedOK, TypeOK
<1> QED
    BY <1>4, <1>5, <1>6, <1>9

LEMMA AppendTypes == ASSUME TypesInv, NEW h \in Handlers, Append(h) PROVE TypesInv'
<1> USE DEF TypesInv
<1>1. TypeOK'
    BY DEF Append, TypeOK
<1>2. HandlersOK'
    BY DEF Append, HandlersOK, TypeOK
<1>3. StoredOK'
    BY DEF Append, StoredOK, HandlersOK, TypeOK
<1>4. ResolvedOK'
    BY DEF Append, ResolvedOK, Accounted, TypeOK
<1> QED
    BY <1>1, <1>2, <1>3, <1>4

LEMMA UpsertTypes == ASSUME TypesInv, NEW h \in Handlers, Upsert(h) PROVE TypesInv'
<1> USE DEF TypesInv
<1>1. hold[h] \in Row /\ hold[h].name \in Names /\ hold[h].def \in Defs
    BY DEF TypeOK, Row
<1>2. TypeOK'
    BY <1>1, NoHoldType DEF Upsert, TypeOK
<1>3. HandlersOK'
    BY NoHoldType DEF Upsert, HandlersOK, TypeOK, SeedDef, Undefined
<1>4. StoredOK'
    <2>1. IsFiniteSet(rows')
        BY FS_AddElement DEF Upsert, StoredOK
    <2> QED
        BY <1>1, <2>1 DEF Upsert, StoredOK, HandlersOK, TypeOK
<1>5. ResolvedOK'
    <2>1. \A n \in Names : Accounted(n) => Accounted(n)'
        BY DEF Upsert, Accounted, TypeOK
    <2> QED
        BY <2>1 DEF Upsert, ResolvedOK, TypeOK
<1> QED
    BY <1>2, <1>3, <1>4, <1>5

LEMMA StatementFailsTypes ==
    ASSUME TypesInv, NEW h \in Handlers, StatementFails(h) PROVE TypesInv'
<1> USE DEF TypesInv
<1>1. TypeOK'
    BY NoHoldType DEF StatementFails, TypeOK, Row
<1>2. HandlersOK'
    BY NoHoldType DEF StatementFails, HandlersOK, TypeOK, SeedDef, Undefined
<1>3. StoredOK'
    BY DEF StatementFails, StoredOK
<1>4. ResolvedOK'
    <2>1. \A n \in Names : Accounted(n) => Accounted(n)'
        BY DEF StatementFails, Accounted, TypeOK
    <2> QED
        BY <2>1 DEF StatementFails, ResolvedOK, TypeOK
<1> QED
    BY <1>1, <1>2, <1>3, <1>4

LEMMA CreateTypes ==
    ASSUME TypesInv, NEW p \in Procs, NEW n \in Names, CreateEntity(p, n) PROVE TypesInv'
<1> USE DEF TypesInv
<1>1. TypeOK'
    BY DEF CreateEntity, TypeOK
<1>2. HandlersOK'
    BY DEF CreateEntity, HandlersOK
<1>3. StoredOK'
    BY DEF CreateEntity, StoredOK
<1>4. ResolvedOK'
    BY DEF CreateEntity, ResolvedOK, Accounted
<1> QED
    BY <1>1, <1>2, <1>3, <1>4

LEMMA ExitTypes == ASSUME TypesInv, NEW p \in Procs, Exit(p) PROVE TypesInv'
<1> USE DEF TypesInv
<1>1. /\ resolver' = [resolver EXCEPT ![p] = Nothing]
      /\ up' = [up EXCEPT ![p] = FALSE]
      /\ \A h \in Handlers :
            /\ ProcOf[h] = p => /\ pc'[h] = "idle" /\ hold'[h] = NoHold
                                /\ pc[h] # "idle" => hold[h].name \in failed'
            /\ ProcOf[h] # p => pc'[h] = pc[h] /\ hold'[h] = hold[h]
      /\ failed \subseteq failed'
      /\ UNCHANGED <<clock, log, rows, acked, used>>
    BY DEF Exit
<1>2. TypeOK'
    BY NoHoldType DEF Exit, TypeOK, Row, Nothing, Defs, Undefined
<1>3. HandlersOK'
    BY <1>1, NoHoldType DEF HandlersOK, TypeOK, SeedDef, Undefined
<1>4. StoredOK'
    BY <1>1 DEF StoredOK
<1>5. \A n \in Names : Accounted(n) => Accounted(n)'
    BY <1>1 DEF Accounted
<1>6. ResolvedOK'
    BY <1>1, <1>5 DEF ResolvedOK, TypeOK, Nothing
<1> QED
    BY <1>2, <1>3, <1>4, <1>6

LEMMA TypesStep == TypesInv /\ [Next]_vars => TypesInv'
<1> SUFFICES ASSUME TypesInv, [Next]_vars PROVE TypesInv'
    OBVIOUS
<1>1. CASE UNCHANGED vars
    BY <1>1 DEF vars, TypesInv, TypeOK, HandlersOK, StoredOK, ResolvedOK, Accounted
<1>2. CASE Next
    BY <1>2, SetupTypes, ExitTypes, CreateTypes, DefineTypes, RegisterTypes, AppendTypes,
       UpsertTypes, StatementFailsTypes, LogSeedTypes, StoreSeedTypes DEF Next
<1> QED
    BY <1>1, <1>2

LEMMA TypesAlways == Spec => []TypesInv
    BY TypesInit, TypesStep, PTL DEF Spec

\* Setup, Register and the tables (resolver.go, handler.go) keep their types: what a
\* name resolves to is always the definition of a row, a seed, or nothing.
THEOREM TypesTyped == Spec => []TypeOK
<1>1. TypesInv => TypeOK
    BY DEF TypesInv
<1> QED
    BY <1>1, TypesAlways, PTL

\* opTypeDefine (handler.go): the event of a stored definition is in the log.
THEOREM Logged == Spec => []TypeLoggedFirst
<1>1. TypesInv => TypeLoggedFirst
    BY DEF TypesInv, StoredOK, TypeLoggedFirst
<1> QED
    BY <1>1, TypesAlways, PTL

\* opEntityCreate and opTypeDefine (handler.go): no entity is left without its type
\* unless a definition of that type failed or was lost.
THEOREM NoneTypeless == Spec => []UsedTypesStored
<1>1. TypesInv => UsedTypesStored
    BY DEF TypesInv, ResolvedOK, Accounted, UsedTypesStored
<1> QED
    BY <1>1, TypesAlways, PTL

-----------------------------------------------------------------------------
(***************************************************************************)
(* One process.                                                            *)
(***************************************************************************)
SoleProcess == \A p, q \in Procs : p = q

\* A name of one definition had one before, unless an attempt at it failed.
LEMMA SingleBefore ==
    ASSUME failed \subseteq failed',
           \A r \in Made : r.def # Undefined => r \in Made' \/ r.name \in failed',
           NEW n, Single(n)', n \notin failed'
    PROVE  Single(n) /\ n \notin failed
    BY DEF Single

\* A step that leaves the table and this process's resolver alone and makes no
\* definition current keeps what is visible.
LEMMA VisibleKept ==
    ASSUME VisibleOK, UNCHANGED <<rows, up, whole, resolver>>,
           Current' \subseteq Current,
           failed \subseteq failed',
           \A r \in Made : r.def # Undefined => r \in Made' \/ r.name \in failed'
    PROVE  VisibleOK'
<1>1. \A n : Single(n)' /\ n \notin failed' => Single(n) /\ n \notin failed
    BY SingleBefore
<1> QED
    BY <1>1 DEF VisibleOK

\* A step that leaves the resolvers alone and forgets an attempt only as a failure
\* keeps what every name resolves to accounted for.
LEMMA SourcedKept ==
    ASSUME TypeOK, SourcedOK, UNCHANGED <<up, resolver>>,
           failed \subseteq failed',
           \A r \in Made : r.def # Undefined => r \in Made' \/ r.name \in failed'
    PROVE  SourcedOK'
<1> SUFFICES ASSUME NEW p \in Procs, NEW n \in Names, up[p],
                    resolver[p][n] \notin {Undefined, SeedDef}, n \notin failed'
             PROVE  \E r \in Made' : r.name = n /\ r.def = resolver[p][n]
    BY DEF SourcedOK
<1>1. PICK r \in Made : r.name = n /\ r.def = resolver[p][n]
    BY DEF SourcedOK
<1> QED
    BY <1>1

LEMMA SetupSourced ==
    ASSUME VisibleInv, NEW p \in Procs, Setup(p) PROVE SourcedOK'
<1> USE DEF VisibleInv, TypesInv
<1>1. PICK found \in {Rehydrated, SeedsOnly} : resolver' = [resolver EXCEPT ![p] = found]
    BY DEF Setup
<1>2. up' = [up EXCEPT ![p] = TRUE] /\ UNCHANGED <<log, rows, hold, failed>>
    BY DEF Setup
<1>3. Made' = Made
    BY <1>2 DEF Made
<1>4. ASSUME NEW n \in Names
      PROVE  /\ n \in Seeds => found[n] # Undefined
             /\ \/ found[n] \in {Undefined, SeedDef}
                \/ \E r \in Made : r.name = n /\ r.def = found[n]
    <2>1. CASE found[n] = SeedsOnly[n]
        BY <2>1 DEF SeedsOnly, SeedDef, Undefined
    <2>2. CASE \E r \in Newest : r.name = n /\ found[n] = r.def
        BY <2>2 DEF Newest, StoredOK, Made
    <2> QED
        BY <1>1, <2>1, <2>2, RehydratedRow
<1> QED
    BY <1>1, <1>2, <1>3, <1>4 DEF SourcedOK, TypeOK

LEMMA RegisterSourced ==
    ASSUME VisibleInv, NEW h \in Handlers, Register(h) PROVE SourcedOK'
<1> USE DEF VisibleInv, TypesInv
<1>1. PICK p \in Procs : p = ProcOf[h]
    OBVIOUS
<1>2. PICK d \in Row : d = hold[h]
    BY DEF TypeOK
<1>3. /\ resolver' = [resolver EXCEPT ![p] = [resolver[p] EXCEPT ![d.name] = d.def]]
      /\ d.name \in Names /\ d.def # Undefined /\ d \in Made
      /\ UNCHANGED <<log, up, hold, failed>>
    BY <1>1, <1>2 DEF Register, TypeOK, Row, HandlersOK, Made
<1>4. Made' = Made
    BY <1>3 DEF Made
<1> QED
    BY <1>3, <1>4 DEF SourcedOK, TypeOK

LEMMA SourcedStep ==
    ASSUME VisibleInv, [Next]_vars PROVE SourcedOK'
<1> USE DEF VisibleInv, TypesInv
<1>1. ASSUME UNCHANGED <<up, resolver, failed, hold>>, log \subseteq log' PROVE SourcedOK'
    BY <1>1, SourcedKept DEF Made
<1>2. CASE UNCHANGED vars
    BY <1>1, <1>2 DEF vars
<1>3. ASSUME NEW p \in Procs, Exit(p) PROVE SourcedOK'
    <2>1. /\ up' = [up EXCEPT ![p] = FALSE]
          /\ \A q \in Procs : q # p => resolver'[q] = resolver[q]
          /\ \A h \in Handlers : \/ hold'[h] = hold[h]
                                 \/ hold[h].name \in failed' \/ hold[h] = NoHold
          /\ failed \subseteq failed' /\ log' = log
        BY <1>3 DEF Exit, TypeOK, HandlersOK
    <2>2. \A r \in Made : r.def # Undefined => r \in Made' \/ r.name \in failed'
        BY <2>1, NoHoldType DEF Made
    <2> SUFFICES ASSUME NEW q \in Procs, NEW n \in Names, up'[q]
                 PROVE  /\ n \in Seeds => resolver'[q][n] # Undefined
                        /\ \/ resolver'[q][n] \in {Undefined, SeedDef}
                           \/ \E r \in Made' : r.name = n /\ r.def = resolver'[q][n]
                           \/ n \in failed'
        BY DEF SourcedOK
    <2>3. q # p /\ up[q] /\ resolver'[q] = resolver[q]
        BY <2>1 DEF TypeOK
    <2>4. CASE \E r \in Made : r.name = n /\ r.def = resolver[q][n] /\ r.def # Undefined
        BY <2>2, <2>3, <2>4, <2>1 DEF SourcedOK
    <2> QED
        BY <2>1, <2>3, <2>4 DEF SourcedOK
<1>4. ASSUME NEW h \in Handlers, NEW n \in Names, Define(h, n) PROVE SourcedOK'
    <2>1. /\ hold[h] = NoHold /\ \A g \in Handlers : g # h => hold'[g] = hold[g]
          /\ UNCHANGED <<log, up, resolver, failed>>
        BY <1>4 DEF Define, HandlersOK, TypeOK
    <2> QED
        BY <2>1, NoHoldType, SourcedKept DEF Made
<1>5. ASSUME NEW h \in Handlers, Upsert(h) PROVE SourcedOK'
    <2>1. /\ hold[h] \in log /\ \A g \in Handlers : g # h => hold'[g] = hold[g]
          /\ UNCHANGED <<log, up, resolver, failed>>
        BY <1>5 DEF Upsert, HandlersOK, TypeOK
    <2> QED
        BY <2>1, SourcedKept DEF Made
<1>6. ASSUME NEW h \in Handlers, StatementFails(h) PROVE SourcedOK'
    <2>1. /\ hold[h].name \in failed' /\ \A g \in Handlers : g # h => hold'[g] = hold[g]
          /\ failed \subseteq failed' /\ UNCHANGED <<log, up, resolver>>
        BY <1>6 DEF StatementFails, TypeOK
    <2> QED
        BY <2>1, SourcedKept DEF Made
<1>7. ASSUME NEW h \in Handlers, Append(h) PROVE SourcedOK'
    BY <1>1, <1>7 DEF Append
<1>8. ASSUME NEW p \in Procs, NEW n \in Names, CreateEntity(p, n) PROVE SourcedOK'
    BY <1>1, <1>8 DEF CreateEntity
<1>9. ASSUME NEW n \in Seeds, LogSeed(n) PROVE SourcedOK'
    BY <1>1, <1>9 DEF LogSeed
<1>10. ASSUME NEW r \in log, StoreSeed(r) PROVE SourcedOK'
    BY <1>1, <1>10 DEF StoreSeed
<1> QED
    BY <1>2, <1>3, <1>4, <1>5, <1>6, <1>7, <1>8, <1>9, <1>10, SetupSourced, RegisterSourced
    DEF Next

\* The command that makes the peer only logs a seed: no name loses a definition.
LEMMA LogSeedVisible ==
    ASSUME VisibleInv, NEW n \in Seeds, LogSeed(n) PROVE VisibleOK'
<1> USE DEF VisibleInv, TypesInv
<1>1. log \subseteq log' /\ UNCHANGED <<rows, up, resolver, pc, hold, whole, failed>>
    BY DEF LogSeed
<1>2. Current' = Current /\ Made \subseteq Made'
    BY <1>1 DEF Current, Made
<1> QED
    BY <1>1, <1>2, VisibleKept

\* A seed stored late is what its name resolves to, unless it was defined anew.
LEMMA StoreSeedVisible ==
    ASSUME VisibleInv, NEW s \in log, StoreSeed(s) PROVE VisibleOK'
<1> USE DEF VisibleInv, TypesInv
<1>1. /\ rows' = rows \cup {s} /\ s.def = SeedDef /\ s \in Row /\ s \in Made
      /\ UNCHANGED <<log, up, resolver, pc, hold, whole, failed>>
    BY DEF StoreSeed, TypeOK, Made
<1>2. Current' = Current \cup {s} /\ Made' = Made /\ \A n : Single(n)' = Single(n)
    BY <1>1 DEF Current, Made, Single
<1>3. Cardinality(rows') <= Limit => Cardinality(rows) <= Limit
    <2>1. IsFiniteSet(rows') /\ rows \in SUBSET rows'
        BY <1>1, FS_AddElement DEF StoredOK
    <2>2. /\ Cardinality(rows) <= Cardinality(rows')
          /\ Cardinality(rows) \in Nat /\ Cardinality(rows') \in Nat
        BY <2>1, FS_Subset, FS_CardinalityType
    <2> QED
        BY <2>2
<1>4. ASSUME NEW p \in Procs, up[p], s.name \notin failed, Single(s.name)
      PROVE  resolver[p][s.name] = SeedDef
    <2>1. s.name \in Seeds
        BY <1>1 DEF StoredOK
    <2>2. s.name \in Names /\ resolver[p][s.name] # Undefined
        BY <1>1, <1>4, <2>1 DEF Row, SourcedOK
    <2>3. CASE \E r \in Made : r.name = s.name /\ r.def = resolver[p][s.name]
        BY <1>1, <1>4, <2>2, <2>3 DEF Single, SeedDef, Undefined
    <2> QED
        BY <1>4, <2>2, <2>3 DEF SourcedOK
<1> QED
    BY <1>1, <1>2, <1>3, <1>4 DEF VisibleOK

LEMMA SetupVisible ==
    ASSUME SoleProcess, VisibleInv, NEW p \in Procs, Setup(p) PROVE VisibleOK'
<1> USE DEF VisibleInv, TypesInv
<1> SUFFICES ASSUME whole'[p], Cardinality(rows) <= Limit, NEW r \in Current',
                    r.name \notin failed, Single(r.name)'
             PROVE  resolver'[p][r.name] = r.def
    BY DEF VisibleOK, SoleProcess, Setup
<1>1. resolver' = [resolver EXCEPT ![p] = Rehydrated] /\ ~up[p]
    BY DEF Setup, TypeOK
<1>2. Current' = rows
    <2>1. \A h \in Handlers : pc'[h] = "idle"
        BY <1>1 DEF HandlersOK, SoleProcess, Setup, TypeOK
    <2> QED
        BY <2>1 DEF Current, Setup
<1>3. r \in rows /\ r \in Row /\ r \in log /\ r.def # Undefined
    BY <1>2 DEF StoredOK, TypeOK
<1>4. Newest = rows
    <2>1. ASSUME NEW q \in rows PROVE Cardinality({s \in rows : s.at > q.at}) < Limit
        <3> DEFINE newer == {s \in rows : s.at > q.at}
        <3>1. q \notin newer
            BY DEF TypeOK, Row, Defs
        <3>2. /\ newer \in SUBSET rows
              /\ IsFiniteSet(rows)
            BY DEF StoredOK
        <3>3. /\ Cardinality(newer) <= Cardinality(rows)
              /\ Cardinality(newer) # Cardinality(rows)
              /\ IsFiniteSet(newer)
            BY <3>1, <3>2, FS_Subset
        <3>4. Cardinality(newer) \in Nat /\ Cardinality(rows) \in Nat
            BY <3>2, <3>3, FS_CardinalityType
        <3> QED
            BY <3>3, <3>4
    <2> QED
        BY <2>1 DEF Newest
<1>5. PICK q \in rows : q.name = r.name /\ Rehydrated[r.name] = q.def
    BY <1>3, <1>4, RehydratedRow DEF Row
<1>6. q \in log /\ q.def # Undefined
    BY <1>5 DEF StoredOK
<1>7. q.def = r.def
    BY <1>3, <1>5, <1>6 DEF Single, Made, Setup
<1> QED
    BY <1>1, <1>3, <1>5, <1>7 DEF TypeOK, Row

LEMMA DefineVisible ==
    ASSUME VisibleInv, NEW h \in Handlers, NEW n \in Names, Define(h, n) PROVE VisibleOK'
<1> USE DEF VisibleInv, TypesInv
<1>1. /\ pc[h] = "idle" /\ hold[h] = NoHold /\ pc'[h] = "register"
      /\ \A g \in Handlers : g # h => pc'[g] = pc[g] /\ hold'[g] = hold[g]
      /\ UNCHANGED <<log, rows, up, resolver, whole, failed>>
    BY DEF Define, HandlersOK, TypeOK
<1>2. Current' \subseteq Current
    BY <1>1 DEF Current
<1>3. \A r \in Made : r.def # Undefined => r \in Made'
    BY <1>1, NoHoldType DEF Made
<1> QED
    BY <1>1, <1>2, <1>3, VisibleKept

LEMMA RegisterVisible ==
    ASSUME SoleProcess, VisibleInv, NEW h \in Handlers, Register(h) PROVE VisibleOK'
<1> USE DEF VisibleInv, TypesInv
<1>1. PICK p \in Procs : p = ProcOf[h]
    OBVIOUS
<1>2. PICK d \in Row : d = hold[h]
    BY DEF TypeOK
<1>3. /\ resolver' = [resolver EXCEPT ![p] = [resolver[p] EXCEPT ![d.name] = d.def]]
      /\ d.name \in Names /\ d.def # Undefined /\ d \in Made
      /\ pc[h] = "register" /\ pc' = [pc EXCEPT ![h] = "append"]
      /\ UNCHANGED <<log, rows, up, hold, whole, failed>>
    BY <1>1, <1>2 DEF Register, TypeOK, Row, HandlersOK, Made
<1>4. Made' = Made /\ \A n : Single(n)' = Single(n)
    BY <1>3 DEF Made, Single
<1>5. Current' = Current \cup {d}
    BY <1>2, <1>3 DEF Current, TypeOK
<1>6. \A r \in Current : r \in Made /\ r \in Row /\ r.def # Undefined
    BY DEF Current, Made, StoredOK, HandlersOK, TypeOK
<1> SUFFICES ASSUME up[p], whole[p], Cardinality(rows) <= Limit, NEW r \in Current',
                    r.name \notin failed, Single(r.name)
             PROVE  resolver'[p][r.name] = r.def
    BY <1>3, <1>4 DEF VisibleOK, SoleProcess
<1>7. CASE r.name = d.name
    <2>1. r.def = d.def
        BY <1>3, <1>5, <1>6, <1>7 DEF Single
    <2> QED
        BY <1>3, <1>7, <2>1 DEF TypeOK
<1>8. CASE r.name # d.name
    <2>1. r \in Current /\ resolver[p][r.name] = r.def /\ r.name \in Names
        BY <1>5, <1>6, <1>8 DEF VisibleOK, Row
    <2> QED
        BY <1>3, <1>8, <2>1 DEF TypeOK
<1> QED
    BY <1>7, <1>8

LEMMA AppendVisible == ASSUME VisibleInv, NEW h \in Handlers, Append(h) PROVE VisibleOK'
<1> USE DEF VisibleInv, TypesInv
<1>1. /\ pc[h] = "append" /\ pc'[h] = "upsert" /\ hold' = hold
      /\ \A g \in Handlers : g # h => pc'[g] = pc[g]
      /\ log \subseteq log'
      /\ UNCHANGED <<rows, up, resolver, whole, failed>>
    BY DEF Append, TypeOK
<1>2. Current' \subseteq Current
    BY <1>1 DEF Current
<1>3. \A r \in Made : r \in Made'
    BY <1>1 DEF Made
<1> QED
    BY <1>1, <1>2, <1>3, VisibleKept

LEMMA UpsertVisible == ASSUME VisibleInv, NEW h \in Handlers, Upsert(h) PROVE VisibleOK'
<1> USE DEF VisibleInv, TypesInv
<1>1. /\ pc[h] = "upsert" /\ pc'[h] = "idle" /\ hold[h] \in log
      /\ rows' = rows \cup {hold[h]}
      /\ \A g \in Handlers : g # h => pc'[g] = pc[g] /\ hold'[g] = hold[g]
      /\ UNCHANGED <<log, up, resolver, whole, failed>>
    BY DEF Upsert, HandlersOK, TypeOK
<1>2. Current' \subseteq Current
    BY <1>1 DEF Current
<1>3. \A r \in Made : r \in Made'
    BY <1>1 DEF Made
<1>4. \A n : Single(n)' /\ n \notin failed' => Single(n) /\ n \notin failed
    BY <1>1, <1>3, SingleBefore
<1>5. Cardinality(rows') <= Limit => Cardinality(rows) <= Limit
    <2>1. IsFiniteSet(rows') /\ rows \in SUBSET rows'
        BY <1>1, FS_AddElement DEF StoredOK
    <2>2. /\ Cardinality(rows) <= Cardinality(rows')
          /\ Cardinality(rows) \in Nat /\ Cardinality(rows') \in Nat
        BY <2>1, FS_Subset, FS_CardinalityType
    <2> QED
        BY <2>2
<1> QED
    BY <1>1, <1>2, <1>4, <1>5 DEF VisibleOK

LEMMA StatementFailsVisible ==
    ASSUME VisibleInv, NEW h \in Handlers, StatementFails(h) PROVE VisibleOK'
<1> USE DEF VisibleInv, TypesInv
<1>1. /\ pc'[h] = "idle" /\ hold[h].name \in failed'
      /\ \A g \in Handlers : g # h => pc'[g] = pc[g] /\ hold'[g] = hold[g]
      /\ failed \subseteq failed'
      /\ UNCHANGED <<log, rows, up, resolver, whole>>
    BY DEF StatementFails, TypeOK
<1>2. Current' \subseteq Current
    BY <1>1 DEF Current
<1>3. \A r \in Made : r \in Made' \/ r.name \in failed'
    BY <1>1 DEF Made
<1> QED
    BY <1>1, <1>2, <1>3, VisibleKept

LEMMA VisibleStep ==
    ASSUME SoleProcess PROVE VisibleInv /\ [Next]_vars => VisibleInv'
<1> SUFFICES ASSUME VisibleInv, [Next]_vars PROVE VisibleInv'
    OBVIOUS
<1>1. TypesInv' /\ SourcedOK'
    BY TypesStep, SourcedStep DEF VisibleInv
<1> SUFFICES VisibleOK'
    BY <1>1 DEF VisibleInv
<1>2. ASSUME UNCHANGED <<log, rows, up, resolver, pc, hold, whole, failed>>
      PROVE  VisibleOK'
    <2>1. Current' = Current /\ Made' = Made
        BY <1>2 DEF Current, Made
    <2> QED
        BY <1>2, <2>1, VisibleKept DEF VisibleInv
<1>3. CASE UNCHANGED vars
    BY <1>2, <1>3 DEF vars
<1>4. CASE \E p \in Procs : Setup(p)
    BY <1>4, SetupVisible
<1>5. CASE \E p \in Procs : Exit(p)
    BY <1>5 DEF Exit, VisibleInv, VisibleOK, TypesInv, TypeOK, SoleProcess
<1>6. CASE \E p \in Procs, n \in Names : CreateEntity(p, n)
    BY <1>2, <1>6 DEF CreateEntity
<1>7. CASE \E h \in Handlers : \/ \E n \in Names : Define(h, n)
                               \/ Register(h) \/ Append(h) \/ Upsert(h) \/ StatementFails(h)
    BY <1>7, DefineVisible, RegisterVisible, AppendVisible, UpsertVisible, StatementFailsVisible
<1>8. CASE (\E n \in Seeds : LogSeed(n)) \/ (\E r \in log : StoreSeed(r))
    BY <1>8, LogSeedVisible, StoreSeedVisible
<1> QED
    BY <1>3, <1>4, <1>5, <1>6, <1>7, <1>8 DEF Next

\* Setup and opTypeDefine (runtime.go, handler.go): with one process, a definition
\* that was acknowledged and made once is what its name resolves to, through every
\* restart whose query sees all rows.
THEOREM Visible == ASSUME SoleProcess PROVE Spec => []DefinitionsVisible
<1>1. Init => VisibleInv
    BY TypesInit DEF Init, VisibleInv, VisibleOK, SourcedOK
<1>2. VisibleInv /\ [Next]_vars => VisibleInv'
    BY VisibleStep
<1>3. VisibleInv => DefinitionsVisible
    <2> SUFFICES ASSUME VisibleInv, NEW p \in Procs, NEW n \in Names,
                        up[p], whole[p], acked[n] # Undefined,
                        Cardinality(Attempts(n)) = 1, n \notin failed,
                        Cardinality(rows) <= Limit
                 PROVE  resolver[p][n] = acked[n]
        BY DEF DefinitionsVisible
    <2>1. PICK r \in rows : r.name = n /\ r.def = acked[n]
        BY DEF VisibleInv, TypesInv, StoredOK
    <2>2. Attempts(n) \in SUBSET Defs
        BY DEF Attempts, VisibleInv, TypesInv, TypeOK, Row
    <2>3. IsFiniteSet(Attempts(n))
        <3>1. IsFiniteSet(0 .. MaxDefs + 1)
            <4>1. 0 \in Int /\ MaxDefs + 1 \in Int
                OBVIOUS
            <4> QED
                BY <4>1, FS_Interval
        <3> QED
            BY <2>2, <3>1, FS_Subset DEF Defs
    <2>4. PICK d : Attempts(n) = {d}
        BY <2>3, FS_Singleton
    <2>5. \A q \in Made : q.name = n /\ q.def # Undefined => q.def \in Attempts(n)
        BY DEF Made, Attempts
    <2>6. Single(n)
        BY <2>4, <2>5 DEF Single
    <2> QED
        BY <2>1, <2>6 DEF VisibleInv, VisibleOK, Current
<1> QED
    BY <1>1, <1>2, <1>3, PTL DEF Spec

=============================================================================
