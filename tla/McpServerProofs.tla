-------------------------- MODULE McpServerProofs --------------------------
(***************************************************************************)
(* Proofs about McpServer, for every number of calls, peers, names and     *)
(* tokens.                                                                 *)
(*                                                                         *)
(* A token is granted for peers and checked by name.  The argument is that *)
(* a name no rename has given up means one peer, once and for all: it is   *)
(* still in peers.json under that peer, so a registry read at any time and *)
(* a token list read at any other agree about it.                          *)
(***************************************************************************)
EXTENDS McpServer, TLAPS

\* A server that is not up has no call and no touch in flight.
Asleep ==
    phase # "up" =>
        /\ \A c \in Calls : pc[c] = "idle" /\ out[c] = <<>>
        /\ touches = {}

\* Tokens are issued in order; a name belongs to one peer.
Issued ==
    /\ \A t \in Tokens : t >= nextToken => tokensFile[t] = None /\ toks[t] = None
    /\ \A t \in retired : t < nextToken
    /\ \A d \in DIDs : d >= nextPeer => peersFile[d] = None
    /\ \A d, e \in DIDs : peersFile[d] # None /\ peersFile[d] = peersFile[e] => d = e

\* A name that was never given up is where it always was.
NamesStay == \A d \in DIDs : reg[d] # None /\ reg[d] \notin freed => peersFile[d] = reg[d]

\* What a scope says about such a name is what was granted.
ScopeOK(t, scope) ==
    scope # None =>
        \A n \in Names \ freed : n \in scope =>
            \E d \in DIDs : peersFile[d] = n /\ d \in granted[t]

ScopesOK == \A t \in Tokens : ScopeOK(t, tokensFile[t]) /\ ScopeOK(t, toks[t])

\* The peer a call is about to be routed to, or has data of, may be seen by it.
MaySee(t, d) ==
    /\ t \in Tokens /\ toks[t] # None
    /\ d \in granted[t] \/ Star \in toks[t] \/ reg[d] \in freed

CallsOK ==
    \A c \in Calls :
        /\ pc[c] \in {"authorise", "route"} => Len(out[c]) < Len(asked[c])
        /\ pc[c] = "route" => did[c] \in DIDs /\ MaySee(bearer[c], did[c])

McpInv ==
    TypeOK /\ Asleep /\ Issued /\ NamesStay /\ ScopesOK /\ CallsOK /\ NeverBeyondGrant
        /\ RetiredStaysOut

-----------------------------------------------------------------------------
\* authorizeForPeer answers with a peer of the registry whose name the token has.
LEMMA AuthorisedPeer ==
    ASSUME TypeOK, NEW t, NEW x \in Targets, Authorised(t, x) # None
    PROVE  /\ Authorised(t, x) \in DIDs
           /\ reg[Authorised(t, x)] \in Names
           /\ Covers(t, reg[Authorised(t, x)])
  <1> DEFINE d == Resolve(x)
  <1>1. Authorised(t, x) = d /\ d # None /\ Covers(t, reg[d])
    BY DEF Authorised
  <1>2. \/ \E e \in DIDs : reg[e] = x /\ d = CHOOSE f \in DIDs : reg[f] = x
        \/ x \in DIDs /\ reg[x] # None /\ d = x
        \/ d = None
    BY DEF Resolve
  <1>3. d \in DIDs /\ reg[d] # None
    BY <1>1, <1>2, DistinctAssumption DEF Targets
  <1> QED
    BY <1>1, <1>3 DEF TypeOK

\* Whom the token covers in a registry and a token list of any age, it may see.
LEMMA AuthorisedSees ==
    ASSUME McpInv, NEW t, NEW x \in Targets, Authorised(t, x) # None
    PROVE  Authorised(t, x) \in DIDs /\ MaySee(t, Authorised(t, x))
  <1> DEFINE d == Authorised(t, x)
  <1>1. /\ TypeOK /\ d \in DIDs /\ reg[d] \in Names /\ reg[d] # None
        /\ t \in Tokens /\ toks[t] # None
        /\ Star \in toks[t] \/ reg[d] \in toks[t]
    BY AuthorisedPeer, DistinctAssumption DEF McpInv, Covers
  <1> HIDE DEF d
  <1>2. ASSUME reg[d] \in toks[t], reg[d] \notin freed PROVE d \in granted[t]
    <2>1. PICK e \in DIDs : peersFile[e] = reg[d] /\ e \in granted[t]
      BY <1>1, <1>2 DEF McpInv, ScopesOK, ScopeOK
    <2>2. peersFile[d] = reg[d]
      BY <1>1, <1>2 DEF McpInv, NamesStay
    <2> QED
      BY <1>1, <2>1, <2>2 DEF McpInv, Issued
  <1>3. MaySee(t, d)
    BY <1>1, <1>2 DEF MaySee
  <1> QED
    BY <1>1, <1>3 DEF d

\* A server that has never run, without peers and tokens.
LEMMA InitMcpInv == Init => McpInv
  BY BoundsAssumption, DistinctAssumption
     DEF Init, McpInv, TypeOK, Asleep, Issued, NamesStay, ScopesOK, ScopeOK, CallsOK,
         NeverBeyondGrant, RetiredStaysOut, Nobody, NoTokens, DIDs, Tokens

\* A peer gets a name that nobody has, and gives up the one it had.
Renamed(e, n) ==
    /\ peersFile' = [peersFile EXCEPT ![e] = n]
    /\ \A f \in DIDs : peersFile[f] # n
    /\ freed \subseteq freed' /\ freed' \subseteq Names
    /\ peersFile[e] # None => peersFile[e] \in freed'
    /\ nextPeer' \in 1 .. MaxPeers + 1 /\ nextPeer <= nextPeer' /\ e < nextPeer'
    /\ UNCHANGED <<tokensFile, server, call, nextToken, granted, retired>>

LEMMA RenamedMcp ==
    ASSUME McpInv, NEW n \in Names, NEW e \in DIDs, Renamed(e, n)
    PROVE  McpInv'
  <1> USE BoundsAssumption, DistinctAssumption
      DEF McpInv, server, call, Taken, DIDs, Renamed
  <1>3. TypeOK'
    BY DEF TypeOK
  <1>4. Asleep' /\ RetiredStaysOut' /\ NeverBeyondGrant' /\ CallsOK'
    BY DEF Asleep, RetiredStaysOut, NeverBeyondGrant, CallsOK, MaySee
  <1>5. Issued'
    BY DEF Issued, TypeOK
  <1>6. NamesStay'
    BY DEF NamesStay, TypeOK
  <1>7. ASSUME NEW t \in Tokens, NEW scope, ScopeOK(t, scope) PROVE ScopeOK(t, scope)'
    BY <1>7 DEF ScopeOK, TypeOK
  <1>8. ScopesOK'
    BY <1>7 DEF ScopesOK
  <1> QED
    BY <1>3, <1>4, <1>5, <1>6, <1>8

\* peer add and peer rename.
LEMMA PeersMcp ==
    ASSUME McpInv, NEW n \in Names, PeerAdd(n) \/ \E d \in DIDs : PeerRename(d, n)
    PROVE  McpInv'
  <1> USE BoundsAssumption, DistinctAssumption DEF McpInv, Taken, DIDs, TypeOK
  <1>1. CASE PeerAdd(n)
    <2>1. nextPeer \in DIDs /\ nextPeer \in Nat /\ MaxPeers \in Nat
      BY <1>1 DEF PeerAdd
    <2>2. peersFile[nextPeer] = None
      BY <2>1 DEF Issued
    <2>3. Renamed(nextPeer, n)
      BY <1>1, <2>1, <2>2 DEF PeerAdd, Renamed
    <2> QED
      BY <2>1, <2>3, RenamedMcp
  <1>2. ASSUME NEW d \in DIDs, PeerRename(d, n) PROVE McpInv'
    <2>1. d < nextPeer
      BY <1>2 DEF PeerRename, Issued
    <2>2. Renamed(d, n)
      BY <1>2, <2>1 DEF PeerRename, Renamed
    <2> QED
      BY <2>2, RenamedMcp
  <1> QED
    BY <1>1, <1>2

\* token create: every name is a peer's at that moment.
LEMMA TokenCreateMcp ==
    ASSUME McpInv, NEW scope \in Scopes, TokenCreate(scope)
    PROVE  McpInv'
  <1> USE BoundsAssumption, DistinctAssumption DEF McpInv, server, call, ghost, Tokens
  <1>1. PICK k \in Tokens : /\ k = nextToken /\ k \notin retired
                            /\ tokensFile[k] = None /\ toks[k] = None
    BY DEF TokenCreate, Issued, TypeOK
  <1>2. TypeOK'
    BY <1>1 DEF TokenCreate, TypeOK
  <1>3. Asleep' /\ RetiredStaysOut' /\ Issued' /\ NamesStay'
    BY <1>1 DEF TokenCreate, Asleep, RetiredStaysOut, Issued, NamesStay, TypeOK
  <1>4. \A t \in Tokens : toks[t] # None => granted'[t] = granted[t]
    BY <1>1 DEF TokenCreate, TypeOK
  <1>5. UNCHANGED <<pc, bearer, asked, did, out, reg, toks, freed>>
    BY DEF TokenCreate
  <1>6. NeverBeyondGrant' /\ CallsOK'
    BY <1>4, <1>5 DEF NeverBeyondGrant, CallsOK, MaySee
  <1>7. ScopeOK(k, scope)'
    <2> SUFFICES ASSUME NEW n \in Names, n \in scope
                 PROVE  \E d \in DIDs : peersFile'[d] = n /\ d \in granted'[k]
      BY DEF ScopeOK
    <2>1. PICK d \in DIDs : peersFile[d] = n
      BY DEF TokenCreate, Taken
    <2>2. d \in granted'[k] /\ peersFile'[d] = n
      BY <1>1, <2>1 DEF TokenCreate, TypeOK
    <2> QED
      BY <2>2
  <1>8. ASSUME NEW t \in Tokens, t # k, NEW s, ScopeOK(t, s) PROVE ScopeOK(t, s)'
    BY <1>1, <1>8 DEF ScopeOK, TokenCreate, TypeOK
  <1>9. ScopesOK'
    <2> SUFFICES ASSUME NEW t \in Tokens PROVE ScopeOK(t, tokensFile[t])' /\ ScopeOK(t, toks[t])'
      BY DEF ScopesOK
    <2>1. CASE t = k
      BY <1>1, <1>7, <2>1 DEF TokenCreate, TypeOK, ScopeOK
    <2>2. CASE t # k
      BY <1>1, <1>8, <2>2 DEF TokenCreate, TypeOK, ScopesOK, ScopeOK
    <2> QED
      BY <2>1, <2>2
  <1> QED
    BY <1>2, <1>3, <1>6, <1>9

\* token revoke, and a touch of the server, which writes back what it has.
LEMMA TokensFileMcp ==
    ASSUME McpInv, NEW t \in Tokens, TokenRevoke(t) \/ Touch(t)
    PROVE  McpInv'
  <1> USE BoundsAssumption, DistinctAssumption DEF McpInv, server, call, ghost, Tokens
  <1>1. CASE TokenRevoke(t)
    <2>1. /\ tokensFile' = [tokensFile EXCEPT ![t] = None]
          /\ retired' = IF phase = "up" THEN retired ELSE retired \cup {t}
          /\ t < nextToken
          /\ UNCHANGED <<peersFile, phase, reg, toks, touches, pc, bearer, asked, did, out,
                         nextPeer, nextToken, granted, freed>>
      BY <1>1 DEF TokenRevoke, Issued, TypeOK
    <2>2. phase \in {"down", "opening", "up"} /\ (phase # "up" => ~(phase' = "up"))
      BY <2>1 DEF TypeOK
    <2>3. TypeOK' /\ Asleep' /\ Issued' /\ RetiredStaysOut' /\ NamesStay'
      BY <2>1, <2>2 DEF TypeOK, Asleep, Issued, RetiredStaysOut, NamesStay
    <2>4. ScopesOK' /\ CallsOK' /\ NeverBeyondGrant'
      BY <2>1 DEF ScopesOK, ScopeOK, CallsOK, MaySee, NeverBeyondGrant, TypeOK
    <2> QED
      BY <2>3, <2>4
  <1>2. CASE Touch(t)
    <2>1. /\ phase = "up" /\ touches' = touches \ {t} /\ tokensFile' = toks
          /\ UNCHANGED <<peersFile, phase, reg, toks, pc, bearer, asked, did, out,
                         nextPeer, nextToken, granted, freed, retired>>
      BY <1>2 DEF Touch
    <2>2. TypeOK' /\ Asleep' /\ Issued' /\ RetiredStaysOut' /\ NamesStay'
      BY <2>1 DEF TypeOK, Asleep, Issued, RetiredStaysOut, NamesStay
    <2>3. ScopesOK' /\ CallsOK' /\ NeverBeyondGrant'
      BY <2>1 DEF ScopesOK, ScopeOK, CallsOK, MaySee, NeverBeyondGrant
    <2> QED
      BY <2>2, <2>3
  <1> QED
    BY <1>1, <1>2

\* The server opens its two files, one after the other, and ends.
LEMMA ServerMcp ==
    ASSUME McpInv, OpenRegistry \/ OpenTokens \/ Stop
    PROVE  McpInv'
  <1> USE BoundsAssumption, DistinctAssumption DEF McpInv, files, call, ghost
  <1>1. CASE OpenRegistry
    BY <1>1 DEF OpenRegistry, TypeOK, Asleep, Issued, NamesStay, ScopesOK, ScopeOK, CallsOK,
       NeverBeyondGrant, RetiredStaysOut
  <1>2. CASE OpenTokens
    BY <1>2 DEF OpenTokens, TypeOK, Asleep, Issued, NamesStay, ScopesOK, ScopeOK, CallsOK,
       NeverBeyondGrant, RetiredStaysOut
  <1>3. CASE Stop
    <2>1. TypeOK'
      BY <1>3 DEF Stop, TypeOK, Nobody, NoTokens
    <2> QED
      BY <1>3, <2>1 DEF Stop, Nobody, NoTokens, Asleep, Issued, NamesStay, ScopesOK, ScopeOK,
         CallsOK, NeverBeyondGrant, RetiredStaysOut
  <1> QED
    BY <1>1, <1>2, <1>3

-----------------------------------------------------------------------------
\* A step of a call leaves the files, the lists and the ghosts alone.
LEMMA CallFrame ==
    ASSUME McpInv, UNCHANGED <<files, phase, reg, toks, ghost>>
    PROVE  Issued' /\ NamesStay' /\ ScopesOK' /\ RetiredStaysOut'
  BY DEF McpInv, files, ghost, Issued, NamesStay, ScopesOK, ScopeOK, RetiredStaysOut

\* What is asked is a list of targets.
LEMMA AskedTyped == \A peers \in AskedPeers : peers \in Seq(Targets) /\ Len(peers) > 0
  BY BoundsAssumption DEF AskedPeers

\* A call arrives.
LEMMA ArriveMcp ==
    ASSUME McpInv, NEW c \in Calls, NEW peers \in AskedPeers, NEW t \in {0} \cup Tokens,
           Arrive(c, peers, t)
    PROVE  McpInv'
  <1>1. TypeOK'
    BY AskedTyped, BoundsAssumption DEF Arrive, McpInv, TypeOK, files, server, ghost, Tokens
  <1>2. Asleep' /\ NeverBeyondGrant'
    BY DEF Arrive, McpInv, TypeOK, Asleep, NeverBeyondGrant, files, server, ghost
  <1>3. Len(out'[c]) = 0 /\ asked'[c] = peers /\ Len(peers) > 0 /\ pc'[c] = "authorise"
    BY AskedTyped DEF Arrive, McpInv, TypeOK
  <1>4. CallsOK'
    BY <1>3 DEF Arrive, McpInv, TypeOK, CallsOK, MaySee, files, server, ghost
  <1> QED
    BY <1>1, <1>2, <1>4, CallFrame DEF Arrive, McpInv, server

\* A result is one more of its call, and the call's last one or not.
LEMMA CollectMcp ==
    ASSUME McpInv, NEW c \in Calls, NEW result \in Results, Collect(c, result),
           phase = "up", pc[c] \in {"authorise", "route"},
           result.kind = "data" => MaySee(bearer[c], result.did),
           UNCHANGED <<files, server, bearer, asked, ghost>>
    PROVE  McpInv'
  <1> USE DEF McpInv, TypeOK, files, server, ghost, Collect
  <1>1. /\ out' = [out EXCEPT ![c] = Append(out[c], result)]
        /\ did' = [did EXCEPT ![c] = None]
        /\ pc'[c] \in {"answered", "authorise"} /\ \A b \in Calls \ {c} : pc'[b] = pc[b]
        /\ pc' \in [Calls -> {"idle", "authorise", "route", "answered", "rejected", "lost"}]
    OBVIOUS
  <1>2. TypeOK'
    BY <1>1
  <1>a. Asleep'
    BY <1>1 DEF Asleep
  <1>b. out[c] \in Seq(Results) /\ Len(out[c]) \in Nat /\ Len(out'[c]) = Len(out[c]) + 1
    BY <1>1
  <1>c. pc'[c] = "authorise" => Len(out'[c]) < Len(asked[c])
    <2>1. Len(out[c]) < Len(asked[c]) /\ Len(asked[c]) \in Nat
      BY DEF CallsOK
    <2>2. pc'[c] = "authorise" => Len(out[c]) + 1 # Len(asked[c])
      OBVIOUS
    <2> QED
      BY <1>b, <2>1, <2>2
  <1>3. CallsOK'
    <2> SUFFICES ASSUME NEW b \in Calls
                 PROVE  /\ pc'[b] \in {"authorise", "route"} => Len(out'[b]) < Len(asked[b])
                        /\ pc'[b] = "route" => did'[b] \in DIDs /\ MaySee(bearer[b], did'[b])
      BY DEF CallsOK, MaySee
    <2> QED
      BY <1>1, <1>c DEF CallsOK
  <1>4. NeverBeyondGrant'
    <2> SUFFICES ASSUME NEW b \in Calls, NEW k \in DOMAIN out'[b], out'[b][k].kind = "data"
                 PROVE  MaySee(bearer[b], out'[b][k].did)
      BY DEF NeverBeyondGrant, MaySee
    <2>1. \/ k \in DOMAIN out[b] /\ out'[b][k] = out[b][k]
          \/ b = c /\ out'[b][k] = result
      BY <1>1
    <2> QED
      BY <2>1 DEF NeverBeyondGrant, MaySee
  <1> QED
    BY <1>2, <1>a, <1>3, <1>4, CallFrame

\* A call is refused, authorised for a peer, denied it, or answered by it.
LEMMA CallMcp ==
    ASSUME McpInv, NEW c \in Calls, CallStep(c)
    PROVE  McpInv'
  <1>1. phase = "up"
    BY DEF CallStep, RejectCall, Authorise, Deny, Route, Panic, McpInv, Asleep
  <1>2. CASE RejectCall(c)
    <2>1. TypeOK' /\ Asleep' /\ CallsOK' /\ NeverBeyondGrant'
      BY <1>1, <1>2 DEF RejectCall, McpInv, TypeOK, Asleep, CallsOK, MaySee, NeverBeyondGrant,
         files, server, ghost
    <2> QED
      BY <1>2, <2>1, CallFrame DEF RejectCall, McpInv, server
  <1>3. CASE Authorise(c)
    <2>1. PICK x, d : x = Current(c) /\ d = Authorised(bearer[c], x)
      OBVIOUS
    <2>2. x \in Targets
      <3>1. /\ asked[c] \in Seq(Targets) /\ out[c] \in Seq(Results)
            /\ Len(out[c]) < Len(asked[c])
        BY <1>3 DEF Authorise, McpInv, TypeOK, CallsOK
      <3> QED
        BY <2>1, <3>1 DEF Current
    <2>3. d \in DIDs /\ MaySee(bearer[c], d)
      BY <1>3, <2>1, <2>2, AuthorisedSees DEF Authorise
    <2>4. /\ pc' = [pc EXCEPT ![c] = "route"] /\ did' = [did EXCEPT ![c] = d]
          /\ touches' = touches \cup {bearer[c]}
          /\ UNCHANGED <<files, phase, reg, toks, bearer, asked, out, ghost>>
      BY <1>3, <2>1 DEF Authorise
    <2>5. bearer[c] \in Tokens /\ Len(out[c]) < Len(asked[c])
      BY <1>3, <2>3 DEF MaySee, Authorise, McpInv, CallsOK
    <2>6. TypeOK' /\ Asleep' /\ NeverBeyondGrant'
      BY <1>1, <2>3, <2>4, <2>5 DEF McpInv, TypeOK, Asleep, NeverBeyondGrant, files, ghost
    <2>7. CallsOK'
      BY <2>3, <2>4, <2>5 DEF McpInv, TypeOK, CallsOK, MaySee, ghost
    <2> QED
      BY <2>4, <2>6, <2>7, CallFrame DEF McpInv
  <1>4. CASE Deny(c)
    <2>1. Denied \in Results /\ Denied.kind # "data"
      BY DEF Denied, Results
    <2> QED
      BY <1>1, <1>4, <2>1, CollectMcp DEF Deny, server
  <1>5. CASE Route(c)
    <2>1. Failed \in Results /\ Failed.kind # "data"
      BY DEF Failed, Results
    <2>2. did[c] \in DIDs /\ MaySee(bearer[c], did[c])
      BY <1>5 DEF Route, McpInv, CallsOK
    <2>3. Data(did[c]) \in Results /\ Data(did[c]).did = did[c]
      BY <2>2 DEF Data, Results
    <2> QED
      BY <1>1, <1>5, <2>1, <2>2, <2>3, CollectMcp DEF Route
  <1>6. CASE Panic(c)
    <2>1. TypeOK' /\ Asleep' /\ CallsOK' /\ NeverBeyondGrant'
      BY <1>1, <1>6 DEF Panic, McpInv, TypeOK, Asleep, CallsOK, MaySee, NeverBeyondGrant,
         files, server, ghost
    <2> QED
      BY <1>6, <2>1, CallFrame DEF Panic, McpInv, server
  <1> QED
    BY <1>2, <1>3, <1>4, <1>5, <1>6 DEF CallStep

\* The invariant holds in every behaviour.
LEMMA McpInvariant == Spec => []McpInv
  <1>1. McpInv /\ [Next]_vars => McpInv'
    <2>1. ASSUME McpInv, UNCHANGED vars PROVE McpInv'
      <3>1. TypeOK' /\ Asleep' /\ CallsOK' /\ NeverBeyondGrant'
        BY <2>1 DEF vars, McpInv, TypeOK, Asleep, CallsOK, MaySee, NeverBeyondGrant
      <3> QED
        BY <2>1, <3>1, CallFrame DEF vars, McpInv, files, ghost
    <2> QED
      BY <2>1, PeersMcp, TokenCreateMcp, TokensFileMcp, ServerMcp, ArriveMcp, CallMcp DEF Next
  <1> QED
    BY <1>1, InitMcpInv, PTL DEF Spec

\* The files, the server's lists and the calls keep their types (Setup, the
\* commands, handleCrossPeerQuery).
THEOREM McpTyped == Spec => []TypeOK
  <1>1. McpInv => TypeOK
    BY DEF McpInv
  <1> QED
    BY <1>1, McpInvariant, PTL

\* authorizeForPeer checks a name and routes by DID: whenever the registry and the
\* tokens were read, and whatever commands ran since, a token gets data of no peer
\* but those it was issued for, and those whose name a rename has given up.
THEOREM WithinGrant == Spec => []NeverBeyondGrant
  <1>1. McpInv => NeverBeyondGrant
    BY DEF McpInv
  <1> QED
    BY <1>1, McpInvariant, PTL

\* A token revoked while no server had read it never comes back, although servers
\* write back the list they read (touch).
THEOREM StaysOut == Spec => []RetiredStaysOut
  <1>1. McpInv => RetiredStaysOut
    BY DEF McpInv
  <1> QED
    BY <1>1, McpInvariant, PTL

-----------------------------------------------------------------------------
(***************************************************************************)
(* The results of a call match its peers, one by one, because the lists    *)
(* that decide do not change while the server is up.                       *)
(***************************************************************************)
Matches(t, x, result) ==
    /\ result = Denied <=> Authorised(t, x) = None
    /\ result.kind = "data" => result.did = Resolve(x)

Answering(c) ==
    /\ \A k \in 1 .. Len(out[c]) : Matches(bearer[c], asked[c][k], out[c][k])
    /\ pc[c] = "route" => /\ did[c] = Authorised(bearer[c], asked[c][Len(out[c]) + 1])
                          /\ did[c] # None
    /\ pc[c] = "answered" => Len(out[c]) = Len(asked[c])

AnswersOK ==
    \A c \in Calls : pc[c] \in {"authorise", "route", "answered"} => Answering(c)

\* What a token may see is the same as long as the server's lists are.
LEMMA SameLists ==
    ASSUME UNCHANGED <<reg, toks>>, NEW t, NEW x, NEW result
    PROVE  /\ Authorised(t, x)' = Authorised(t, x)
           /\ Matches(t, x, result)' = Matches(t, x, result)
  <1>1. Resolve(x)' = Resolve(x)
    BY DEF Resolve
  <1>2. Authorised(t, x)' = Authorised(t, x)
    BY <1>1 DEF Authorised, Covers
  <1> QED
    BY <1>1, <1>2 DEF Matches

\* A call that a step leaves alone keeps its results.
LEMMA OtherCalls ==
    ASSUME UNCHANGED <<reg, toks>>, NEW b,
           pc'[b] = pc[b], bearer'[b] = bearer[b], asked'[b] = asked[b], did'[b] = did[b],
           out'[b] = out[b], Answering(b)
    PROVE  Answering(b)'
  BY SameLists DEF Answering

\* One more result, of the peer that the call has come to.
LEMMA CollectAnswers ==
    ASSUME McpInv, NEW c \in Calls, NEW result \in Results, Collect(c, result), Answering(c),
           pc[c] \in {"authorise", "route"},
           Matches(bearer[c], asked[c][Len(out[c]) + 1], result),
           UNCHANGED <<reg, toks, bearer, asked>>
    PROVE  Answering(c)'
  <1>1. /\ out'[c] = Append(out[c], result)
        /\ pc'[c] \in {"answered", "authorise"}
        /\ pc'[c] = "answered" => Len(out[c]) + 1 = Len(asked[c])
        /\ out[c] \in Seq(Results) /\ Len(out[c]) \in Nat /\ Len(out'[c]) = Len(out[c]) + 1
    BY DEF Collect, McpInv, TypeOK
  <1>2. ASSUME NEW k \in 1 .. Len(out'[c]) PROVE Matches(bearer[c], asked[c][k], out'[c][k])
    <2>1. CASE k \in 1 .. Len(out[c])
      BY <1>1, <2>1 DEF Answering
    <2>2. CASE k = Len(out[c]) + 1
      BY <1>1, <2>2
    <2> QED
      BY <1>1, <2>1, <2>2
  <1>3. ASSUME NEW k \in 1 .. Len(out'[c]) PROVE Matches(bearer[c], asked[c][k], out[c][k])'
    <2>1. PICK t, x, one : t = bearer[c] /\ x = asked[c][k] /\ one = out'[c][k]
      OBVIOUS
    <2>2. Matches(t, x, one)'
      BY <1>2, <2>1, SameLists
    <2> QED
      BY <2>1, <2>2 DEF Matches, Authorised, Covers, Resolve
  <1> QED
    BY <1>1, <1>3 DEF Answering

\* Every step of a call keeps the results of all calls in order.
LEMMA CallAnswers ==
    ASSUME McpInv, AnswersOK, NEW c \in Calls, CallStep(c)
    PROVE  AnswersOK'
  <1>1. UNCHANGED <<reg, toks, bearer, asked>>
    BY DEF CallStep, RejectCall, Authorise, Deny, Route, Panic, server
  <1>2. ASSUME NEW b \in Calls, b # c
        PROVE  pc'[b] = pc[b] /\ did'[b] = did[b] /\ out'[b] = out[b]
    BY <1>2 DEF CallStep, RejectCall, Authorise, Deny, Route, Panic, Collect, McpInv, TypeOK
  <1>3. pc'[c] \in {"authorise", "route", "answered"} => Answering(c)'
    <2>1. pc[c] \in {"authorise", "route"} /\ Answering(c)
      BY DEF CallStep, RejectCall, Authorise, Deny, Route, Panic, AnswersOK
    <2>2. CASE RejectCall(c)
      BY <2>2 DEF RejectCall, McpInv, TypeOK
    <2>3. CASE Authorise(c)
      <3>1. /\ pc'[c] = "route" /\ out'[c] = out[c]
            /\ did'[c] = Authorised(bearer[c], asked[c][Len(out[c]) + 1]) /\ did'[c] # None
        BY <2>3 DEF Authorise, Current, McpInv, TypeOK
      <3> QED
        BY <1>1, <2>1, <3>1, SameLists DEF Answering
    <2>4. CASE Deny(c)
      <3>1. Matches(bearer[c], asked[c][Len(out[c]) + 1], Denied) /\ Denied \in Results
        BY <2>4 DEF Deny, Current, Matches, Denied, Results
      <3> QED
        BY <1>1, <2>1, <2>4, <3>1, CollectAnswers DEF Deny
    <2>5. CASE Route(c)
      <3>1. /\ pc[c] = "route" /\ did[c] = Authorised(bearer[c], asked[c][Len(out[c]) + 1])
            /\ did[c] # None /\ did[c] \in DIDs
        BY <2>1, <2>5 DEF Route, Answering, McpInv, CallsOK
      <3>2. did[c] = Resolve(asked[c][Len(out[c]) + 1])
        BY <3>1 DEF Authorised
      <3>3. /\ Failed \in Results /\ Failed # Denied /\ Failed.kind # "data"
            /\ Data(did[c]) \in Results /\ Data(did[c]) # Denied /\ Data(did[c]).did = did[c]
        BY <3>1 DEF Failed, Denied, Data, Results
      <3>4. /\ Matches(bearer[c], asked[c][Len(out[c]) + 1], Failed)
            /\ Matches(bearer[c], asked[c][Len(out[c]) + 1], Data(did[c]))
        BY <3>1, <3>2, <3>3 DEF Matches
      <3> QED
        BY <1>1, <2>1, <2>5, <3>3, <3>4, CollectAnswers DEF Route
    <2>6. CASE Panic(c)
      BY <2>6 DEF Panic, McpInv, TypeOK
    <2> QED
      BY <2>2, <2>3, <2>4, <2>5, <2>6 DEF CallStep
  <1>4. ASSUME NEW b \in Calls, b # c, pc'[b] \in {"authorise", "route", "answered"}
        PROVE  Answering(b)'
    BY <1>1, <1>2, <1>4, OtherCalls DEF AnswersOK
  <1> QED
    BY <1>3, <1>4 DEF AnswersOK

\* Commands do not touch a server's lists; calls come and go with the server.
LEMMA NextAnswers == McpInv /\ AnswersOK /\ [Next]_vars => AnswersOK'
  <1> SUFFICES ASSUME McpInv, AnswersOK, [Next]_vars PROVE AnswersOK'
    OBVIOUS
  <1>1. ASSUME UNCHANGED <<reg, toks, call>> PROVE AnswersOK'
    BY <1>1, OtherCalls DEF AnswersOK, call
  <1>2. ASSUME NEW c \in Calls, NEW peers \in AskedPeers, NEW t \in {0} \cup Tokens,
               Arrive(c, peers, t)
        PROVE  AnswersOK'
    <2>1. UNCHANGED <<reg, toks>>
      BY <1>2 DEF Arrive, server
    <2>2. Answering(c)'
      BY <1>2 DEF Arrive, Answering, McpInv, TypeOK
    <2>3. ASSUME NEW b \in Calls, b # c, pc'[b] \in {"authorise", "route", "answered"}
          PROVE  Answering(b)'
      BY <1>2, <2>1, <2>3, OtherCalls DEF Arrive, AnswersOK, McpInv, TypeOK
    <2> QED
      BY <2>2, <2>3 DEF AnswersOK
  <1>3. CASE OpenRegistry \/ OpenTokens
    BY <1>3 DEF OpenRegistry, OpenTokens, AnswersOK, McpInv, Asleep, call
  <1>4. CASE Stop
    BY <1>4 DEF Stop, AnswersOK
  <1>5. ASSUME NEW n \in Names, PeerAdd(n) \/ \E d \in DIDs : PeerRename(d, n) PROVE AnswersOK'
    <2>1. UNCHANGED <<server, call>>
      BY <1>5 DEF PeerAdd, PeerRename
    <2> QED
      BY <1>1, <2>1 DEF server
  <1>6. ASSUME NEW scope \in Scopes, TokenCreate(scope) PROVE AnswersOK'
    <2>1. UNCHANGED <<server, call>>
      BY <1>6 DEF TokenCreate
    <2> QED
      BY <1>1, <2>1 DEF server
  <1>7. ASSUME NEW t \in Tokens, TokenRevoke(t) \/ Touch(t) PROVE AnswersOK'
    <2>1. UNCHANGED <<reg, toks, call>>
      BY <1>7 DEF TokenRevoke, Touch, server
    <2> QED
      BY <1>1, <2>1
  <1>8. CASE UNCHANGED vars
    BY <1>1, <1>8 DEF vars, call
  <1> QED
    BY <1>2, <1>3, <1>4, <1>5, <1>6, <1>7, <1>8, CallAnswers DEF Next

\* "peers it cannot access are returned as errors in the response rather than
\* failing the whole call" (handleCrossPeerQuery): an answered call has a result
\* for each peer, in order, and refuses those alone that the token does not cover.
THEOREM CrossPeer == Spec => []CrossPeerComplete
  <1>1. Init => AnswersOK
    BY DEF Init, AnswersOK
  <1>2. McpInv /\ AnswersOK => CrossPeerComplete
    <2> SUFFICES ASSUME McpInv, AnswersOK, NEW c \in Calls, pc[c] = "answered"
                 PROVE  /\ Len(out[c]) = Len(asked[c])
                        /\ \A k \in DOMAIN asked[c] :
                              /\ out[c][k] = Denied <=> Authorised(bearer[c], asked[c][k]) = None
                              /\ out[c][k].kind = "data" => out[c][k].did = Resolve(asked[c][k])
      BY DEF CrossPeerComplete
    <2>1. Answering(c) /\ asked[c] \in Seq(Targets)
      BY DEF AnswersOK, McpInv, TypeOK
    <2>2. DOMAIN asked[c] = 1 .. Len(asked[c])
      BY <2>1
    <2> QED
      BY <2>1, <2>2 DEF Answering, Matches
  <1> QED
    BY <1>1, <1>2, NextAnswers, McpInvariant, PTL DEF Spec

=============================================================================
